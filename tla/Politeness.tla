------------------------------ MODULE Politeness ------------------------------
(****************************************************************************)
(* What paces and sizes the requests to relays: the GCRA limiters and the   *)
(* backoff counts of RateLimiterRegistry (relay/rate_limit.rs), the cache   *)
(* of NIP-11 limits (relay/nip11.rs) and the notices that a task of its own *)
(* feeds in (relay/mod.rs), under concurrent paged fetches.                 *)
(*                                                                          *)
(* The unit of time is what a limiter takes to replenish one cell.          *)
(****************************************************************************)
EXTENDS Integers, Sequences, FiniteSets

CONSTANTS
    Fetchers,         \* the batch tasks that fetch
    Curated,          \* cfg.relays: the pool that the client is connected to
    WriteRelays,      \* NIP-65 write relays: keys of their own, never in the pool
    Noisy,            \* the relays that send notices
    Quota,            \* reqs_per_second, which is also the limiter's burst
    Advertised,       \* the max_limit values of NIP-11 documents, Null for one without
    DefaultMaxLimit,  \* DEFAULT_MAX_LIMIT, scaled down
    MaxAdvertised,    \* MAX_ADVERTISED_LIMIT, scaled down
    Base, Cap,        \* base and cap of the backoff, scaled down
    Wide,             \* 2^128 of the shifted nanoseconds, scaled down
    Bits,             \* its bits: checked_shl yields None from here on
    SaturateAt,       \* 64, scaled down: from here on the delay is the cap
    MaxU32,           \* u32::MAX of the failure counts, scaled down
    Null,             \* None, or no entry
    MaxTime           \* bound on the clock, for model checking only

Keys == Curated \cup WriteRelays

ASSUME PolitenessConstants ==
    /\ IsFiniteSet(Fetchers) /\ IsFiniteSet(Keys)
    /\ Noisy \subseteq Curated
    /\ {Quota, DefaultMaxLimit, MaxAdvertised, Base, Cap} \subseteq Nat \ {0}
    /\ DefaultMaxLimit <= MaxAdvertised
    /\ Advertised \subseteq Int \cup {Null}
    /\ Wide = 2^Bits /\ {Base, Cap} \subseteq 0..(Wide - 1)
    /\ {SaturateAt, MaxU32, MaxTime} \subseteq Nat
    /\ Null \notin Int \cup Keys

\* Base, shifted: each bit doubles it and drops what leaves the word.
shl[n \in 0..(Bits - 1)] ==
    IF n = 0 THEN Base
    ELSE IF 2 * shl[n - 1] < Wide THEN 2 * shl[n - 1] ELSE 2 * shl[n - 1] - Wide

\* Clamping at 64 is soon enough: no bit of the base, a second in nanoseconds, is lost
\* in fewer shifts.
ASSUME SaturatesInTime ==
    /\ Bits \in Nat \ {0} /\ SaturateAt <= Bits
    /\ \A n \in 1..(SaturateAt - 1) : 2 * shl[n - 1] < Wide

VARIABLES
    entries,    \* LimitCache: key |-> max_limit, Null if not cached
    gets,       \* history: document requests per key
    limiters,   \* key |-> its limiter, Null before its first use
    tats,       \* the limiters' theoretical arrival times, shared by reference
    failures,   \* key |-> consecutive rate-limited notices
    listening,  \* the notice consumer still runs
    clock,
    sent,       \* history: key |-> when its limiter let a window through, in order
    fetch       \* the paged fetches

vars == <<entries, gets, limiters, tats, failures, listening, clock, sent, fetch>>

Idle == [pc |-> "idle", kind |-> "union", key |-> Null, cap |-> Null, limiter |-> Null]

Init ==
    /\ entries = [k \in Keys |-> Null]
    /\ gets = [k \in Keys |-> 0]
    /\ limiters = [k \in Keys |-> Null]
    /\ tats = <<>>
    /\ failures = [k \in Keys |-> 0]
    /\ listening = TRUE
    /\ clock = 0
    /\ sent = [k \in Keys |-> <<>>]
    /\ fetch = [f \in Fetchers |-> Idle]

Goto(f, pc) == fetch' = [fetch EXCEPT ![f].pc = pc]

\* A fetch closure turns to one relay: curated for the fan-out and the relay
\* lists, whatever the author declared for the fallback.
Begin(f) ==
    /\ fetch[f].pc = "idle"
    /\ \E kind \in {"union", "relay_list", "fallback"}, k \in Keys :
          /\ k \in IF kind = "fallback" THEN WriteRelays ELSE Curated
          /\ fetch' = [fetch EXCEPT ![f] = [Idle EXCEPT !.pc = "lookup",
                                                !.kind = kind, !.key = k]]
    /\ UNCHANGED <<entries, gets, limiters, tats, failures, listening, clock, sent>>

-----------------------------------------------------------------------------
(* LimitCache.get_or_fetch *)

clamp_limit(advertised) ==
    IF advertised # Null /\ advertised > 0 THEN advertised ELSE DefaultMaxLimit

\* Mutant: an absurd limit is taken as it is.
clamp_max_limit_unbounded(advertised) == clamp_limit(advertised)

clamp_max_limit(advertised) ==
    LET limit == clamp_limit(advertised)
    IN  IF limit < MaxAdvertised THEN limit ELSE MaxAdvertised

\* The cache under its lock: a hit is used, a miss goes to ask the relay.
Lookup(f) ==
    /\ fetch[f].pc = "lookup"
    /\ LET k == fetch[f].key IN
       \/ /\ entries[k] # Null
          /\ fetch' = [fetch EXCEPT ![f].pc = "acquire", ![f].cap = entries[k]]
          /\ UNCHANGED gets
       \/ /\ entries[k] = Null
          /\ gets' = [gets EXCEPT ![k] = @ + 1]
          /\ Goto(f, "get")
    /\ UNCHANGED <<entries, limiters, tats, failures, listening, clock, sent>>

\* Mutant: a failed request leaves no entry behind.
fetch_limits_forgets(f) ==
    \/ \E advertised \in Advertised :
          /\ entries' = [entries EXCEPT ![fetch[f].key] = clamp_max_limit(advertised)]
          /\ fetch' = [fetch EXCEPT ![f].pc = "acquire",
                                    ![f].cap = clamp_max_limit(advertised)]
    \/ /\ fetch' = [fetch EXCEPT ![f].pc = "acquire", ![f].cap = DefaultMaxLimit]
       /\ UNCHANGED entries

\* The document, or the default of a failed, oversized or malformed one, is
\* inserted without looking again: the later of two misses wins.
fetch_limits(f) ==
    \E limit \in {clamp_max_limit(a) : a \in Advertised} \cup {DefaultMaxLimit} :
       /\ entries' = [entries EXCEPT ![fetch[f].key] = limit]
       /\ fetch' = [fetch EXCEPT ![f].pc = "acquire", ![f].cap = limit]

Fetched(f) ==
    /\ fetch[f].pc = "get"
    /\ fetch_limits(f)
    /\ UNCHANGED <<gets, limiters, tats, failures, listening, clock, sent>>

-----------------------------------------------------------------------------
(* RateLimiterRegistry.acquire before every window, and the window itself *)

\* Mutant: every caller mints a limiter.
get_or_insert_minted(k) ==
    /\ tats' = Append(tats, 0)
    /\ limiters' = [limiters EXCEPT ![k] = Len(tats) + 1]

\* The key's limiter, created on first use and never removed.
get_or_insert(k) ==
    IF limiters[k] # Null THEN UNCHANGED <<tats, limiters>>
    ELSE /\ tats' = Append(tats, 0)
         /\ limiters' = [limiters EXCEPT ![k] = Len(tats) + 1]

Acquire(f) ==
    /\ fetch[f].pc = "acquire"
    /\ get_or_insert(fetch[f].key)
    /\ fetch' = [fetch EXCEPT ![f].pc = "until_ready",
                              ![f].limiter = limiters'[fetch[f].key]]
    /\ UNCHANGED <<entries, gets, failures, listening, clock, sent>>

\* governor's until_ready: a cell is taken as soon as one conforms.
UntilReady(f) ==
    /\ fetch[f].pc = "until_ready"
    /\ LET l == fetch[f].limiter IN
       /\ tats[l] <= clock + Quota - 1
       /\ tats' = [tats EXCEPT ![l] = (IF @ < clock THEN clock ELSE @) + 1]
    /\ sent' = [sent EXCEPT ![fetch[f].key] = Append(@, clock)]
    /\ fetch' = [fetch EXCEPT ![f].pc = "window", ![f].limiter = Null]
    /\ UNCHANGED <<entries, gets, limiters, failures, listening, clock>>

\* A full window pages on, a short one ends the fetch of this relay.
Page(f) ==
    /\ fetch[f].pc = "window"
    /\ Goto(f, "acquire")
    /\ UNCHANGED <<entries, gets, limiters, tats, failures, listening, clock, sent>>

\* Mutant: the fallback clears the count of the relay as well.
resets_any(kind) == TRUE

resets(kind) == kind = "union"

\* The fan-out clears the relay's failures after a complete fetch.
Complete(f) ==
    /\ fetch[f].pc = "window"
    /\ failures' = [failures EXCEPT ![fetch[f].key] =
                       IF resets(fetch[f].kind) THEN 0 ELSE @]
    /\ fetch' = [fetch EXCEPT ![f] = Idle]
    /\ UNCHANGED <<entries, gets, limiters, tats, listening, clock, sent>>

FetchErr(f) ==
    /\ fetch[f].pc = "window"
    /\ fetch' = [fetch EXCEPT ![f] = Idle]
    /\ UNCHANGED <<entries, gets, limiters, tats, failures, listening, clock, sent>>

-----------------------------------------------------------------------------
(* Notices and the backoff they call for *)

\* base.checked_shl(n), or the largest word where it is None.
checked_shl(n) == IF n < Bits THEN shl[n] ELSE Wide - 1

\* Mutant: shifts up to the width of the word are let through.
backoff_delay_unjittered_late(n) ==
    IF checked_shl(n) < Cap THEN checked_shl(n) ELSE Cap

\* min(base << failures, cap), and the cap at once from SaturateAt on.
backoff_delay_unjittered(n) ==
    IF n >= SaturateAt \/ checked_shl(n) >= Cap THEN Cap ELSE checked_shl(n)

\* handle_relay_message of a rate-limited notice: record_notice counts it, and the
\* delay it returns is dropped.  A blocked notice counts nothing here.
Notice(k) ==
    /\ listening
    /\ failures' = [failures EXCEPT ![k] = IF @ < MaxU32 THEN @ + 1 ELSE @]
    /\ UNCHANGED <<entries, gets, limiters, tats, listening, clock, sent, fetch>>

\* The consumer lags behind the notification channel, or the pool shuts down: it
\* stops and is not started again.
ConsumerStops ==
    /\ listening
    /\ listening' = FALSE
    /\ UNCHANGED <<entries, gets, limiters, tats, failures, clock, sent, fetch>>

Tick ==
    /\ clock < MaxTime
    /\ clock' = clock + 1
    /\ UNCHANGED <<entries, gets, limiters, tats, failures, listening, sent, fetch>>

\* The bounded clock has run out.
TimeUp == clock = MaxTime /\ UNCHANGED vars

Advance(f) ==
    \/ Begin(f) \/ Lookup(f) \/ Fetched(f) \/ Acquire(f) \/ UntilReady(f)
    \/ Page(f) \/ Complete(f) \/ FetchErr(f)

Next ==
    \/ \E f \in Fetchers : Advance(f)
    \/ \E k \in Noisy : Notice(k)
    \/ ConsumerStops
    \/ Tick
    \/ TimeUp

Spec == Init /\ [][Next]_vars

-----------------------------------------------------------------------------
\* What a limiter of this quota lets through: any windows in a row take as long as
\* it takes to replenish the cells that the burst does not cover.
Conforms(times) ==
    \A i, j \in 1..Len(times) :
        i <= j => j - i + 1 <= Quota + (times[j] - times[i])

\* CR-05: however many fetches share a key, and whenever each of them came by its
\* limiter, their windows together keep to the quota of one.
KeyQuota == \A k \in Keys : Conforms(sent[k])

\* client.fetch_events asks the whole pool: a relay of the pool receives the windows
\* sent under every key, a write relay receives none.
Received(r) ==
    IF r \in Curated THEN UNION {{k} \X DOMAIN sent[k] : k \in Keys} ELSE {}

\* rate_limit.rs, acquire: "concurrent fetches never exceed the configured
\* per-relay quota", as the relay itself counts them in any stretch of time.
RelayQuota ==
    LET at(w) == sent[w[1]][w[2]]
    IN  \A r \in Keys : \A v, w \in Received(r) :
            at(v) <= at(w) =>
                Cardinality({u \in Received(r) : at(u) \in at(v)..at(w)})
                    <= Quota + (at(w) - at(v))

\* nip11.rs: a bad document "is not re-fetched on every call": a key's document is
\* asked for at most once by each task that may miss at the same time, although
\* misses are not coordinated and a later answer replaces an earlier one.
DocumentAskedOnce == \A k \in Keys : gets[k] <= Cardinality(Fetchers)

\* Whatever relays advertise, each page asks for at least one event and at most
\* MAX_ADVERTISED_LIMIT, the number that bounds the memory of a chunk.
CapUsable ==
    \A f \in Fetchers : fetch[f].pc = "window" => fetch[f].cap \in 1..MaxAdvertised

\* The delay before jitter of the last notice; record_notice returned one drawn from
\* its upper half.
Delay(k) == backoff_delay_unjittered(failures[k] - 1)

\* WR-01: repeated notices never shorten the backoff, at whatever count, and only
\* a complete fan-out fetch of that very relay starts it over.
BackoffEscalates ==
    [][\A k \in Keys :
          \/ failures'[k] = failures[k]
          \/ failures'[k] > 0 /\ (failures[k] > 0 => Delay(k)' >= Delay(k))
          \/ \E f \in Fetchers : /\ fetch[f].kind = "union" /\ fetch[f].key = k
                                 /\ fetch[f].pc = "window" /\ fetch'[f].pc = "idle"]_vars
=============================================================================
