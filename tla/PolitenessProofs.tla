--------------------------- MODULE PolitenessProofs ---------------------------
(****************************************************************************)
(* The quota of a limiter key, the requests for a NIP-11 document and the   *)
(* caps of Politeness, for any fetchers, relays, quota and documents.       *)
(*                                                                          *)
(* The registry hands a limiter out under its lock and it is awaited after  *)
(* the lock is gone; the document is asked for between two looks at the     *)
(* cache.  The invariant says what a fetch may still rely on in between.    *)
(****************************************************************************)
EXTENDS Politeness, FiniteSetTheorems, SequenceTheorems, WellFoundedInduction, TLAPS

Steps == {"idle", "lookup", "get", "acquire", "until_ready", "window"}
Limits == 1..MaxAdvertised

FetchType == [pc      : Steps,
              kind    : {"union", "relay_list", "fallback"},
              key     : Keys \cup {Null},
              cap     : Limits \cup {Null},
              limiter : Nat \cup {Null}]

\* A fetch that has begun has a key, and a cap once it has looked the limits up.
Sound(t) ==
    /\ t \in FetchType
    /\ t.pc # "idle" => t.key \in Keys
    /\ t.pc \in {"acquire", "until_ready", "window"} => t.cap \in Limits

PoliteTypes ==
    /\ entries \in [Keys -> Limits \cup {Null}]
    /\ gets \in [Keys -> Nat]
    /\ limiters \in [Keys -> Nat \cup {Null}]
    /\ tats \in Seq(Nat)
    /\ clock \in Nat
    /\ sent \in [Keys -> Seq(Nat)]
    /\ fetch \in [Fetchers -> FetchType]
    /\ \A f \in Fetchers : Sound(fetch[f])

\* Every key has a limiter of its own, and a fetch that waits holds its key's.
OwnLimiter ==
    /\ \A k \in Keys : limiters[k] # Null => limiters[k] \in 1..Len(tats)
    /\ \A j, k \in Keys : j # k /\ limiters[j] # Null => limiters[j] # limiters[k]
    /\ \A f \in Fetchers : fetch[f].pc = "until_ready" =>
          fetch[f].limiter = limiters[fetch[f].key] /\ fetch[f].limiter # Null

\* Between a window and its limiter's theoretical arrival time lies a unit of time
\* for that window and for each one since.
Paced ==
    \A k \in Keys :
        /\ limiters[k] = Null => sent[k] = <<>>
        /\ \A i \in 1..Len(sent[k]) :
              /\ sent[k][i] <= clock
              /\ sent[k][i] + (Len(sent[k]) - i + 1) <= tats[limiters[k]]

\* The requests for a document that are under way.
Asking(k) == {f \in Fetchers : fetch[f].pc = "get" /\ fetch[f].key = k}

\* As long as the cache has no entry, none of the requests has been answered.
Asked ==
    \A k \in Keys :
        IF entries[k] = Null THEN gets[k] = Cardinality(Asking(k))
        ELSE gets[k] <= Cardinality(Fetchers)

\* The inductive invariant.
PoliteInv == PoliteTypes /\ OwnLimiter /\ Paced /\ KeyQuota /\ Asked

-----------------------------------------------------------------------------
(* Types *)

\* Whatever a document advertises, the cap is usable.
LEMMA ClampLimits ==
    ASSUME NEW a \in Advertised
    PROVE  clamp_max_limit(a) \in Limits
<1>1. a \in Int \/ a = Null
  BY PolitenessConstants
<1>2. clamp_limit(a) \in Int /\ clamp_limit(a) > 0
  BY <1>1, PolitenessConstants DEF clamp_limit
<1> QED BY <1>2, PolitenessConstants DEF clamp_max_limit, Limits

\* The limits that fetch_limits may cache.
LEMMA FetchedLimits ==
    ASSUME NEW limit \in {clamp_max_limit(a) : a \in Advertised} \cup {DefaultMaxLimit}
    PROVE  limit \in Limits
BY ClampLimits, PolitenessConstants DEF Limits

LEMMA IdleSound == Sound(Idle) /\ Idle.pc = "idle"
BY DEF Idle, Sound, FetchType, Steps

\* One fetch moves, the others stay.
LEMMA FetchMoves ==
    ASSUME PoliteTypes, NEW f \in Fetchers, NEW t, Sound(t),
           fetch' = [fetch EXCEPT ![f] = t]
    PROVE  /\ fetch' \in [Fetchers -> FetchType]
           /\ \A g \in Fetchers : Sound(fetch'[g])
           /\ fetch'[f] = t
           /\ \A g \in Fetchers : g # f => fetch'[g] = fetch[g]
<1>1. /\ fetch' \in [Fetchers -> FetchType] /\ fetch'[f] = t
      /\ \A g \in Fetchers : g # f => fetch'[g] = fetch[g]
  BY DEF PoliteTypes, Sound
<1>2. \A g \in Fetchers : Sound(fetch'[g])
  BY <1>1 DEF PoliteTypes
<1> QED BY <1>1, <1>2

-----------------------------------------------------------------------------
(* The parts of the invariant, from what a step leaves alone *)

\* No limiter is created, awaited or let go.
LEMMA LimitersKept ==
    ASSUME PoliteInv, UNCHANGED <<limiters, tats, sent>>,
           clock' \in Nat, clock' >= clock,
           \A f \in Fetchers : fetch'[f].pc = "until_ready" => fetch'[f] = fetch[f]
    PROVE  OwnLimiter' /\ Paced' /\ KeyQuota'
<1>1. OwnLimiter'
  BY DEF PoliteInv, OwnLimiter
<1>2. ASSUME NEW k \in Keys, NEW i \in 1..Len(sent[k]) PROVE sent[k][i] <= clock'
  <2>1. sent[k] \in Seq(Nat)
    BY DEF PoliteInv, PoliteTypes
  <2>2. sent[k][i] \in Nat /\ clock \in Nat
    BY <2>1, ElementOfSeq DEF PoliteInv, PoliteTypes
  <2> QED BY <2>2 DEF PoliteInv, Paced
<1>3. Paced'
  BY <1>2 DEF PoliteInv, Paced
<1>4. KeyQuota'
  BY DEF PoliteInv, KeyQuota, Conforms
<1> QED BY <1>1, <1>3, <1>4

\* No document is asked for or arrives.
LEMMA AskedKept ==
    ASSUME PoliteInv, UNCHANGED <<entries, gets>>,
           \A f \in Fetchers :
              \/ fetch'[f] = fetch[f]
              \/ fetch[f].pc # "get" /\ fetch'[f].pc # "get"
    PROVE  Asked'
<1>1. \A k : Asking(k)' = Asking(k)
  BY DEF Asking
<1> QED BY <1>1 DEF PoliteInv, Asked

\* There are finitely many requests under way.
LEMMA AskingFinite ==
    \A k : /\ IsFiniteSet(Asking(k)) /\ Cardinality(Asking(k)) \in Nat
           /\ Cardinality(Asking(k)) <= Cardinality(Fetchers)
           /\ Cardinality(Fetchers) \in Nat
<1>1. \A k : Asking(k) \subseteq Fetchers
  BY DEF Asking
<1> QED BY <1>1, FS_Subset, FS_CardinalityType, PolitenessConstants

-----------------------------------------------------------------------------
(* The steps *)

\* A fetch goes on without its limiter or the document.
LEMMA MoveKeeps ==
    ASSUME PoliteInv, NEW f \in Fetchers, NEW t, Sound(t),
           fetch' = [fetch EXCEPT ![f] = t],
           t.pc \notin {"get", "until_ready"}, fetch[f].pc # "get",
           UNCHANGED <<entries, gets, limiters, tats, clock, sent>>
    PROVE  PoliteInv'
<1>1. /\ fetch' \in [Fetchers -> FetchType]
      /\ \A g \in Fetchers : Sound(fetch'[g])
      /\ fetch'[f] = t
      /\ \A g \in Fetchers : g # f => fetch'[g] = fetch[g]
  BY FetchMoves DEF PoliteInv
<1>2. PoliteTypes'
  BY <1>1 DEF PoliteInv, PoliteTypes
<1>3. clock' \in Nat /\ clock' >= clock
  BY DEF PoliteInv, PoliteTypes
<1>4. OwnLimiter' /\ Paced' /\ KeyQuota'
  BY <1>1, <1>3, LimitersKept
<1>5. Asked'
  BY <1>1, AskedKept
<1> QED BY <1>2, <1>4, <1>5 DEF PoliteInv

\* What a fetch carries.
LEMMA FetchFacts ==
    ASSUME PoliteInv, NEW f \in Fetchers
    PROVE  /\ Sound(fetch[f]) /\ fetch[f] \in FetchType
           /\ fetch[f].pc # "idle" => fetch[f].key \in Keys
           /\ fetch[f].pc \in {"acquire", "until_ready", "window"} =>
                 fetch[f].cap \in Limits
BY DEF PoliteInv, PoliteTypes, Sound

LEMMA BeginKeeps ==
    ASSUME PoliteInv, NEW f \in Fetchers, Begin(f)
    PROVE  PoliteInv'
<1>1. PICK kind \in {"union", "relay_list", "fallback"}, k \in Keys :
        fetch' = [fetch EXCEPT ![f] = [Idle EXCEPT !.pc = "lookup",
                                           !.kind = kind, !.key = k]]
  BY DEF Begin
<1> DEFINE t == [Idle EXCEPT !.pc = "lookup", !.kind = kind, !.key = k]
<1>2. Sound(t) /\ t.pc = "lookup"
  BY DEF Idle, Sound, FetchType, Steps
<1>3. UNCHANGED <<entries, gets, limiters, tats, clock, sent>> /\ fetch[f].pc # "get"
  BY DEF Begin
<1>4. fetch' = [fetch EXCEPT ![f] = t]
  BY <1>1
<1> HIDE DEF t
<1> QED BY <1>2, <1>3, <1>4, MoveKeeps

\* The fetch of a relay pages on, or ends.
LEMMA WindowKeeps ==
    ASSUME PoliteInv, NEW f \in Fetchers, Page(f) \/ Complete(f) \/ FetchErr(f)
    PROVE  PoliteInv'
<1>1. /\ UNCHANGED <<entries, gets, limiters, tats, clock, sent>>
      /\ fetch[f].pc = "window"
  BY DEF Page, Complete, FetchErr
<1>2. CASE Complete(f) \/ FetchErr(f)
  <2>1. fetch' = [fetch EXCEPT ![f] = Idle]
    BY <1>2 DEF Complete, FetchErr
  <2> QED BY <1>1, <2>1, IdleSound, MoveKeeps
<1>3. CASE Page(f)
  <2> DEFINE t == [fetch[f] EXCEPT !.pc = "acquire"]
  <2>1. fetch' = [fetch EXCEPT ![f] = t]
    BY <1>3 DEF Page, Goto
  <2>2. Sound(t) /\ t.pc = "acquire"
    BY <1>1, FetchFacts DEF Sound, FetchType, Steps
  <2> HIDE DEF t
  <2> QED BY <1>1, <2>1, <2>2, MoveKeeps
<1> QED BY <1>2, <1>3

\* A hit is used; a miss goes to ask, and is counted with those under way.
LEMMA LookupKeeps ==
    ASSUME PoliteInv, NEW f \in Fetchers, Lookup(f)
    PROVE  PoliteInv'
<1>0. PICK q \in Keys : q = fetch[f].key
  BY FetchFacts DEF Lookup
<1>1. /\ UNCHANGED <<entries, limiters, tats, clock, sent>> /\ fetch[f].pc = "lookup"
  BY DEF Lookup
<1>2. CASE /\ entries[q] # Null /\ UNCHANGED gets
           /\ fetch' = [fetch EXCEPT ![f].pc = "acquire", ![f].cap = entries[q]]
  <2> DEFINE t == [fetch[f] EXCEPT !.pc = "acquire", !.cap = entries[q]]
  <2>1. fetch' = [fetch EXCEPT ![f] = t]
    BY <1>2
  <2>2. entries[q] \in Limits
    BY <1>2 DEF PoliteInv, PoliteTypes
  <2>3. Sound(t) /\ t.pc = "acquire"
    BY <1>0, <2>2, FetchFacts DEF Sound, FetchType, Steps
  <2> HIDE DEF t
  <2> QED BY <1>1, <1>2, <2>1, <2>3, MoveKeeps
<1>3. CASE /\ entries[q] = Null
           /\ gets' = [gets EXCEPT ![q] = @ + 1] /\ Goto(f, "get")
  <2> DEFINE t == [fetch[f] EXCEPT !.pc = "get"]
  <2>1. fetch' = [fetch EXCEPT ![f] = t]
    BY <1>3 DEF Goto
  <2>2. Sound(t) /\ t.pc = "get" /\ t.key = q
    BY <1>0, <1>1, FetchFacts DEF Sound, FetchType, Steps
  <2> HIDE DEF t
  <2>3. /\ fetch' \in [Fetchers -> FetchType]
        /\ \A g \in Fetchers : Sound(fetch'[g])
        /\ fetch'[f] = t
        /\ \A g \in Fetchers : g # f => fetch'[g] = fetch[g]
    BY <2>1, <2>2, FetchMoves DEF PoliteInv
  <2>4. gets \in [Keys -> Nat] /\ gets' \in [Keys -> Nat]
    BY <1>3 DEF PoliteInv, PoliteTypes
  <2>5. PoliteTypes'
    BY <1>1, <2>3, <2>4 DEF PoliteInv, PoliteTypes
  <2>6. clock' \in Nat /\ clock' >= clock
    BY <1>1 DEF PoliteInv, PoliteTypes
  <2>7. OwnLimiter' /\ Paced' /\ KeyQuota'
    BY <1>1, <2>2, <2>3, <2>6, LimitersKept
  <2>8. /\ Asking(q)' = Asking(q) \cup {f} /\ f \notin Asking(q)
        /\ \A k : k # q => Asking(k)' = Asking(k)
    BY <1>1, <2>2, <2>3 DEF Asking
  <2>9. Cardinality(Asking(q)') = Cardinality(Asking(q)) + 1
    BY <2>8, AskingFinite, FS_AddElement
  <2>10. Asked'
    BY <1>1, <1>3, <2>4, <2>8, <2>9 DEF PoliteInv, Asked
  <2> QED BY <2>5, <2>7, <2>10 DEF PoliteInv
<1> QED BY <1>0, <1>2, <1>3 DEF Lookup

\* The answer is cached, whoever else has asked.
LEMMA FetchedKeeps ==
    ASSUME PoliteInv, NEW f \in Fetchers, Fetched(f)
    PROVE  PoliteInv'
<1>0. PICK q \in Keys : q = fetch[f].key
  BY FetchFacts DEF Fetched
<1>1. /\ UNCHANGED <<gets, limiters, tats, clock, sent>> /\ fetch[f].pc = "get"
  BY DEF Fetched
<1>2. PICK limit \in Limits :
        /\ entries' = [entries EXCEPT ![q] = limit]
        /\ fetch' = [fetch EXCEPT ![f].pc = "acquire", ![f].cap = limit]
  BY <1>0, FetchedLimits DEF Fetched, fetch_limits
<1> DEFINE t == [fetch[f] EXCEPT !.pc = "acquire", !.cap = limit]
<1>3. fetch' = [fetch EXCEPT ![f] = t]
  BY <1>2
<1>4. Sound(t) /\ t.pc = "acquire"
  BY <1>0, FetchFacts DEF Sound, FetchType, Steps
<1> HIDE DEF t
<1>5. /\ fetch' \in [Fetchers -> FetchType]
      /\ \A g \in Fetchers : Sound(fetch'[g])
      /\ fetch'[f] = t
      /\ \A g \in Fetchers : g # f => fetch'[g] = fetch[g]
  BY <1>3, <1>4, FetchMoves DEF PoliteInv
<1>6. entries \in [Keys -> Limits \cup {Null}] /\ entries' \in [Keys -> Limits \cup {Null}]
  BY <1>2 DEF PoliteInv, PoliteTypes
<1>7. PoliteTypes'
  BY <1>1, <1>5, <1>6 DEF PoliteInv, PoliteTypes
<1>8. clock' \in Nat /\ clock' >= clock
  BY <1>1 DEF PoliteInv, PoliteTypes
<1>9. OwnLimiter' /\ Paced' /\ KeyQuota'
  BY <1>1, <1>4, <1>5, <1>8, LimitersKept
<1>10. \A k : k # q => Asking(k)' = Asking(k)
  BY <1>0, <1>1, <1>4, <1>5 DEF Asking
<1>11. entries'[q] # Null
  <2>1. limit \in Int
    BY DEF Limits
  <2> QED BY <1>2, <1>6, <2>1, PolitenessConstants
<1>12. gets[q] <= Cardinality(Fetchers)
  BY AskingFinite DEF PoliteInv, Asked
<1>13. Asked'
  BY <1>1, <1>2, <1>6, <1>10, <1>11, <1>12 DEF PoliteInv, Asked
<1> QED BY <1>7, <1>9, <1>13 DEF PoliteInv

\* A fetch comes by its key's limiter, which is new if there was none.
LEMMA AcquireKeeps ==
    ASSUME PoliteInv, NEW f \in Fetchers, Acquire(f)
    PROVE  PoliteInv'
<1>0. PICK q \in Keys : q = fetch[f].key
  BY FetchFacts DEF Acquire
<1>1. /\ UNCHANGED <<entries, gets, clock, sent>> /\ fetch[f].pc = "acquire"
      /\ get_or_insert(q)
  BY <1>0 DEF Acquire
<1>2. /\ limiters \in [Keys -> Nat \cup {Null}] /\ tats \in Seq(Nat)
      /\ Len(tats) \in Nat /\ Null \notin Nat
  BY PolitenessConstants DEF PoliteInv, PoliteTypes
<1>3. /\ limiters' \in [Keys -> Nat \cup {Null}] /\ tats' \in Seq(Nat)
      /\ limiters'[q] \in 1..Len(tats')
      /\ \A k \in Keys : k # q => limiters'[k] = limiters[k]
      /\ Len(tats') >= Len(tats)
      /\ \A n \in 1..Len(tats) : tats'[n] = tats[n]
  <2>1. CASE limiters[q] # Null
    <3>1. UNCHANGED <<tats, limiters>>
      BY <1>1, <2>1 DEF get_or_insert
    <3> QED BY <1>2, <2>1, <3>1 DEF PoliteInv, OwnLimiter
  <2>2. CASE limiters[q] = Null
    <3>1. /\ tats' = Append(tats, 0)
          /\ limiters' = [limiters EXCEPT ![q] = Len(tats) + 1]
      BY <1>1, <2>2 DEF get_or_insert
    <3>2. /\ tats' \in Seq(Nat) /\ Len(tats') = Len(tats) + 1
          /\ \A n \in 1..Len(tats) : tats'[n] = tats[n]
      BY <1>2, <3>1, AppendProperties
    <3> QED BY <1>2, <3>1, <3>2
  <2> QED BY <2>1, <2>2
<1>4. \A k \in Keys : limiters[k] # Null =>
         limiters'[k] = limiters[k] /\ limiters[k] \in 1..Len(tats)
  BY <1>1, <1>3 DEF get_or_insert, PoliteInv, OwnLimiter
<1>5. limiters[q] = Null => limiters'[q] = Len(tats) + 1
  BY <1>1, <1>2 DEF get_or_insert
<1> DEFINE t == [fetch[f] EXCEPT !.pc = "until_ready", !.limiter = limiters'[q]]
<1>6. fetch' = [fetch EXCEPT ![f] = t]
  BY <1>0 DEF Acquire
<1>7. Sound(t) /\ t.pc = "until_ready" /\ t.key = q /\ t.limiter = limiters'[q]
  <2>1. limiters'[q] \in Nat \cup {Null}
    BY <1>3
  <2> QED BY <1>0, <1>1, <2>1, FetchFacts DEF Sound, FetchType, Steps
<1> HIDE DEF t
<1>8. /\ fetch' \in [Fetchers -> FetchType]
      /\ \A g \in Fetchers : Sound(fetch'[g])
      /\ fetch'[f] = t
      /\ \A g \in Fetchers : g # f => fetch'[g] = fetch[g]
  BY <1>6, <1>7, FetchMoves DEF PoliteInv
<1>9. PoliteTypes'
  BY <1>1, <1>3, <1>8 DEF PoliteInv, PoliteTypes
<1>10. OwnLimiter'
  <2>1. \A k \in Keys : limiters'[k] # Null => limiters'[k] \in 1..Len(tats')
    BY <1>2, <1>3 DEF PoliteInv, OwnLimiter
  <2>2. ASSUME NEW j \in Keys, NEW k \in Keys, j # k, limiters'[j] # Null
        PROVE  limiters'[j] # limiters'[k]
    <3>1. CASE j # q /\ k # q
      BY <1>3, <2>2, <3>1 DEF PoliteInv, OwnLimiter
    <3>2. CASE limiters[q] # Null
      BY <1>3, <1>4, <2>2, <3>2 DEF PoliteInv, OwnLimiter
    <3>3. CASE j = q /\ limiters[q] = Null
      <4>1. limiters'[j] = Len(tats) + 1 /\ limiters'[k] = limiters[k]
        BY <1>3, <1>5, <2>2, <3>3
      <4>2. limiters[k] = Null \/ limiters[k] \in 1..Len(tats)
        BY DEF PoliteInv, OwnLimiter
      <4> QED BY <1>2, <4>1, <4>2
    <3>4. CASE k = q /\ limiters[q] = Null
      <4>1. limiters'[k] = Len(tats) + 1 /\ limiters'[j] = limiters[j]
        BY <1>3, <1>5, <2>2, <3>4
      <4>2. limiters[j] \in 1..Len(tats)
        BY <2>2, <4>1 DEF PoliteInv, OwnLimiter
      <4> QED BY <1>2, <4>1, <4>2
    <3> QED BY <3>1, <3>2, <3>3, <3>4
  <2>3. ASSUME NEW g \in Fetchers, fetch'[g].pc = "until_ready"
        PROVE  fetch'[g].limiter = limiters'[fetch'[g].key] /\ fetch'[g].limiter # Null
    <3>1. CASE g = f
      BY <1>2, <1>3, <1>7, <1>8, <3>1
    <3>2. CASE g # f
      <4>1. fetch'[g] = fetch[g] /\ fetch[g].pc = "until_ready"
        BY <1>8, <2>3, <3>2
      <4>2. fetch[g].key \in Keys
        BY <4>1, FetchFacts
      <4>3. fetch[g].limiter = limiters[fetch[g].key] /\ fetch[g].limiter # Null
        BY <4>1 DEF PoliteInv, OwnLimiter
      <4> QED BY <1>4, <4>1, <4>2, <4>3
    <3> QED BY <3>1, <3>2
  <2> QED BY <2>1, <2>2, <2>3 DEF OwnLimiter
<1>11. Paced'
  <2>1. ASSUME NEW k \in Keys
        PROVE  /\ limiters'[k] = Null => sent[k] = <<>>
               /\ \A i \in 1..Len(sent[k]) :
                     /\ sent[k][i] <= clock
                     /\ sent[k][i] + (Len(sent[k]) - i + 1) <= tats'[limiters'[k]]
    <3>1. CASE limiters[k] = Null
      <4>1. sent[k] = <<>>
        BY <3>1 DEF PoliteInv, Paced
      <4> QED BY <4>1
    <3>2. CASE limiters[k] # Null
      <4>1. limiters'[k] = limiters[k] /\ tats'[limiters[k]] = tats[limiters[k]]
        BY <1>3, <1>4, <3>2
      <4> QED BY <3>2, <4>1 DEF PoliteInv, Paced
    <3> QED BY <3>1, <3>2
  <2> QED BY <1>1, <2>1 DEF Paced
<1>12. KeyQuota'
  BY <1>1 DEF PoliteInv, KeyQuota, Conforms
<1>13. Asked'
  BY <1>1, <1>7, <1>8, AskedKept
<1> QED BY <1>9, <1>10, <1>11, <1>12, <1>13 DEF PoliteInv

\* The limiter lets a window through once that conforms, and moves on for good.
LEMMA UntilReadyKeeps ==
    ASSUME PoliteInv, NEW f \in Fetchers, UntilReady(f)
    PROVE  PoliteInv'
<1>0. PICK q \in Keys : q = fetch[f].key
  BY FetchFacts DEF UntilReady
<1>1. /\ UNCHANGED <<entries, gets, limiters, clock>> /\ fetch[f].pc = "until_ready"
  BY DEF UntilReady
<1>2. PICK l \in 1..Len(tats) : l = limiters[q] /\ l = fetch[f].limiter
  BY <1>0, <1>1 DEF PoliteInv, OwnLimiter
<1>3. PICK n \in Nat : n = Len(sent[q])
  BY DEF PoliteInv, PoliteTypes
<1>4. /\ tats \in Seq(Nat) /\ clock \in Nat /\ sent \in [Keys -> Seq(Nat)]
      /\ tats[l] \in Nat /\ sent[q] \in Seq(Nat) /\ limiters[q] # Null
  <2>1. tats \in Seq(Nat) /\ clock \in Nat /\ sent \in [Keys -> Seq(Nat)]
    BY DEF PoliteInv, PoliteTypes
  <2>2. tats[l] \in Nat /\ sent[q] \in Seq(Nat)
    BY <2>1, ElementOfSeq
  <2>3. l # Null
    BY <2>1, PolitenessConstants
  <2> QED BY <1>2, <2>1, <2>2, <2>3
<1>5. /\ tats[l] <= clock + Quota - 1
      /\ tats' = [tats EXCEPT ![l] = (IF tats[l] < clock THEN clock ELSE tats[l]) + 1]
      /\ sent' = [sent EXCEPT ![q] = Append(sent[q], clock)]
  BY <1>0, <1>2 DEF UntilReady
<1>6. /\ tats' \in Seq(Nat) /\ Len(tats') = Len(tats)
      /\ tats'[l] >= tats[l] + 1 /\ tats'[l] >= clock + 1 /\ tats'[l] \in Nat
      /\ \A m \in 1..Len(tats) : m # l => tats'[m] = tats[m]
  <2> DEFINE v == (IF tats[l] < clock THEN clock ELSE tats[l]) + 1
  <2>1. v \in Nat /\ v >= tats[l] + 1 /\ v >= clock + 1
    BY <1>4
  <2>2. tats' = [tats EXCEPT ![l] = v]
    BY <1>5
  <2> HIDE DEF v
  <2>3. /\ tats' \in Seq(Nat) /\ Len(tats') = Len(tats)
        /\ \A m \in 1..Len(tats) : tats'[m] = IF m = l THEN v ELSE tats[m]
    BY <1>4, <2>1, <2>2, ExceptSeq
  <2> QED BY <2>1, <2>3
<1>7. /\ sent'[q] \in Seq(Nat) /\ Len(sent'[q]) = n + 1 /\ sent'[q][n + 1] = clock
      /\ \A i \in 1..n : sent'[q][i] = sent[q][i]
      /\ \A k \in Keys : k # q => sent'[k] = sent[k]
      /\ sent' \in [Keys -> Seq(Nat)]
  <2>1. sent'[q] = Append(sent[q], clock) /\ \A k \in Keys : k # q => sent'[k] = sent[k]
    BY <1>4, <1>5
  <2>2. /\ sent'[q] \in Seq(Nat) /\ Len(sent'[q]) = n + 1 /\ sent'[q][n + 1] = clock
        /\ \A i \in 1..n : sent'[q][i] = sent[q][i]
    BY <1>3, <1>4, <2>1, AppendProperties
  <2> QED BY <1>4, <1>5, <2>1, <2>2
<1> DEFINE t == [fetch[f] EXCEPT !.pc = "window", !.limiter = Null]
<1>8. fetch' = [fetch EXCEPT ![f] = t]
  BY DEF UntilReady
<1>9. Sound(t) /\ t.pc = "window"
  BY <1>1, FetchFacts DEF Sound, FetchType, Steps
<1> HIDE DEF t
<1>10. /\ fetch' \in [Fetchers -> FetchType]
       /\ \A g \in Fetchers : Sound(fetch'[g])
       /\ fetch'[f] = t
       /\ \A g \in Fetchers : g # f => fetch'[g] = fetch[g]
  BY <1>8, <1>9, FetchMoves DEF PoliteInv
<1>11. PoliteTypes'
  BY <1>1, <1>6, <1>7, <1>10 DEF PoliteInv, PoliteTypes
<1>12. OwnLimiter'
  BY <1>1, <1>6, <1>9, <1>10 DEF PoliteInv, OwnLimiter
<1>13. \A i \in 1..n : /\ sent[q][i] \in Nat /\ sent[q][i] <= clock
                       /\ sent[q][i] + (n - i + 1) <= tats[l]
  <2>1. \A i \in 1..n : sent[q][i] \in Nat
    BY <1>3, <1>4, ElementOfSeq
  <2>2. \A i \in 1..n : /\ sent[q][i] <= clock
                         /\ sent[q][i] + (n - i + 1) <= tats[limiters[q]]
    BY <1>3 DEF PoliteInv, Paced
  <2> QED BY <1>2, <2>1, <2>2
<1>14. \A i \in 1..(n + 1) : /\ sent'[q][i] \in Nat /\ sent'[q][i] <= clock
                             /\ sent'[q][i] + (n + 1 - i + 1) <= tats'[l]
  <2>1. ASSUME NEW i \in 1..(n + 1)
        PROVE  /\ sent'[q][i] \in Nat /\ sent'[q][i] <= clock
               /\ sent'[q][i] + (n + 1 - i + 1) <= tats'[l]
    <3>1. CASE i \in 1..n
      <4>1. sent'[q][i] = sent[q][i] /\ sent[q][i] \in Nat /\ sent[q][i] <= clock
        BY <1>7, <1>13, <3>1
      <4>2. sent[q][i] + (n - i + 1) <= tats[l] /\ tats[l] + 1 <= tats'[l]
        BY <1>6, <1>13, <3>1
      <4>3. tats[l] \in Nat /\ tats'[l] \in Nat /\ n \in Nat /\ i \in Int
        BY <1>3, <1>4, <1>6
      <4> QED BY <4>1, <4>2, <4>3
    <3>2. CASE i = n + 1
      BY <1>3, <1>4, <1>6, <1>7, <3>2
    <3> QED BY <1>3, <3>1, <3>2
  <2> QED BY <2>1
<1>15. Paced'
  <2>1. ASSUME NEW k \in Keys
        PROVE  /\ limiters'[k] = Null => sent'[k] = <<>>
               /\ \A i \in 1..Len(sent'[k]) :
                     /\ sent'[k][i] <= clock'
                     /\ sent'[k][i] + (Len(sent'[k]) - i + 1) <= tats'[limiters'[k]]
    <3>1. CASE k = q
      <4>1. limiters'[q] = l /\ limiters'[q] # Null /\ Len(sent'[q]) = n + 1
        BY <1>1, <1>2, <1>4, <1>7
      <4>2. \A i \in 1..Len(sent'[q]) :
               /\ sent'[q][i] <= clock'
               /\ sent'[q][i] + (Len(sent'[q]) - i + 1) <= tats'[limiters'[q]]
        BY <1>1, <1>14, <4>1
      <4> QED BY <3>1, <4>1, <4>2
    <3>2. CASE k # q /\ limiters[k] = Null
      <4>1. sent'[k] = <<>>
        BY <1>7, <3>2 DEF PoliteInv, Paced
      <4> QED BY <4>1
    <3>3. CASE k # q /\ limiters[k] # Null
      <4>1. limiters[k] # l /\ limiters[k] \in 1..Len(tats)
        BY <1>2, <3>3 DEF PoliteInv, OwnLimiter
      <4>2. sent'[k] = sent[k] /\ tats'[limiters'[k]] = tats[limiters[k]]
        BY <1>1, <1>6, <1>7, <3>3, <4>1
      <4> QED BY <1>1, <3>3, <4>2 DEF PoliteInv, Paced
    <3> QED BY <3>1, <3>2, <3>3
  <2> QED BY <2>1 DEF Paced
<1>16. KeyQuota'
  <2>1. ASSUME NEW i \in 1..(n + 1), NEW j \in 1..(n + 1), i <= j
        PROVE  j - i + 1 <= Quota + (sent'[q][j] - sent'[q][i])
    <3>1. CASE j \in 1..n
      <4>1. j - i + 1 <= Quota + (sent[q][j] - sent[q][i])
        BY <1>3, <2>1, <3>1 DEF PoliteInv, KeyQuota, Conforms
      <4> QED BY <1>7, <2>1, <3>1, <4>1
    <3>2. CASE j = n + 1 /\ i \in 1..n
      <4>1. sent[q][i] \in Nat /\ sent[q][i] + (n - i + 1) <= tats[l]
        BY <1>13, <3>2
      <4>2. sent'[q][j] = clock /\ sent'[q][i] = sent[q][i]
        BY <1>7, <3>2
      <4>3. tats[l] <= clock + Quota - 1 /\ Quota \in Nat
        BY <1>5, PolitenessConstants
      <4>4. i \in Int /\ n \in Int /\ tats[l] \in Int /\ clock \in Int
        BY <1>4
      <4>5. n + 1 - i + 1 <= Quota + (clock - sent[q][i])
        <5>1. \A a, b, c, m, x, y \in Int :
                 a + (m - x + 1) <= b /\ b <= c + y - 1 =>
                    m + 1 - x + 1 <= y + (c - a)
          OBVIOUS
        <5>2. sent[q][i] \in Int /\ Quota \in Int
          BY <4>1, <4>3
        <5> QED BY <4>1, <4>3, <4>4, <5>1, <5>2
      <4> QED BY <3>2, <4>2, <4>5
    <3>3. CASE i = n + 1 /\ j = n + 1
      BY <1>4, <1>7, <3>3, PolitenessConstants
    <3> QED BY <2>1, <3>1, <3>2, <3>3
  <2>2. Conforms(sent[q])'
    BY <1>7, <2>1 DEF Conforms
  <2>3. \A k \in Keys : k # q => Conforms(sent[k])'
    BY <1>7 DEF PoliteInv, KeyQuota, Conforms
  <2> QED BY <2>2, <2>3 DEF KeyQuota
<1>17. Asked'
  BY <1>1, <1>9, <1>10, AskedKept
<1> QED BY <1>11, <1>12, <1>15, <1>16, <1>17 DEF PoliteInv

\* The notices, their consumer and the clock touch neither limiters nor documents.
LEMMA OthersKeep ==
    ASSUME PoliteInv, UNCHANGED <<entries, gets, limiters, tats, sent, fetch>>,
           clock' \in Nat, clock' >= clock
    PROVE  PoliteInv'
<1>1. PoliteTypes'
  BY DEF PoliteInv, PoliteTypes
<1>2. OwnLimiter' /\ Paced' /\ KeyQuota'
  BY LimitersKept
<1>3. Asked'
  BY AskedKept
<1> QED BY <1>1, <1>2, <1>3 DEF PoliteInv

LEMMA PoliteInit ==
    ASSUME Init
    PROVE  PoliteInv
<1>1. fetch = [f \in Fetchers |-> Idle]
  BY DEF Init
<1>2. PoliteTypes
  <2>1. /\ entries \in [Keys -> Limits \cup {Null}] /\ gets \in [Keys -> Nat]
        /\ limiters \in [Keys -> Nat \cup {Null}] /\ clock \in Nat
    BY DEF Init
  <2>2. tats \in Seq(Nat) /\ sent \in [Keys -> Seq(Nat)]
    BY DEF Init
  <2>3. fetch \in [Fetchers -> FetchType] /\ \A f \in Fetchers : Sound(fetch[f])
    BY <1>1, IdleSound DEF Sound
  <2> QED BY <2>1, <2>2, <2>3 DEF PoliteTypes
<1>3. OwnLimiter
  BY <1>1, IdleSound DEF Init, OwnLimiter
<1>4. \A k \in Keys : sent[k] = <<>> /\ Len(sent[k]) = 0
  BY DEF Init
<1>5. Paced /\ KeyQuota
  BY <1>4 DEF Paced, KeyQuota, Conforms
<1>6. \A k : Asking(k) = {}
  BY <1>1, IdleSound DEF Asking
<1>7. Asked
  BY <1>6, FS_EmptySet DEF Init, Asked
<1> QED BY <1>2, <1>3, <1>5, <1>7 DEF PoliteInv

LEMMA PoliteStep ==
    ASSUME PoliteInv, [Next]_vars
    PROVE  PoliteInv'
<1>1. ASSUME NEW f \in Fetchers, Advance(f) PROVE PoliteInv'
  BY <1>1, BeginKeeps, LookupKeeps, FetchedKeeps, AcquireKeeps, UntilReadyKeeps,
     WindowKeeps, Zenon DEF Advance
<1>2. clock \in Nat
  BY DEF PoliteInv, PoliteTypes
<1>3. ASSUME NEW k \in Noisy, Notice(k) PROVE PoliteInv'
  BY <1>2, <1>3, OthersKeep DEF Notice
<1>4. CASE ConsumerStops
  BY <1>2, <1>4, OthersKeep DEF ConsumerStops
<1>5. CASE Tick
  BY <1>2, <1>5, OthersKeep DEF Tick
<1>6. CASE UNCHANGED vars
  BY <1>2, <1>6, OthersKeep DEF vars
<1> QED BY <1>1, <1>3, <1>4, <1>5, <1>6 DEF Next, TimeUp

-----------------------------------------------------------------------------
(* What holds of every behaviour *)

\* The invariant holds in every reachable state.
THEOREM PoliteInvariant == Spec => []PoliteInv
<1>1. Init => PoliteInv
  BY PoliteInit
<1>2. PoliteInv /\ [Next]_vars => PoliteInv'
  BY PoliteStep
<1> QED BY <1>1, <1>2, PTL DEF Spec

\* CR-05: any number of concurrent fetches of one key keep to one limiter's quota,
\* because RateLimiterRegistry never mints a second limiter for it.
THEOREM KeysKeepTheirQuota == Spec => []KeyQuota
<1>1. PoliteInv => KeyQuota
  BY DEF PoliteInv
<1> QED BY <1>1, PoliteInvariant, PTL

\* LimitCache: an answered document, even the default that stands for a bad one, is
\* never asked for again by a fetch that looks afterwards.
THEOREM DocumentsAreAskedOnce == Spec => []DocumentAskedOnce
<1>1. PoliteInv => DocumentAskedOnce
  <2> SUFFICES ASSUME PoliteInv, NEW k \in Keys
               PROVE  gets[k] <= Cardinality(Fetchers)
    BY DEF DocumentAskedOnce
  <2> QED BY AskingFinite DEF PoliteInv, Asked
<1> QED BY <1>1, PoliteInvariant, PTL

\* Whatever relays advertise, every window asks for at least one event and for no
\* more than MAX_ADVERTISED_LIMIT.
THEOREM CapsAreUsable == Spec => []CapUsable
<1>1. PoliteInv => CapUsable
  BY FetchFacts DEF CapUsable, Limits
<1> QED BY <1>1, PoliteInvariant, PTL

-----------------------------------------------------------------------------
(* The backoff *)

\* A set of numbers that has 0, and each number below N whose predecessor it has, has
\* them all: otherwise the least one that it lacks has a predecessor that it lacks.
LEMMA BitByBit ==
    ASSUME NEW N \in Nat, NEW S, 0 \in S, \A n \in 1..N : n - 1 \in S => n \in S
    PROVE  \A n \in 0..N : n \in S
<1> DEFINE T == (0..N) \ S
           R == {ss \in Nat \X Nat : ss[1] < ss[2]}
<1> SUFFICES ASSUME T # {} PROVE FALSE
  OBVIOUS
<1>1. IsWellFoundedOn(R, Nat)
  BY NatLessThanWellFounded DEF OpToRel
<1>2. R = {ss \in Nat \X Nat : ss[1] < ss[2]} /\ T \subseteq Nat
  OBVIOUS
<1> HIDE DEF R
<1>3. PICK x \in T : \A y \in T : <<y, x>> \notin R
  BY <1>1, <1>2, WFMin
<1>4. x \in 1..N /\ x - 1 \in 0..N
  BY <1>3
<1>5. <<x - 1, x>> \in R
  BY <1>2, <1>4
<1>6. x - 1 \in S
  BY <1>3, <1>4, <1>5
<1> QED BY <1>3, <1>4, <1>6

\* One bit of a shift.
Doubled(x) == IF 2 * x < Wide THEN 2 * x ELSE 2 * x - Wide

IsShift(h, m) == h = [n \in 0..m |-> IF n = 0 THEN Base ELSE Doubled(h[n - 1])]

\* A word can be shifted by any number of bits.
LEMMA ShiftsExist == \A m \in 0..(Bits - 1) : \E h : IsShift(h, m)
<1> DEFINE S == {m \in Nat : \E h : IsShift(h, m)}
<1>1. 0 \in S
  <2>1. IsShift([n \in 0..0 |-> Base], 0)
    BY DEF IsShift
  <2> QED BY <2>1
<1>2. ASSUME NEW m \in 1..(Bits - 1), m - 1 \in S PROVE m \in S
  <2>0. m \in Nat /\ m - 1 \in Nat
    BY SaturatesInTime
  <2>1. PICK h : IsShift(h, m - 1)
    BY <1>2
  <2> DEFINE g == [n \in 0..m |-> IF n < m THEN h[n] ELSE Doubled(h[m - 1])]
  <2>2. ASSUME NEW n \in 0..m
        PROVE  g[n] = IF n = 0 THEN Base ELSE Doubled(g[n - 1])
    <3>1. CASE n < m
      <4>1. n \in 0..(m - 1) /\ (n # 0 => n - 1 \in 0..m /\ n - 1 < m)
        BY <2>0, <3>1
      <4>2. g[n] = h[n] /\ (n # 0 => g[n - 1] = h[n - 1])
        BY <3>1, <4>1
      <4>3. h[n] = IF n = 0 THEN Base ELSE Doubled(h[n - 1])
        BY <2>1, <4>1 DEF IsShift
      <4> QED BY <4>2, <4>3
    <3>2. CASE n = m
      <4>1. n # 0 /\ n - 1 \in 0..m /\ n - 1 < m
        BY <2>0, <3>2
      <4> QED BY <2>0, <3>2, <4>1
    <3> QED BY <2>0, <3>1, <3>2
  <2>3. IsShift(g, m)
    <3>1. g = [n \in 0..m |-> g[n]]
      OBVIOUS
    <3> HIDE DEF g
    <3> QED BY <2>2, <3>1 DEF IsShift
  <2> QED BY <2>0, <2>3
<1>3. \A m \in S : \E h : IsShift(h, m)
  OBVIOUS
<1> HIDE DEF S
<1>4. Bits - 1 \in Nat
  BY SaturatesInTime
<1> QED BY <1>1, <1>2, <1>3, <1>4, BitByBit

\* Hence shl is what its definition says.
LEMMA ShiftsAre ==
    /\ shl[0] = Base
    /\ \A n \in 1..(Bits - 1) : shl[n] = Doubled(shl[n - 1])
<1>1. shl = CHOOSE h : IsShift(h, Bits - 1)
  BY DEF shl, IsShift, Doubled
<1>2. Bits - 1 \in 0..(Bits - 1)
  BY SaturatesInTime
<1>3. IsShift(shl, Bits - 1)
  BY <1>1, <1>2, ShiftsExist
<1> HIDE DEF shl
<1>4. 0 \in 0..(Bits - 1) /\ \A n \in 1..(Bits - 1) : n \in 0..(Bits - 1) /\ n # 0
  BY SaturatesInTime
<1> QED BY <1>3, <1>4 DEF IsShift

\* Until the delay saturates, every bit makes it longer.
LEMMA ShiftsGrow ==
    /\ \A n \in 0..(SaturateAt - 1) : shl[n] \in Nat
    /\ \A n \in 1..(SaturateAt - 1) : shl[n - 1] <= shl[n]
<1> HIDE DEF shl
<1>0. SaturateAt \in Nat /\ SaturateAt <= Bits /\ Bits \in Nat /\ Base \in Nat
  BY PolitenessConstants, SaturatesInTime
<1>1. \A n \in 1..(SaturateAt - 1) : shl[n] = 2 * shl[n - 1]
  BY <1>0, ShiftsAre, SaturatesInTime DEF Doubled
<1>2. CASE SaturateAt = 0
  BY <1>0, <1>2
<1>3. CASE SaturateAt # 0
  <2> DEFINE S == {n \in Nat : shl[n] \in Nat}
  <2>1. 0 \in S
    BY <1>0, ShiftsAre
  <2>2. \A n \in 1..(SaturateAt - 1) : n - 1 \in S => n \in S
    BY <1>0, <1>1
  <2>3. SaturateAt - 1 \in Nat
    BY <1>0, <1>3
  <2>4. \A n \in S : shl[n] \in Nat
    OBVIOUS
  <2> HIDE DEF S
  <2>5. \A n \in 0..(SaturateAt - 1) : n \in S
    BY <2>1, <2>2, <2>3, BitByBit
  <2>6. \A n \in 0..(SaturateAt - 1) : shl[n] \in Nat
    BY <2>4, <2>5
  <2>7. ASSUME NEW n \in 1..(SaturateAt - 1) PROVE shl[n - 1] <= shl[n]
    <3>1. n - 1 \in 0..(SaturateAt - 1)
      BY <2>3
    <3> QED BY <1>1, <2>6, <3>1
  <2> QED BY <2>6, <2>7
<1> QED BY <1>2, <1>3

\* One more notice never shortens the delay.
LEMMA DelayGrows ==
    ASSUME NEW n \in Nat
    PROVE  backoff_delay_unjittered(n + 1) >= backoff_delay_unjittered(n)
<1> HIDE DEF shl
<1>0. SaturateAt \in Nat /\ SaturateAt <= Bits /\ Bits \in Nat /\ Cap \in Nat
  BY PolitenessConstants, SaturatesInTime
<1>1. CASE n + 1 < SaturateAt
  <2>1. /\ n \in 0..(SaturateAt - 1) /\ n + 1 \in 0..(SaturateAt - 1)
        /\ n + 1 \in 1..(SaturateAt - 1) /\ (n + 1) - 1 = n
    BY <1>0, <1>1
  <2>2. shl[n] \in Nat /\ shl[n + 1] \in Nat /\ shl[n] <= shl[n + 1]
    BY <2>1, ShiftsGrow
  <2> QED BY <1>0, <1>1, <2>2 DEF backoff_delay_unjittered, checked_shl
<1>2. CASE ~(n + 1 < SaturateAt)
  <2>1. backoff_delay_unjittered(n + 1) = Cap
    BY <1>0, <1>2 DEF backoff_delay_unjittered
  <2>2. n < SaturateAt => checked_shl(n) \in Nat
    <3>1. n < SaturateAt => n \in 0..(SaturateAt - 1) /\ n < Bits
      BY <1>0
    <3> QED BY <3>1, ShiftsGrow DEF checked_shl
  <2>3. backoff_delay_unjittered(n) <= Cap
    BY <1>0, <2>2 DEF backoff_delay_unjittered
  <2> QED BY <2>1, <2>3
<1> QED BY <1>1, <1>2

\* The counts are numbers.
CountsTyped == failures \in [Keys -> Nat]

\* What a step of a fetch does to the counts: nothing, or the reset of the relay that
\* a fan-out has fetched completely.
LEMMA FetchesReset ==
    ASSUME PoliteInv, CountsTyped, NEW f \in Fetchers, Advance(f)
    PROVE  \/ UNCHANGED failures
           \/ /\ failures' = [failures EXCEPT ![fetch[f].key] = 0]
              /\ fetch[f].kind = "union" /\ fetch[f].pc = "window"
              /\ fetch'[f].pc = "idle"
<1>1. CASE Complete(f)
  <2>1. fetch' = [fetch EXCEPT ![f] = Idle]
    BY <1>1 DEF Complete
  <2>2. fetch'[f].pc = "idle"
    BY <2>1, FetchMoves, IdleSound DEF PoliteInv
  <2>3. CASE fetch[f].kind = "union"
    BY <1>1, <2>2, <2>3 DEF Complete, resets
  <2>4. CASE fetch[f].kind # "union"
    BY <1>1, <2>4 DEF Complete, resets, CountsTyped
  <2> QED BY <2>3, <2>4
<1>2. CASE ~Complete(f)
  BY <1>2 DEF Advance, Begin, Lookup, Fetched, Acquire, UntilReady, Page, FetchErr
<1> QED BY <1>1, <1>2

\* What any other step does: nothing, or one more notice.
LEMMA OthersCount ==
    ASSUME CountsTyped, [Next]_vars, ~(\E f \in Fetchers : Advance(f))
    PROVE  \/ UNCHANGED failures
           \/ \E k \in Keys :
                 failures' = [failures EXCEPT ![k] = IF @ < MaxU32 THEN @ + 1 ELSE @]
<1>1. Noisy \subseteq Keys
  BY PolitenessConstants DEF Keys
<1> QED BY <1>1 DEF Next, Notice, ConsumerStops, Tick, TimeUp, vars

LEMMA CountsInit == Init => CountsTyped
BY DEF Init, CountsTyped

LEMMA CountsStep == PoliteInv /\ CountsTyped /\ [Next]_vars => CountsTyped'
<1> SUFFICES ASSUME PoliteInv, CountsTyped, [Next]_vars PROVE CountsTyped'
  OBVIOUS
<1>1. CASE \E f \in Fetchers : Advance(f)
  BY <1>1, FetchesReset DEF CountsTyped
<1>2. CASE ~(\E f \in Fetchers : Advance(f))
  BY <1>2, OthersCount DEF CountsTyped
<1> QED BY <1>1, <1>2

\* What BackoffEscalates says of one key and one step.
Escalates(k) ==
    \/ failures'[k] = failures[k]
    \/ failures'[k] > 0 /\ (failures[k] > 0 => Delay(k)' >= Delay(k))
    \/ \E f \in Fetchers : /\ fetch[f].kind = "union" /\ fetch[f].key = k
                           /\ fetch[f].pc = "window" /\ fetch'[f].pc = "idle"

LEMMA EveryStepEscalates ==
    ASSUME PoliteInv, CountsTyped, [Next]_vars, NEW k \in Keys
    PROVE  Escalates(k)
<1>1. CASE \E f \in Fetchers : Advance(f)
  BY <1>1, FetchesReset DEF Escalates, CountsTyped
<1>2. CASE ~(\E f \in Fetchers : Advance(f))
  <2>1. failures'[k] = failures[k] \/ failures'[k] = failures[k] + 1
    BY <1>2, OthersCount DEF CountsTyped
  <2>2. CASE failures'[k] = failures[k] + 1
    <3>1. failures[k] \in Nat /\ failures'[k] > 0
      BY <2>2 DEF CountsTyped
    <3>2. CASE failures[k] > 0
      <4>1. failures[k] - 1 \in Nat /\ (failures[k] - 1) + 1 = failures'[k] - 1
        BY <2>2, <3>1, <3>2
      <4>2. backoff_delay_unjittered(failures'[k] - 1)
               >= backoff_delay_unjittered(failures[k] - 1)
        BY <4>1, DelayGrows
      <4>3. Delay(k) = backoff_delay_unjittered(failures[k] - 1)
        BY DEF Delay
      <4>4. Delay(k)' = backoff_delay_unjittered(failures'[k] - 1)
        BY DEF Delay, backoff_delay_unjittered, checked_shl
      <4> QED BY <3>1, <4>2, <4>3, <4>4 DEF Escalates
    <3> QED BY <3>1, <3>2 DEF Escalates
  <2> QED BY <2>1, <2>2 DEF Escalates
<1> QED BY <1>1, <1>2

\* WR-01: whatever the base, the cap and the width of the word, repeated notices never
\* shorten the delay, and only a complete fan-out fetch of that relay starts it over.
THEOREM BackoffNeverShrinks == Spec => BackoffEscalates
<1>1. PoliteInv /\ CountsTyped /\ [Next]_vars => [\A k \in Keys : Escalates(k)]_vars
  BY EveryStepEscalates
<1>2. Spec => []CountsTyped
  <2>1. Init => PoliteInv /\ CountsTyped
    BY PoliteInit, CountsInit
  <2>2. PoliteInv /\ CountsTyped /\ [Next]_vars => (PoliteInv /\ CountsTyped)'
    BY PoliteStep, CountsStep
  <2> QED BY <2>1, <2>2, PTL DEF Spec
<1>3. [\A k \in Keys : Escalates(k)]_vars
         => [\A k \in Keys :
               \/ failures'[k] = failures[k]
               \/ failures'[k] > 0 /\ (failures[k] > 0 => Delay(k)' >= Delay(k))
               \/ \E f \in Fetchers :
                     /\ fetch[f].kind = "union" /\ fetch[f].key = k
                     /\ fetch[f].pc = "window" /\ fetch'[f].pc = "idle"]_vars
  BY DEF Escalates
<1> QED BY <1>1, <1>2, <1>3, PoliteInvariant, PTL DEF Spec, BackoffEscalates
=============================================================================
