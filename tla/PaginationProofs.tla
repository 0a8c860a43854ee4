--------------------------- MODULE PaginationProofs ---------------------------
(****************************************************************************)
(* The pagination of one relay loses nothing, for any events, any chunking  *)
(* of the authors, any window cap and page budget, as long as the relay     *)
(* serves its newest matching events and no fewer than the cap.  What bounds *)
(* the windows and the memory of a chunk holds of any pool.                 *)
(****************************************************************************)
EXTENDS Pagination, FiniteSetTheorems, FunctionTheorems, WellFoundedInduction, TLAPS

\* The inductive invariant.
Inv == TypeOK /\ PagedDownToUntil

\* Every non-empty set of naturals has a least element.
LEMMA LeastNatural ==
    ASSUME NEW T \in SUBSET Nat, T # {}
    PROVE  \E t \in T : \A u \in T : t <= u
<1> DEFINE R == OpToRel(<, Nat)
<1>1. PICK t \in T : \A u \in T : ~(<<u, t>> \in R)
  BY NatLessThanWellFounded, WFMin, Zenon
<1>2. \A u \in T : ~(u < t)
  BY <1>1 DEF OpToRel
<1> QED
  BY <1>2

\* The oldest second of a window is that of one of its events and of no later one.
LEMMA OldestOfWindow ==
    ASSUME NEW W \in SUBSET Events, W # {}
    PROVE  /\ Oldest(W) \in Nat
           /\ \E x \in W : x.at = Oldest(W)
           /\ \A e \in W : Oldest(W) <= e.at
<1> DEFINE T == {e.at : e \in W}
<1>1. T \in SUBSET Nat /\ T # {}
  BY PagingConstants
<1>2. PICK t \in T : \A u \in T : t <= u
  BY <1>1, LeastNatural, Zenon
<1>3. \A e \in W : t <= e.at
  BY <1>2
<1>4. /\ Oldest(W) \in T
      /\ \A e \in W : Oldest(W) <= e.at
  BY <1>3 DEF Oldest
<1> QED
  BY <1>1, <1>4

\* The cap is a positive natural number.
LEMMA CapPositive == cap \in Nat /\ cap >= 1
BY PagingConstants DEF cap

\* The pool has one relay.
OneRelay == \A r, q \in Pool : r = q

\* No relay of the pool cuts its answers below the cap that is asked of it.
CapServed == \A r \in Pool : cap <= Limit[r]

\* How a window of an honest pool is made up.
LEMMA MergedWindow ==
    ASSUME ~hostile, NEW W \in Windows, TypeOK
    PROVE  \E A \in [Pool -> SUBSET Events] :
               /\ \A r \in Pool : A[r] \in Answers(r)
               /\ W = UNION {A[r] : r \in Pool}
<1>1. PICK A \in [Pool -> UNION {Answers(r) : r \in Pool}] :
          /\ \A r \in Pool : A[r] \in Answers(r)
          /\ W = UNION {A[r] : r \in Pool}
  BY DEF Windows, HonestWindows
<1>2. \A r \in Pool : A[r] \in SUBSET Events
  BY <1>1 DEF Answers, Newest, MatchingAt, TypeOK
<1>3. A \in [Pool -> SUBSET Events]
  BY <1>2
<1> QED
  BY <1>1, <1>3

\* A window of any pool is a finite set of events, and a full one is not empty.
LEMMA AnyWindow ==
    ASSUME TypeOK, NEW W \in Windows
    PROVE  /\ W \in SUBSET Events /\ IsFiniteSet(W)
           /\ Cardinality(W) \in Nat
           /\ Cardinality(W) >= cap => W # {}
<1>1. W \in SUBSET Events
  <2>1. CASE hostile
    BY <2>1 DEF Windows, HostileWindows
  <2>2. CASE ~hostile
    BY <2>2, MergedWindow
  <2> QED
    BY <2>1, <2>2
<1>2. IsFiniteSet(W) /\ Cardinality(W) \in Nat
  BY <1>1, FS_Subset, FS_CardinalityType, PagingConstants
<1>3. W = {} => Cardinality(W) = 0
  BY FS_EmptySet
<1> QED
  BY <1>1, <1>2, <1>3, CapPositive

\* What one relay answers: its newest matching events, all of them if the window
\* is not full.
LEMMA HonestWindow ==
    ASSUME ~hostile, OneRelay, CapServed, NEW W \in Windows, TypeOK
    PROVE  /\ W \subseteq Matching
           /\ \A e \in W : e.at <= until
           /\ \A e \in W, f \in Matching \ W : f.at <= e.at
           /\ ~(Cardinality(W) >= cap) => W = Matching
<1>1. PICK A \in [Pool -> SUBSET Events] :
          /\ \A r \in Pool : A[r] \in Answers(r)
          /\ W = UNION {A[r] : r \in Pool}
  BY MergedWindow
<1>2. PICK r \in Pool : TRUE
  BY PagingConstants
<1>3. W = A[r] /\ Matching = MatchingAt(r)
  BY <1>1, <1>2 DEF OneRelay, Matching
<1>4. RelayCap(r) = cap
  BY <1>2, CapPositive, PagingConstants DEF CapServed, RelayCap
<1>5. /\ W \subseteq Matching
      /\ W = Matching \/ Cardinality(W) = cap
      /\ \A e \in W, f \in Matching \ W : f.at <= e.at
  BY <1>1, <1>2, <1>3, <1>4 DEF Answers, Newest
<1>6. \A e \in W : e.at <= until
  BY <1>5, <1>3 DEF MatchingAt
<1> QED
  BY <1>5, <1>6, CapPositive

\* The chunk is complete when a window ends it: short, or nothing new and no stall.
LEMMA ChunkComplete ==
    ASSUME ~hostile, OneRelay, CapServed, Inv, result = "running",
           chunk <= Len(Chunks), NEW W \in Windows,
           \/ W \subseteq out /\ ~Stalled(W)
           \/ page_back(Cardinality(W), cap, Oldest(W)) = Null
    PROVE  Requested(chunk) \subseteq out \cup W
<1> USE DEF Inv
<1>1. \A e \in Requested(chunk) : e \in out \/ e \in Matching
  BY DEF PagedDownToUntil, Requested, Matching, MatchingAt
<1>2. CASE ~(Cardinality(W) >= cap)
  BY <1>1, <1>2, HonestWindow
<1>3. CASE Cardinality(W) >= cap
  <2>1. W # {} /\ W \in SUBSET Events
    BY <1>3, AnyWindow
  <2>2. Oldest(W) \in Nat
    BY <2>1, OldestOfWindow
  <2>3. page_back(Cardinality(W), cap, Oldest(W)) = Oldest(W)
    BY <1>3 DEF page_back
  <2>4. W \subseteq out /\ Oldest(W) # until
    BY <1>3, <2>2, <2>3, PagingConstants DEF Stalled
  <2>5. PICK x \in W : x.at = Oldest(W)
    BY <2>1, OldestOfWindow
  <2>6. x.at <= until /\ until <= x.at
    BY <2>4, HonestWindow DEF PagedDownToUntil
  <2>7. until \in Nat
    BY DEF TypeOK
  <2> QED
    BY <2>2, <2>4, <2>5, <2>6, <2>7
<1> QED
  BY <1>2, <1>3

\* Init establishes the invariant.
LEMMA InitInv == Init => Inv
BY PagingConstants DEF Init, Inv, TypeOK, PagedDownToUntil, Requested, Reasons

\* The relay's own steps keep it: only a replaced event leaves the store.
LEMMA RelayInv ==
    ASSUME Inv, Tick \/ \E e \in Events : Publish(e)
    PROVE  Inv'
<1> USE PagingConstants DEF Inv, fetchVars
<1>1. CASE Tick
  BY <1>1 DEF Tick, TypeOK, PagedDownToUntil, Requested
<1>2. ASSUME NEW p \in Events, Publish(p)
      PROVE  Inv'
  <2>0. PICK R \in SUBSET Pool : stored' = [r \in Pool |->
            IF r \in R /\ Outdated(r, p)
            THEN {f \in stored[r] : f.author # p.author} \cup {p}
            ELSE stored[r]]
    BY <1>2 DEF Publish
  <2>1. TypeOK'
    BY <1>2, <2>0 DEF Publish, TypeOK
  <2>2. \A r \in Pool : Outdated(r, p) => p \notin first[r]
    BY DEF Outdated, TypeOK, PagedDownToUntil
  <2>3. \A r \in Pool : stored'[r] \cap first'[r] \subseteq stored[r] \cap first[r]
    BY <1>2, <2>0, <2>2 DEF Publish
  <2>4. (\A r \in Pool : \A e \in first[r] \ stored[r] :
            \E f \in stored[r] : f.author = e.author /\ f.at > e.at)'
    <3>1. SUFFICES ASSUME NEW r \in Pool, NEW e \in first[r], e \notin stored'[r]
                   PROVE  \E f \in stored'[r] : f.author = e.author /\ f.at > e.at
      BY <1>2 DEF Publish
    <3>2. CASE r \in R /\ Outdated(r, p)
      <4>1. p \in stored'[r]
            /\ \A f \in stored[r] : f.author # p.author => f \in stored'[r]
        BY <2>0, <3>2
      <4>2. CASE e.author = p.author
        <5>1. e \in Events /\ stored[r] \subseteq Events
          BY <3>1 DEF TypeOK
        <5>2. \A f \in stored[r] : f.author = e.author => f.at < p.at
          BY <3>2, <4>2 DEF Outdated
        <5>3. e \in stored[r] \/ \E f \in stored[r] : f.author = e.author /\ f.at > e.at
          BY <3>1 DEF PagedDownToUntil
        <5>4. e.at < p.at
          BY <5>1, <5>2, <5>3
        <5> QED
          BY <4>1, <4>2, <5>1, <5>4
      <4>3. CASE e.author # p.author
        BY <3>1, <4>1, <4>3 DEF PagedDownToUntil
      <4> QED
        BY <4>2, <4>3
    <3>3. CASE ~(r \in R /\ Outdated(r, p))
      BY <2>0, <3>1, <3>3 DEF PagedDownToUntil
    <3> QED
      BY <3>2, <3>3
  <2>5. (~hostile => \A c \in 1..(chunk - 1) : Requested(c) \subseteq all)'
    BY <1>2, <2>3 DEF Publish, PagedDownToUntil, Requested
  <2>6. (~hostile /\ chunk <= Len(Chunks) =>
            \A e \in Requested(chunk) : e \in out \/ e.at <= until)'
    BY <1>2, <2>3 DEF Publish, PagedDownToUntil, Requested
  <2> QED
    BY <1>2, <2>1, <2>4, <2>5, <2>6 DEF Publish, PagedDownToUntil
<1> QED
  BY <1>1, <1>2

\* Returning an Err leaves everything fetched so far as it is.
LEMMA FailInv ==
    ASSUME Inv, result = "running", NEW reason \in Reasons, Fail(reason),
           UNCHANGED relayVars
    PROVE  Inv'
BY DEF Fail, Inv, TypeOK, PagedDownToUntil, Requested, relayVars, Reasons

\* A complete chunk goes into the union and the next one starts at the present.
LEMMA ChunkDoneInv ==
    ASSUME Inv, result = "running", UNCHANGED relayVars,
           NEW got \in SUBSET Events, ~hostile => Requested(chunk) \subseteq got,
           ChunkDone(got)
    PROVE  Inv'
<1> USE PagingConstants DEF Inv, ChunkDone, relayVars
<1>1. /\ chunk \in 1..Len(Chunks) /\ Len(Chunks) \in Nat
      /\ chunk' = chunk + 1
  BY DEF TypeOK, PagedDownToUntil
<1>2. TypeOK'
  BY <1>1 DEF TypeOK
<1>3. \A c \in 1..Len(Chunks) : Requested(c)' = Requested(c)
  BY DEF Requested
<1>4. ~hostile => \A c \in 1..(chunk' - 1) : Requested(c)' \subseteq all'
  BY <1>1, <1>3 DEF PagedDownToUntil
<1>5. chunk' <= Len(Chunks) => \A e \in Requested(chunk') : e.at <= until'
  BY <1>2 DEF PagedDownToUntil, Requested, TypeOK
<1> QED
  BY <1>1, <1>2, <1>4, <1>5 DEF PagedDownToUntil, Requested

\* A full window with something new moves `until` to its oldest second.
LEMMA PageInv ==
    ASSUME OneRelay, CapServed, Inv, result = "running", UNCHANGED relayVars, ~OverBudget,
           NEW W \in Windows, ~(W \subseteq out),
           page_back(Cardinality(W), cap, Oldest(W)) # Null,
           until' = page_back(Cardinality(W), cap, Oldest(W)),
           prev_until' = until, pages' = pages + 1, out' = out \cup W,
           UNCHANGED <<began, chunk, all, result>>
    PROVE  Inv'
<1> USE PagingConstants DEF Inv, relayVars
<1>1. W # {} /\ W \in SUBSET Events /\ until' = Oldest(W)
  BY AnyWindow DEF page_back
<1>2. /\ until' \in Nat
      /\ \E x \in W : x.at = until'
      /\ \A e \in W : until' <= e.at
  BY <1>1, OldestOfWindow
<1>3. TypeOK'
  BY <1>1, <1>2 DEF TypeOK, OverBudget
<1>4. ~hostile => until' <= until
  BY <1>2, HonestWindow
<1>5. ~hostile => \A e \in out' : until' <= e.at
  BY <1>1, <1>2, <1>4 DEF PagedDownToUntil, TypeOK
<1>6. chunk \in Nat /\ Len(Chunks) \in Nat /\ chunk <= Len(Chunks)
  BY DEF TypeOK, PagedDownToUntil
<1>7. ASSUME ~hostile, NEW e \in Requested(chunk), e \notin out'
      PROVE  e.at <= until'
  <2>1. e \in Matching \ W
    BY <1>6, <1>7 DEF PagedDownToUntil, Requested, Matching, MatchingAt
  <2>2. \A f \in W : e.at <= f.at
    BY <1>7, <2>1, HonestWindow
  <2> QED
    BY <1>2, <2>2
<1>8. (~hostile => \A e \in Requested(chunk) : e \in out \/ e.at <= until)'
  BY <1>7 DEF Requested
<1>9. (~hostile => \A c \in 1..(chunk - 1) : Requested(c) \subseteq all)'
  BY DEF PagedDownToUntil, Requested
<1> QED
  BY <1>3, <1>5, <1>8, <1>9 DEF PagedDownToUntil

\* Every step keeps the invariant.
LEMMA NextInv ==
    ASSUME OneRelay, CapServed, Inv, [Next]_vars
    PROVE  Inv'
<1>1. CASE Round
  <2>0. result = "running" /\ UNCHANGED relayVars
    BY <1>1 DEF Round
  <2>1. chunk <= Len(Chunks) /\ out \in SUBSET Events
    BY <2>0 DEF Inv, TypeOK, PagedDownToUntil
  <2>2. CASE OverBudget /\ Fail("budget")
    BY <2>0, <2>2, FailInv DEF Reasons
  <2>3. ASSUME ~OverBudget, NEW W \in Windows, paginate_chunk(W)
        PROVE  Inv'
    <3>0. W \in SUBSET Events
      BY AnyWindow DEF Inv
    <3>1. CASE W \subseteq out /\ Stalled(W) /\ Fail("stall")
      BY <2>0, <3>1, FailInv DEF Reasons
    <3>2. CASE W \subseteq out /\ ~Stalled(W) /\ ChunkDone(out)
      <4>1. ~hostile => Requested(chunk) \subseteq out
        BY <2>0, <2>1, <3>2, ChunkComplete
      <4> QED
        BY <2>0, <2>1, <3>2, <4>1, ChunkDoneInv
    <3>3. CASE /\ page_back(Cardinality(W), cap, Oldest(W)) = Null
               /\ ChunkDone(out \cup W)
      <4>1. ~hostile => Requested(chunk) \subseteq out \cup W
        BY <2>0, <2>1, <3>3, ChunkComplete
      <4> QED
        BY <2>0, <2>1, <3>0, <3>3, <4>1, ChunkDoneInv
    <3> QED
      BY <2>0, <2>3, <3>1, <3>2, <3>3, PageInv DEF paginate_chunk
  <2> QED
    BY <1>1, <2>2, <2>3 DEF Round
<1>2. CASE fetch_window_with_deadline
  BY <1>2, FailInv DEF fetch_window_with_deadline, Reasons
<1>3. CASE Tick \/ \E e \in Events : Publish(e)
  BY <1>3, RelayInv
<1>4. CASE UNCHANGED vars
  BY <1>4 DEF vars, Inv, TypeOK, PagedDownToUntil, Requested
<1> QED
  BY <1>1, <1>2, <1>3, <1>4 DEF Next, Returned

\* RELAY-03 for a pool of one relay that serves its newest events up to the cap:
\* an Ok of fetch_complete_with_timeout has every event the relay stored all along.
\* Neither hypothesis can be dropped: the run PagingMerged refutes the statement
\* for two relays, and a relay that returns fewer than the cap looks exhausted.
THEOREM NothingTruncated ==
    ASSUME OneRelay, CapServed
    PROVE  Spec => []StoredThroughoutIsFetched
<1>1. Inv => StoredThroughoutIsFetched
  BY PagingConstants DEF Inv, TypeOK, PagedDownToUntil, StoredThroughoutIsFetched
<1> QED
  BY <1>1, InitInv, NextInv, PTL DEF Spec

\* What RELAY-03 rests on, for the same relay.
THEOREM PagesDownToUntil ==
    ASSUME OneRelay, CapServed
    PROVE  Spec => []PagedDownToUntil
<1>1. Inv => PagedDownToUntil
  BY DEF Inv
<1> QED
  BY <1>1, InitInv, NextInv, PTL DEF Spec

-----------------------------------------------------------------------------
(* What the fetch may rely on whatever the pool answers *)

\* A chunk is left only when it is complete, every page of a chunk brings at least
\* one new event and at most a window of them, and the budget is spent before it is
\* reported.
BudgetInv ==
    /\ TypeOK
    /\ result = "ok" <=> chunk = Len(Chunks) + 1
    /\ pages <= Cardinality(out) /\ Cardinality(out) <= pages * WindowBound
    /\ result = "budget" => pages >= MaxPages

\* The bound on a window is a natural number.
LEMMA WindowBoundType == WindowBound \in Nat
<1>1. Cardinality(Pool) \in Nat
  BY FS_CardinalityType, PagingConstants
<1>2. Cardinality(Pool) * cap \in Nat
  BY <1>1, CapPositive
<1> QED
  BY <1>2, PagingConstants DEF WindowBound

\* The relays of an honest pool answer with at most `cap` events each, so a merged
\* window has at most N * cap: number the events of each answer.
LEMMA MergedWindowBounded ==
    ASSUME ~hostile, TypeOK, NEW W \in Windows
    PROVE  Cardinality(W) <= Cardinality(Pool) * cap
<1>1. PICK A \in [Pool -> SUBSET Events] :
          /\ \A r \in Pool : A[r] \in Answers(r)
          /\ W = UNION {A[r] : r \in Pool}
  BY MergedWindow
<1>2. ASSUME NEW r \in Pool
      PROVE  Injection(A[r], 1..cap) # {}
  <2>1. Cardinality(A[r]) <= cap
    <3>1. Cardinality(A[r]) <= RelayCap(r)
      BY <1>1 DEF Answers, Newest
    <3>2. RelayCap(r) \in Nat /\ RelayCap(r) <= cap
      BY CapPositive, PagingConstants DEF RelayCap
    <3>3. IsFiniteSet(A[r])
      BY FS_Subset, PagingConstants
    <3>4. Cardinality(A[r]) \in Nat
      BY <3>3, FS_CardinalityType
    <3> QED
      BY <3>1, <3>2, <3>4, CapPositive
  <2>2. IsFiniteSet(A[r])
    BY FS_Subset, PagingConstants
  <2>3. ExistsBijection(1..Cardinality(A[r]), A[r]) /\ Cardinality(A[r]) \in Nat
    BY <2>2, FS_CardinalityType
  <2>4. ExistsBijection(A[r], 1..Cardinality(A[r]))
    BY <2>3, Fun_ExistsBijSymmetric
  <2>5. PICK g : g \in Bijection(A[r], 1..Cardinality(A[r]))
    BY <2>4 DEF ExistsBijection
  <2>6. 1..Cardinality(A[r]) \subseteq 1..cap
    BY <2>1, <2>3, CapPositive
  <2>7. g \in Injection(A[r], 1..cap)
    BY <2>5, <2>6 DEF Bijection, Injection
  <2> QED
    BY <2>7
<1> DEFINE g == [r \in Pool |-> CHOOSE h \in Injection(A[r], 1..cap) : TRUE]
           home == [e \in W |-> CHOOSE r \in Pool : e \in A[r]]
           number == [e \in W |-> <<home[e], g[home[e]][e]>>]
<1>3. \A r \in Pool : g[r] \in Injection(A[r], 1..cap)
  BY <1>2
<1>4. \A e \in W : home[e] \in Pool /\ e \in A[home[e]]
  BY <1>1
<1> HIDE DEF g, home
<1>5. /\ \A r \in Pool : g[r] \in [A[r] -> 1..cap]
      /\ \A r \in Pool : \A d, e \in A[r] : g[r][d] = g[r][e] => d = e
  BY <1>3 DEF Injection, IsInjective
<1>6. number \in [W -> Pool \X (1..cap)]
  <2>1. ASSUME NEW e \in W
        PROVE  <<home[e], g[home[e]][e]>> \in Pool \X (1..cap)
    <3>1. home[e] \in Pool /\ e \in A[home[e]]
      BY <1>4
    <3>2. g[home[e]][e] \in 1..cap
      BY <1>5, <3>1
    <3> QED
      BY <3>1, <3>2
  <2> QED
    BY <2>1, Zenon
<1>7. ASSUME NEW d \in W, NEW e \in W, number[d] = number[e]
      PROVE  d = e
  <2>1. home[d] = home[e] /\ g[home[d]][d] = g[home[e]][e]
    BY <1>7
  <2>2. home[d] \in Pool /\ d \in A[home[d]] /\ e \in A[home[d]]
    BY <1>4, <2>1
  <2> QED
    BY <1>5, <2>1, <2>2
<1> HIDE DEF number
<1>8. number \in Injection(W, Pool \X (1..cap))
  BY <1>6, <1>7, Zenon DEF Injection, IsInjective
<1>9. IsFiniteSet(1..cap) /\ Cardinality(1..cap) = cap
  BY FS_Interval, CapPositive
<1>10. /\ IsFiniteSet(Pool \X (1..cap))
       /\ Cardinality(Pool \X (1..cap)) = Cardinality(Pool) * Cardinality(1..cap)
  BY <1>9, FS_Product, PagingConstants
<1>11. Cardinality(W) <= Cardinality(Pool \X (1..cap))
  BY <1>8, <1>10, FS_Injection
<1> QED
  BY <1>9, <1>10, <1>11

\* A window of any pool respects the bound of its kind.
LEMMA WindowBounded ==
    ASSUME TypeOK, NEW W \in Windows
    PROVE  Cardinality(W) <= WindowBound
<1>1. CASE hostile
  BY <1>1 DEF Windows, HostileWindows, WindowBound
<1>2. CASE ~hostile
  BY <1>2, MergedWindowBounded DEF WindowBound
<1> QED
  BY <1>1, <1>2

\* A page with something new makes the chunk larger, by at most one window.
LEMMA PageGrows ==
    ASSUME NEW S \in SUBSET Events, NEW W \in SUBSET Events, ~(W \subseteq S)
    PROVE  /\ Cardinality(S) \in Nat /\ Cardinality(W) \in Nat
           /\ Cardinality(S \cup W) \in Nat
           /\ Cardinality(S \cup W) >= Cardinality(S) + 1
           /\ Cardinality(S \cup W) <= Cardinality(S) + Cardinality(W)
<1>1. IsFiniteSet(S) /\ IsFiniteSet(W) /\ IsFiniteSet(S \cup W)
  BY FS_Subset, FS_Union, PagingConstants
<1>2. /\ Cardinality(S) \in Nat /\ Cardinality(W) \in Nat
      /\ Cardinality(S \cup W) \in Nat
  BY <1>1, FS_CardinalityType
<1>3. Cardinality(S \cup W) <= Cardinality(S) + Cardinality(W)
  <2>1. IsFiniteSet(S \cap W)
    BY <1>1, FS_Subset
  <2>2. Cardinality(S \cap W) \in Nat
    BY <2>1, FS_CardinalityType
  <2>3. Cardinality(S \cup W) = Cardinality(S) + Cardinality(W) - Cardinality(S \cap W)
    BY <1>1, FS_Union, Zenon
  <2> QED
    BY <1>2, <2>2, <2>3
<1>4. Cardinality(S) <= Cardinality(S \cup W) /\ Cardinality(S) # Cardinality(S \cup W)
  <2>1. S \subseteq S \cup W /\ S # S \cup W
    OBVIOUS
  <2> QED
    BY <1>1, <2>1, FS_Subset
<1> QED
  BY <1>2, <1>3, <1>4

\* A chunk starts with no page and no event.
LEMMA ChunkStart == Cardinality({}) = 0 /\ 0 * WindowBound = 0
BY FS_EmptySet, WindowBoundType

LEMMA BudgetInit == Init => BudgetInv
<1> SUFFICES ASSUME Init PROVE BudgetInv
  OBVIOUS
<1>1. TypeOK /\ (result = "ok" <=> chunk = Len(Chunks) + 1) /\ result # "budget"
  BY PagingConstants DEF Init, TypeOK, Reasons
<1> QED
  BY <1>1, ChunkStart DEF Init, BudgetInv

\* The ways a round ends that are no page.
LEMMA BudgetFail ==
    ASSUME BudgetInv, result = "running", UNCHANGED relayVars,
           NEW reason \in Reasons, Fail(reason), reason = "budget" => OverBudget
    PROVE  BudgetInv'
BY DEF BudgetInv, Fail, OverBudget, TypeOK, Reasons, relayVars, WindowBound

LEMMA BudgetChunk ==
    ASSUME BudgetInv, result = "running", UNCHANGED relayVars,
           NEW got \in SUBSET Events, ChunkDone(got)
    PROVE  BudgetInv'
<1>1. /\ chunk \in 1..Len(Chunks) /\ Len(Chunks) \in Nat
      /\ chunk' = chunk + 1
  BY PagingConstants DEF BudgetInv, TypeOK, ChunkDone
<1>2. TypeOK'
  BY <1>1, PagingConstants DEF BudgetInv, TypeOK, ChunkDone, relayVars
<1>3. (result = "ok" <=> chunk = Len(Chunks) + 1)' /\ result' # "budget"
  BY <1>1 DEF ChunkDone
<1> QED
  BY <1>2, <1>3, ChunkStart DEF BudgetInv, ChunkDone, WindowBound, relayVars

LEMMA BudgetPage ==
    ASSUME BudgetInv, result = "running", UNCHANGED relayVars, ~OverBudget,
           NEW W \in Windows, ~(W \subseteq out),
           page_back(Cardinality(W), cap, Oldest(W)) # Null,
           until' = page_back(Cardinality(W), cap, Oldest(W)),
           prev_until' = until, pages' = pages + 1, out' = out \cup W,
           UNCHANGED <<began, chunk, all, result>>
    PROVE  BudgetInv'
<1>1. /\ W \in SUBSET Events /\ Cardinality(W) \in Nat
      /\ Cardinality(W) >= cap => W # {}
      /\ Cardinality(W) <= WindowBound /\ WindowBound' = WindowBound
  BY AnyWindow, WindowBounded DEF BudgetInv, WindowBound, relayVars
<1>2. until' \in Nat
  BY <1>1, OldestOfWindow DEF page_back
<1>3. out \in SUBSET Events /\ pages \in Nat /\ pages + 1 <= MaxPages
  BY PagingConstants DEF BudgetInv, TypeOK, OverBudget
<1>4. TypeOK'
  BY <1>1, <1>2, <1>3, PagingConstants DEF BudgetInv, TypeOK, relayVars
<1>5. /\ Cardinality(out) \in Nat /\ Cardinality(out') \in Nat
      /\ Cardinality(out') >= Cardinality(out) + 1
      /\ Cardinality(out') <= Cardinality(out) + Cardinality(W)
  BY <1>1, <1>3, PageGrows
<1>6. /\ (pages + 1) * WindowBound = pages * WindowBound + WindowBound
      /\ pages * WindowBound \in Nat
  BY <1>3, WindowBoundType
<1>7. pages' <= Cardinality(out') /\ Cardinality(out') <= pages' * WindowBound'
  BY <1>1, <1>3, <1>5, <1>6, WindowBoundType DEF BudgetInv
<1> QED
  BY <1>4, <1>7 DEF BudgetInv

LEMMA BudgetStep == BudgetInv /\ [Next]_vars => BudgetInv'
<1> SUFFICES ASSUME BudgetInv, [Next]_vars PROVE BudgetInv'
  OBVIOUS
<1>1. CASE Round
  <2>1. result = "running" /\ UNCHANGED relayVars
    BY <1>1 DEF Round
  <2>2. CASE OverBudget /\ Fail("budget")
    BY <2>1, <2>2, BudgetFail DEF Reasons
  <2>3. ASSUME ~OverBudget, NEW W \in Windows, paginate_chunk(W)
        PROVE  BudgetInv'
    <3>1. out \in SUBSET Events /\ out \cup W \in SUBSET Events
      BY AnyWindow DEF BudgetInv, TypeOK
    <3>2. CASE Fail("stall")
      BY <2>1, <3>2, BudgetFail DEF Reasons
    <3>3. CASE ChunkDone(out) \/ ChunkDone(out \cup W)
      BY <2>1, <3>1, <3>3, BudgetChunk
    <3> QED
      BY <2>1, <2>3, <3>2, <3>3, BudgetPage DEF paginate_chunk
  <2> QED
    BY <1>1, <2>2, <2>3 DEF Round
<1>2. CASE fetch_window_with_deadline
  BY <1>2, BudgetFail DEF fetch_window_with_deadline, Reasons
<1>3. CASE Tick
  BY <1>3 DEF Tick, BudgetInv, TypeOK, fetchVars, WindowBound
<1>4. ASSUME NEW p \in Events, Publish(p) PROVE BudgetInv'
  <2>1. stored' \in [Pool -> SUBSET Events]
    BY <1>4 DEF Publish, BudgetInv, TypeOK
  <2> QED
    BY <1>4, <2>1 DEF Publish, BudgetInv, TypeOK, fetchVars, WindowBound
<1>5. CASE UNCHANGED vars
  BY <1>5 DEF vars, BudgetInv, TypeOK, WindowBound
<1> QED
  BY <1>1, <1>2, <1>3, <1>4, <1>5 DEF Next, Returned

\* Types hold whatever the pool answers.
THEOREM PagingTypeCorrect == Spec => []TypeOK
<1>1. BudgetInv => TypeOK
  BY DEF BudgetInv
<1> QED
  BY <1>1, BudgetInit, BudgetStep, PTL DEF Spec

\* CR-04: MAX_PAGES_PER_CHUNK windows bound what one chunk may hold, whatever the
\* pool answers.
THEOREM ChunkMemoryIsBounded == Spec => []ChunkMemoryBounded
<1>1. BudgetInv => ChunkMemoryBounded
  BY PagingConstants DEF BudgetInv, TypeOK, ChunkMemoryBounded
<1> QED
  BY <1>1, BudgetInit, BudgetStep, PTL DEF Spec

\* CR-04: a chunk with fewer events than the budget has pages never runs into it,
\* whatever the pool answers.
THEOREM HonestPagingIsSpared == Spec => []BudgetSparesHonest
<1>1. BudgetInv => BudgetSparesHonest
  <2> SUFFICES ASSUME BudgetInv, result = "budget"
               PROVE  Cardinality(out) >= MaxPages
    BY DEF BudgetSparesHonest
  <2>1. out \in SUBSET Events /\ pages \in Nat
    BY DEF BudgetInv, TypeOK
  <2>2. IsFiniteSet(out)
    BY <2>1, FS_Subset, PagingConstants
  <2>3. Cardinality(out) \in Nat
    BY <2>2, FS_CardinalityType
  <2> QED
    BY <2>1, <2>3, PagingConstants DEF BudgetInv
<1> QED
  BY <1>1, BudgetInit, BudgetStep, PTL DEF Spec
=============================================================================
