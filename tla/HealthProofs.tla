----------------------------- MODULE HealthProofs -----------------------------
(****************************************************************************)
(* Slots, semaphores and probes of RelayHealth, for any batches, any lists  *)
(* of curated and write relays, any permits, smoothing factor, threshold    *)
(* and probe interval, whatever the clock and the notices.                  *)
(*                                                                          *)
(* The registry and the semaphores are shared without a lock that spans a   *)
(* fetch: the invariant relates them to where each batch stands.            *)
(****************************************************************************)
EXTENDS RelayHealth, FiniteSetTheorems, SequenceTheorems, TLAPS

\* Where a batch has turned to the relay at the head of its path.
AtRelay == {"mark", "gate", "acquire", "fetch", "record"}

\* What a batch is doing agrees with what it carries.
Sound(t) ==
    /\ t.pc \in AtRelay => t.path # <<>>
    /\ t.pc = "record" => t.sample # Null
    /\ t.kind = "fallback" => t.path \in Seq(WriteRelays)
    /\ t.kind # "fallback" => t.path \in Seq(CuratedSet)

OnPath == \A w \in Workers : Sound(worker[w])

\* Types, with in_use as a count of which no bound is known yet.
HealthTypes ==
    /\ scores \in [Relays -> 0..1000]
    /\ in_use \in [Relays -> Nat]
    /\ last_probe \in [Relays -> Nat \cup {Null}]
    /\ clock \in Nat
    /\ worker \in [Workers -> WorkerType]
    /\ {begun, notices} \subseteq Nat

\* The fetches in flight under the semaphore of either map.
InFallback(r) == {v \in InFlight(r) : worker[v].kind = "fallback"}
InCurated(r)  == {v \in InFlight(r) : worker[v].kind # "fallback"}

\* A semaphore never gives out more permits than it has.
SemaphoresHold ==
    \A r \in Relays : /\ Cardinality(InFallback(r)) <= PerRelay
                      /\ Cardinality(InCurated(r)) <= PerRelay

\* Whoever is under way in the fan-out has marked its attempt, and the mark stays
\* at least as late as its own.
ProbesMarked ==
    /\ \A r \in Relays : last_probe[r] # Null => last_probe[r] <= clock
    /\ \A w \in Workers : Routed(w) =>
          /\ worker[w].since # Null
          /\ last_probe[Head(worker[w].path)] # Null
          /\ worker[w].since <= last_probe[Head(worker[w].path)]

\* The inductive invariant.
HealthInv ==
    /\ HealthTypes /\ OnPath
    /\ SlotAccounting /\ SemaphoresHold
    /\ ProbesMarked /\ ProbeExclusive

-----------------------------------------------------------------------------
(* Sets of fetches in flight *)

\* There are finitely many batches, so finitely many fetches.
LEMMA FlightFinite ==
    ASSUME NEW S, S \subseteq Workers
    PROVE  /\ IsFiniteSet(S) /\ Cardinality(S) \in Nat
           /\ Cardinality(S) <= Cardinality(Workers)
BY HealthConstants, FS_Subset, FS_CardinalityType

\* The permits that are out of the semaphore a batch waits for.
LEMMA HoldersOf ==
    ASSUME NEW w \in Workers
    PROVE  Holders(w) = IF worker[w].kind = "fallback"
                        THEN InFallback(Head(worker[w].path))
                        ELSE InCurated(Head(worker[w].path))
<1>1. ASSUME NEW v \in InFlight(Head(worker[w].path))
      PROVE  Sem(v) = Sem(w) <=> (worker[v].kind = "fallback" <=> worker[w].kind = "fallback")
  <2>1. Head(worker[v].path) = Head(worker[w].path)
    BY DEF InFlight
  <2>2. Sem(v) = Sem(w) <=>
           (worker[v].kind = "fallback") = (worker[w].kind = "fallback")
    BY <2>1 DEF Sem
  <2> QED BY <2>2, Zenon
<1> QED BY <1>1 DEF Holders, InFallback, InCurated

\* Both maps of semaphores are kept for relays of their own.
LEMMA FlightKinds ==
    ASSUME OnPath, NEW r
    PROVE  /\ InFlight(r) = InFallback(r) \cup InCurated(r)
           /\ InFallback(r) \cap InCurated(r) = {}
           /\ InFallback(r) # {} => r \in WriteRelays
           /\ InCurated(r) # {} => r \in CuratedSet
<1>1. ASSUME NEW v \in InFallback(r) PROVE r \in WriteRelays
  BY HeadTailProperties DEF OnPath, Sound, AtRelay, InFallback, InFlight
<1>2. ASSUME NEW v \in InCurated(r) PROVE r \in CuratedSet
  BY HeadTailProperties DEF OnPath, Sound, AtRelay, InCurated, InFlight
<1> QED BY <1>1, <1>2 DEF InFallback, InCurated

-----------------------------------------------------------------------------
(* Slots and permits *)

\* A batch that neither starts nor ends a fetch changes no set of fetches.
LEMMA SlotsKept ==
    ASSUME SlotAccounting, SemaphoresHold, in_use' = in_use, NEW w \in Workers,
           \A v \in Workers : v # w => worker'[v] = worker[v],
           worker[w].pc # "fetch", worker'[w].pc # "fetch"
    PROVE  SlotAccounting' /\ SemaphoresHold'
<1>1. \A r : InFlight(r)' = InFlight(r)
  BY DEF InFlight
<1>2. \A r : InFallback(r)' = InFallback(r) /\ InCurated(r)' = InCurated(r)
  BY <1>1 DEF InFallback, InCurated, InFlight
<1> QED BY <1>1, <1>2 DEF SlotAccounting, SemaphoresHold

\* The guard gives back exactly the slot of the fetch that ends.
LEMMA SlotsReturned ==
    ASSUME HealthTypes, OnPath, SlotAccounting, SemaphoresHold, NEW w \in Workers,
           \A v \in Workers : v # w => worker'[v] = worker[v],
           worker[w].pc = "fetch", worker'[w].pc # "fetch",
           decr_in_use(Head(worker[w].path))
    PROVE  SlotAccounting' /\ SemaphoresHold'
<1>0. PICK q : q = Head(worker[w].path)
  OBVIOUS
<1>1. /\ InFlight(q)' = InFlight(q) \ {w} /\ w \in InFlight(q)
      /\ \A r : r # q => InFlight(r)' = InFlight(r)
  BY <1>0 DEF InFlight
<1>2. \A r : /\ InFallback(r)' \subseteq InFallback(r)
             /\ InCurated(r)' \subseteq InCurated(r)
  BY DEF InFlight, InFallback, InCurated
<1>3. \A r : IsFiniteSet(InFlight(r)) /\ Cardinality(InFlight(r)) \in Nat
  BY FlightFinite DEF InFlight
<1>4. Cardinality(InFlight(q)') = Cardinality(InFlight(q)) - 1
  BY <1>1, <1>3, FS_RemoveElement
<1>5. Cardinality(InFlight(q)') \in Nat
  BY <1>1, FlightFinite DEF InFlight
<1>6. SlotAccounting'
  BY <1>0, <1>1, <1>3, <1>4, <1>5 DEF SlotAccounting, decr_in_use, HealthTypes
<1>7. SemaphoresHold'
  <2>1. ASSUME NEW r
        PROVE  /\ Cardinality(InFallback(r)') <= Cardinality(InFallback(r))
               /\ Cardinality(InCurated(r)') <= Cardinality(InCurated(r))
               /\ Cardinality(InFallback(r)) \in Nat /\ Cardinality(InFallback(r)') \in Nat
               /\ Cardinality(InCurated(r)) \in Nat /\ Cardinality(InCurated(r)') \in Nat
    <3>1. InFallback(r) \subseteq Workers /\ InCurated(r) \subseteq Workers
      BY DEF InFlight, InFallback, InCurated
    <3>2. IsFiniteSet(InFallback(r)) /\ IsFiniteSet(InCurated(r))
      BY <3>1, FlightFinite
    <3>3. IsFiniteSet(InFallback(r)') /\ IsFiniteSet(InCurated(r)')
      BY <1>2, <3>2, FS_Subset
    <3> QED BY <1>2, <3>2, <3>3, FS_Subset, FS_CardinalityType
  <2> QED BY <2>1, HealthConstants DEF SemaphoresHold
<1> QED BY <1>6, <1>7

\* A fetch starts with a permit in hand and is counted.
LEMMA SlotsTaken ==
    ASSUME HealthTypes, OnPath, SlotAccounting, SemaphoresHold, NEW w \in Workers,
           Acquire(w)
    PROVE  SlotAccounting' /\ SemaphoresHold'
<1>0. PICK q : q = Head(worker[w].path)
  OBVIOUS
<1>1. /\ \A v \in Workers : v # w => worker'[v] = worker[v]
      /\ worker[w].pc = "acquire" /\ worker'[w].pc = "fetch"
      /\ worker'[w].path = worker[w].path /\ worker'[w].kind = worker[w].kind
  BY DEF Acquire, HealthTypes, WorkerType
<1>2. /\ InFlight(q)' = InFlight(q) \cup {w} /\ w \notin InFlight(q)
      /\ \A r : r # q => InFlight(r)' = InFlight(r)
  BY <1>0, <1>1 DEF InFlight
<1>3. \A r : IsFiniteSet(InFlight(r)) /\ Cardinality(InFlight(r)) \in Nat
  BY FlightFinite DEF InFlight
<1>4. SlotAccounting'
  <2>1. Cardinality(InFlight(q)') = Cardinality(InFlight(q)) + 1
    BY <1>2, <1>3, FS_AddElement
  <2> QED BY <1>0, <1>2, <2>1 DEF SlotAccounting, Acquire, HealthTypes
<1>5. \A r : IsFiniteSet(InFallback(r)) /\ IsFiniteSet(InCurated(r))
  BY FlightFinite DEF InFlight, InFallback, InCurated
<1>6. Cardinality(Holders(w)) < PerRelay
  BY DEF Acquire, PermitFree
<1>7. CASE worker[w].kind = "fallback"
  <2>1. /\ InFallback(q)' = InFallback(q) \cup {w} /\ w \notin InFallback(q)
        /\ \A r : r # q => InFallback(r)' = InFallback(r)
        /\ \A r : InCurated(r)' = InCurated(r)
    BY <1>0, <1>1, <1>7 DEF InFlight, InFallback, InCurated
  <2>2. Cardinality(InFallback(q)) < PerRelay
    BY <1>0, <1>6, <1>7, HoldersOf
  <2>3. Cardinality(InFallback(q)') = Cardinality(InFallback(q)) + 1
    BY <1>5, <2>1, FS_AddElement
  <2>4. Cardinality(InFallback(q)') <= PerRelay
    BY <1>5, <2>2, <2>3, FS_CardinalityType, HealthConstants
  <2> QED BY <1>4, <2>1, <2>4 DEF SemaphoresHold
<1>8. CASE worker[w].kind # "fallback"
  <2>1. /\ InCurated(q)' = InCurated(q) \cup {w} /\ w \notin InCurated(q)
        /\ \A r : r # q => InCurated(r)' = InCurated(r)
        /\ \A r : InFallback(r)' = InFallback(r)
    BY <1>0, <1>1, <1>8 DEF InFlight, InFallback, InCurated
  <2>2. Cardinality(InCurated(q)) < PerRelay
    BY <1>0, <1>6, <1>8, HoldersOf
  <2>3. Cardinality(InCurated(q)') = Cardinality(InCurated(q)) + 1
    BY <1>5, <2>1, FS_AddElement
  <2>4. Cardinality(InCurated(q)') <= PerRelay
    BY <1>5, <2>2, <2>3, FS_CardinalityType, HealthConstants
  <2> QED BY <1>4, <2>1, <2>4 DEF SemaphoresHold
<1> QED BY <1>7, <1>8

-----------------------------------------------------------------------------
(* Types and paths *)

\* A score stays a score under an EWMA step of any smoothing factor.
LEMMA UpdateType ==
    ASSUME NEW prev \in 0..1000, NEW sample \in 0..1000
    PROVE  update(prev, sample) \in 0..1000
<1>1. /\ Alpha * sample \in Int /\ (10 - Alpha) * prev \in Int
      /\ 0 <= Alpha * sample + (10 - Alpha) * prev
      /\ Alpha * sample + (10 - Alpha) * prev <= 10000
  <2>1. Alpha \in {1, 2, 3, 4, 5, 6, 7, 8, 9, 10}
    BY HealthConstants
  <2> QED BY <2>1
<1> DEFINE n == Alpha * sample + (10 - Alpha) * prev
<1>2. n \in Int /\ 0 <= n /\ n <= 10000
  BY <1>1
<1> HIDE DEF n
<1>3. n \div 10 \in 0..1000
  BY <1>2
<1> QED BY <1>3 DEF update, n

\* A relay's turn is over: the rest of the path is one of the same relays.
LEMMA TailSound ==
    ASSUME NEW t \in WorkerType, Sound(t), t.path # <<>>
    PROVE  /\ Tail(t.path) \in Seq(Relays)
           /\ t.kind = "fallback" => Tail(t.path) \in Seq(WriteRelays)
           /\ t.kind # "fallback" => Tail(t.path) \in Seq(CuratedSet)
<1>1. Tail(t.path) \in Seq(Relays)
  <2>1. t.path \in Seq(Relays)
    BY DEF WorkerType
  <2> QED BY <2>1, HeadTailProperties
<1>2. t.path \in Seq(WriteRelays) => Tail(t.path) \in Seq(WriteRelays)
  BY HeadTailProperties
<1>3. t.path \in Seq(CuratedSet) => Tail(t.path) \in Seq(CuratedSet)
  BY HeadTailProperties
<1> QED BY <1>1, <1>2, <1>3, Zenon DEF Sound

\* What Skip and Visited leave is well typed and not at a relay.
LEMMA VisitedType ==
    ASSUME NEW t \in WorkerType, Sound(t), t.path # <<>>, NEW ok \in BOOLEAN
    PROVE  /\ Visited(t, ok) \in WorkerType /\ Sound(Visited(t, ok))
           /\ Visited(t, ok).pc \in {"visit", "returned"}
           /\ Skip(t) \in WorkerType /\ Sound(Skip(t)) /\ Skip(t).pc = "visit"
<1> USE TailSound
<1>1. Skip(t) \in WorkerType /\ Sound(Skip(t)) /\ Skip(t).pc = "visit"
  BY DEF Skip, WorkerType, Sound, AtRelay, Busy
<1>2. Contacted \in SUBSET Relays
  BY DEF Contacted, Relays
<1>3. CASE ok
  BY <1>1, <1>2, <1>3 DEF Visited, WorkerType, Sound, AtRelay, Busy
<1>4. CASE ~ok
  BY <1>1, <1>4 DEF Visited, WorkerType, Sound, AtRelay, Busy
<1> QED BY <1>1, <1>3, <1>4

\* A job on a list of relays of its kind.
LEMMA JobType ==
    ASSUME NEW kind \in Kinds, NEW missed \in 0..BatchSize, NEW path,
           kind = "fallback" => path \in Seq(WriteRelays),
           kind # "fallback" => path \in Seq(CuratedSet)
    PROVE  /\ Job(kind, missed, path) \in WorkerType
           /\ Sound(Job(kind, missed, path))
           /\ Job(kind, missed, path).pc = "visit"
<1>1. path \in Seq(Relays)
  BY SeqMonotonic DEF Relays
<1> QED BY <1>1 DEF Job, Idle, WorkerType, Sound, AtRelay, Busy, Kinds

\* The rest state of a worker.
LEMMA IdleType == Idle \in WorkerType /\ Sound(Idle) /\ Idle.pc = "idle"
<1>1. <<>> \in Seq(Relays) /\ <<>> \in Seq(CuratedSet) /\ <<>> \in Seq(WriteRelays)
  OBVIOUS
<1> QED BY <1>1, HealthConstants DEF Idle, WorkerType, Sound, AtRelay, Kinds

\* fallback_recover asks write relays only.
LEMMA RankedPaths ==
    ASSUME NEW S \in SUBSET WriteRelays, NEW path \in Ranked(S)
    PROVE  path \in Seq(WriteRelays)
<1> DEFINE n == Cardinality(S)
           m == IF n < MaxWriteRelays THEN n ELSE MaxWriteRelays
<1>1. n \in Nat /\ m \in Nat /\ m <= n
  BY HealthConstants, FS_Subset, FS_CardinalityType
<1>2. PICK s \in [1..n -> S] : path = SubSeq(s, 1, m)
  BY DEF Ranked
<1> HIDE DEF n, m
<1>3. \A i \in 1..m : s[i] \in WriteRelays
  BY <1>1, <1>2
<1> QED BY <1>1, <1>2, <1>3, SubSeqProperties

-----------------------------------------------------------------------------
(* Probes *)

\* A batch that is not routed anew, or keeps its mark, disturbs no probe.
LEMMA ProbesKept ==
    ASSUME HealthTypes, ProbesMarked, ProbeExclusive, last_probe' = last_probe,
           clock' \in Nat, clock' >= clock, NEW w \in Workers,
           \A v \in Workers : v # w => worker'[v] = worker[v],
           Routed(w)' => /\ Routed(w)
                         /\ worker'[w].path = worker[w].path
                         /\ worker'[w].since = worker[w].since
                         /\ worker'[w].healthy <=> worker[w].healthy
    PROVE  ProbesMarked' /\ ProbeExclusive'
<1>1. ASSUME NEW v \in Workers, Routed(v)'
      PROVE  /\ Routed(v)
             /\ worker'[v].path = worker[v].path
             /\ worker'[v].since = worker[v].since
             /\ worker'[v].healthy <=> worker[v].healthy
  BY <1>1 DEF Routed
<1>2. \A r \in Relays : last_probe'[r] # Null => last_probe'[r] <= clock'
  BY HealthConstants DEF HealthTypes, ProbesMarked
<1>3. ProbesMarked'
  BY <1>1, <1>2 DEF ProbesMarked
<1>4. ProbeExclusive'
  BY <1>1 DEF ProbeExclusive
<1> QED BY <1>3, <1>4

\* A probe is claimed only an interval after every mark that is still under way.
LEMMA ProbesClaimed ==
    ASSUME HealthTypes, OnPath, ProbesMarked, ProbeExclusive,
           NEW w \in Workers, MarkAttempt(w)
    PROVE  ProbesMarked' /\ ProbeExclusive'
<1>0. PICK q : q = Head(worker[w].path)
  OBVIOUS
<1>1. /\ worker[w].path # <<>> /\ worker[w] \in WorkerType
      /\ worker[w].path \in Seq(Relays) /\ clock' = clock
      /\ worker \in [Workers -> WorkerType] /\ worker[w].pc = "mark"
  BY DEF MarkAttempt, OnPath, Sound, AtRelay, HealthTypes, WorkerType
<1>2. q \in Relays
  BY <1>0, <1>1, HeadTailProperties
<1>3. CASE ~(worker[w].healthy \/ probe_due(last_probe[q], clock))
  <2>1. last_probe' = last_probe
    <3>1. last_probe' = [last_probe EXCEPT ![q] = last_probe[q]]
      BY <1>0, <1>3 DEF MarkAttempt, try_mark_attempt
    <3>2. last_probe \in [Relays -> Nat \cup {Null}]
      BY DEF HealthTypes
    <3> QED BY <1>2, <3>1, <3>2
  <2>2. worker' = [worker EXCEPT ![w] = Skip(worker[w])]
    BY <1>0, <1>3 DEF MarkAttempt, try_mark_attempt
  <2>3. worker'[w].pc = "visit" /\ \A v \in Workers : v # w => worker'[v] = worker[v]
    BY <1>1, <2>2, VisitedType DEF OnPath
  <2>4. ~Routed(w)'
    BY <2>3 DEF Routed
  <2>5. clock' \in Nat /\ clock' >= clock
    BY <1>1 DEF HealthTypes
  <2>6. \A v \in Workers : v # w => worker'[v] = worker[v]
    BY <2>3
  <2> QED BY <2>1, <2>4, <2>5, <2>6, ProbesKept, Zenon
<1>4. CASE worker[w].healthy \/ probe_due(last_probe[q], clock)
  <2>1. last_probe' = [last_probe EXCEPT ![q] = clock]
    BY <1>0, <1>4 DEF MarkAttempt, try_mark_attempt
  <2>2. worker' = [worker EXCEPT ![w] = [@ EXCEPT !.pc = "gate", !.since = clock]]
    BY <1>0, <1>4 DEF MarkAttempt, try_mark_attempt
  <2>3. /\ worker'[w].since = clock /\ worker'[w].path = worker[w].path
        /\ \A v \in Workers : v # w => worker'[v] = worker[v]
    BY <1>1, <2>2 DEF WorkerType
  <2>4. worker'[w].healthy <=> worker[w].healthy
    BY <1>1, <2>2 DEF WorkerType
  <2>5. ASSUME NEW v \in Workers, v # w, Routed(v)'
        PROVE  /\ Routed(v) /\ worker'[v] = worker[v]
               /\ worker[v].since \in Nat
               /\ Head(worker[v].path) \in Relays
               /\ last_probe[Head(worker[v].path)] \in Nat
               /\ worker[v].since <= last_probe[Head(worker[v].path)]
               /\ last_probe[Head(worker[v].path)] <= clock
    <3>1. Routed(v) /\ worker'[v] = worker[v]
      BY <2>3, <2>5 DEF Routed
    <3>2. worker[v].path # <<>> /\ worker[v].path \in Seq(Relays)
      BY <3>1 DEF Routed, OnPath, Sound, AtRelay, HealthTypes, WorkerType
    <3>3. Head(worker[v].path) \in Relays
      BY <3>2, HeadTailProperties
    <3>4. worker[v].since \in Nat \cup {Null}
      BY DEF HealthTypes, WorkerType
    <3>5. last_probe[Head(worker[v].path)] \in Nat \cup {Null}
      BY <3>3 DEF HealthTypes
    <3>6. /\ worker[v].since # Null /\ last_probe[Head(worker[v].path)] # Null
          /\ worker[v].since <= last_probe[Head(worker[v].path)]
          /\ last_probe[Head(worker[v].path)] <= clock
      BY <3>1, <3>3 DEF ProbesMarked
    <3> QED BY <3>1, <3>3, <3>4, <3>5, <3>6
  <2>6. ProbesMarked'
    <3>1. \A r \in Relays : last_probe'[r] # Null => last_probe'[r] <= clock'
      BY <1>1, <2>1 DEF ProbesMarked, HealthTypes
    <3>2. clock # Null /\ clock \in Nat
      BY HealthConstants DEF HealthTypes
    <3>3. \A v \in Workers : Routed(v)' =>
             /\ worker'[v].since # Null
             /\ last_probe'[Head(worker'[v].path)] # Null
             /\ worker'[v].since <= last_probe'[Head(worker'[v].path)]
      <4>1. ASSUME NEW v \in Workers, v # w, Routed(v)'
            PROVE  /\ worker'[v].since # Null
                   /\ last_probe'[Head(worker'[v].path)] # Null
                   /\ worker'[v].since <= last_probe'[Head(worker'[v].path)]
        <5>1. /\ worker'[v] = worker[v] /\ worker[v].since \in Nat
              /\ last_probe[Head(worker[v].path)] \in Nat
              /\ worker[v].since <= last_probe[Head(worker[v].path)]
              /\ last_probe[Head(worker[v].path)] <= clock
              /\ Head(worker[v].path) \in Relays
          BY <2>5, <4>1
        <5>2. last_probe'[Head(worker[v].path)]
                 \in {clock, last_probe[Head(worker[v].path)]}
          BY <2>1, <5>1 DEF HealthTypes
        <5> QED BY <3>2, <5>1, <5>2, HealthConstants
      <4>2. /\ worker'[w].since # Null
            /\ last_probe'[Head(worker'[w].path)] # Null
            /\ worker'[w].since <= last_probe'[Head(worker'[w].path)]
        <5>1. Head(worker'[w].path) = q /\ worker'[w].since = clock
          BY <1>0, <2>3
        <5>2. last_probe'[q] = clock
          BY <1>2, <2>1 DEF HealthTypes
        <5> QED BY <3>2, <5>1, <5>2
      <4> QED BY <4>1, <4>2
    <3> QED BY <3>1, <3>3 DEF ProbesMarked
  <2>7. ASSUME NEW v \in Workers, v # w, Routed(v)',
               Head(worker'[v].path) = q, ~worker[w].healthy
        PROVE  worker'[w].since - worker'[v].since >= ProbeInterval
    <3>1. probe_due(last_probe[q], clock)
      BY <1>4, <2>7
    <3>2. last_probe[q] \in Nat /\ clock - last_probe[q] >= ProbeInterval
      BY <2>5, <2>7, <3>1, HealthConstants DEF probe_due
    <3> QED BY <2>3, <2>5, <2>7, <3>2, HealthConstants DEF HealthTypes
  <2>8. ProbeExclusive'
    <3> SUFFICES ASSUME NEW u \in Workers, NEW v \in Workers, u # v,
                        Routed(u)', Routed(v)',
                        Head(worker'[u].path) = Head(worker'[v].path),
                        ~worker'[u].healthy, ~worker'[v].healthy
                 PROVE  \/ worker'[u].since - worker'[v].since >= ProbeInterval
                        \/ worker'[v].since - worker'[u].since >= ProbeInterval
      BY DEF ProbeExclusive
    <3>1. CASE u = w
      BY <1>0, <2>3, <2>4, <2>7, <3>1
    <3>2. CASE v = w
      BY <1>0, <2>3, <2>4, <2>7, <3>2
    <3>3. CASE u # w /\ v # w
      BY <2>5, <3>3 DEF ProbeExclusive
    <3> QED BY <3>1, <3>2, <3>3
  <2> QED BY <2>6, <2>8
<1> QED BY <1>3, <1>4

-----------------------------------------------------------------------------
(* The steps *)

\* One batch moves, the others stay.
LEMMA TaskMoves ==
    ASSUME HealthTypes, OnPath, NEW w \in Workers, NEW t \in WorkerType, Sound(t),
           worker' = [worker EXCEPT ![w] = t]
    PROVE  /\ worker' \in [Workers -> WorkerType] /\ OnPath'
           /\ worker'[w] = t
           /\ \A v \in Workers : v # w => worker'[v] = worker[v]
<1>1. /\ worker' \in [Workers -> WorkerType] /\ worker'[w] = t
      /\ \A v \in Workers : v # w => worker'[v] = worker[v]
  BY DEF HealthTypes
<1>2. \A v \in Workers : Sound(worker'[v])
  BY <1>1 DEF OnPath
<1> QED BY <1>1, <1>2 DEF OnPath

\* Where a task stands in the fan-out.
RoutedTask(t) == t.kind = "union" /\ t.pc \in {"gate", "acquire", "fetch", "record"}

\* A move between fetches keeps the invariant, unless it claims a probe.
LEMMA MoveKeeps ==
    ASSUME HealthInv, NEW w \in Workers, NEW t \in WorkerType, Sound(t),
           worker' = [worker EXCEPT ![w] = t],
           worker[w].pc # "fetch", t.pc # "fetch",
           RoutedTask(t) => /\ Routed(w) /\ t.path = worker[w].path
                            /\ t.since = worker[w].since
                            /\ t.healthy <=> worker[w].healthy,
           scores' \in [Relays -> 0..1000], UNCHANGED <<in_use, last_probe, clock>>,
           begun' \in Nat, notices' \in Nat
    PROVE  HealthInv'
<1>1. /\ worker' \in [Workers -> WorkerType] /\ OnPath' /\ worker'[w] = t
      /\ \A v \in Workers : v # w => worker'[v] = worker[v]
  BY TaskMoves DEF HealthInv
<1>2. HealthTypes'
  BY <1>1 DEF HealthInv, HealthTypes
<1>3. SlotAccounting' /\ SemaphoresHold'
  BY <1>1, SlotsKept DEF HealthInv
<1>4. clock' \in Nat /\ clock' >= clock
  BY DEF HealthInv, HealthTypes
<1>5. Routed(w)' => RoutedTask(t)
  BY <1>1 DEF Routed, RoutedTask
<1>6. Routed(w)' => /\ Routed(w)
                    /\ worker'[w].path = worker[w].path
                    /\ worker'[w].since = worker[w].since
                    /\ worker'[w].healthy <=> worker[w].healthy
  BY <1>1, <1>5
<1>7. ProbesMarked' /\ ProbeExclusive'
  BY <1>1, <1>4, <1>6, ProbesKept DEF HealthInv
<1> QED BY <1>1, <1>2, <1>3, <1>7 DEF HealthInv

\* A fetch ends, with any outcome.
LEMMA EndKeeps ==
    ASSUME HealthInv, NEW w \in Workers, NEW t \in WorkerType, Sound(t),
           worker' = [worker EXCEPT ![w] = t],
           worker[w].pc = "fetch", t.pc # "fetch",
           decr_in_use(Head(worker[w].path)),
           RoutedTask(t) => /\ Routed(w) /\ t.path = worker[w].path
                            /\ t.since = worker[w].since
                            /\ t.healthy <=> worker[w].healthy,
           UNCHANGED <<scores, last_probe, clock, begun, notices>>
    PROVE  HealthInv'
<1>1. /\ worker' \in [Workers -> WorkerType] /\ OnPath' /\ worker'[w] = t
      /\ \A v \in Workers : v # w => worker'[v] = worker[v]
  BY TaskMoves DEF HealthInv
<1>2. in_use' \in [Relays -> Nat]
  <2>0. PICK q : q = Head(worker[w].path)
    OBVIOUS
  <2>1. in_use \in [Relays -> Nat]
    BY DEF HealthInv, HealthTypes
  <2>2. \A n \in Nat : (IF n > 0 THEN n - 1 ELSE 0) \in Nat
    OBVIOUS
  <2>3. in_use' = [in_use EXCEPT ![q] = IF in_use[q] > 0 THEN in_use[q] - 1 ELSE 0]
    BY <2>0 DEF decr_in_use
  <2> QED BY <2>1, <2>2, <2>3
<1>3. HealthTypes'
  BY <1>1, <1>2 DEF HealthInv, HealthTypes
<1>4. SlotAccounting' /\ SemaphoresHold'
  BY <1>1, SlotsReturned DEF HealthInv
<1>5. clock' \in Nat /\ clock' >= clock
  BY DEF HealthInv, HealthTypes
<1>6. Routed(w)' => RoutedTask(t)
  BY <1>1 DEF Routed, RoutedTask
<1>7. Routed(w)' => /\ Routed(w)
                    /\ worker'[w].path = worker[w].path
                    /\ worker'[w].since = worker[w].since
                    /\ worker'[w].healthy <=> worker[w].healthy
  BY <1>1, <1>6
<1>8. ProbesMarked' /\ ProbeExclusive'
  BY <1>1, <1>5, <1>7, ProbesKept DEF HealthInv
<1> QED BY <1>1, <1>3, <1>4, <1>8 DEF HealthInv

\* A task at a relay has that relay to visit.
LEMMA TaskFacts ==
    ASSUME HealthInv, NEW w \in Workers
    PROVE  /\ worker[w] \in WorkerType /\ Sound(worker[w])
           /\ worker[w].path # <<>> => Head(worker[w].path) \in Relays
<1>1. worker[w] \in WorkerType /\ Sound(worker[w]) /\ worker[w].path \in Seq(Relays)
  BY DEF HealthInv, HealthTypes, OnPath, WorkerType
<1> QED BY <1>1, HeadTailProperties

LEMMA BeginKeeps ==
    ASSUME HealthInv, NEW w \in Workers, Begin(w)
    PROVE  HealthInv'
<1> DEFINE t == Job("union", BatchSize, Curated)
<1>1. BatchSize \in 0..BatchSize /\ Curated \in Seq(CuratedSet)
  BY HealthConstants
<1>2. t \in WorkerType /\ Sound(t) /\ t.pc = "visit"
  BY <1>1, JobType DEF Kinds
<1>3. /\ worker' = [worker EXCEPT ![w] = t] /\ worker[w].pc # "fetch"
      /\ scores' \in [Relays -> 0..1000] /\ begun' \in Nat /\ notices' \in Nat
      /\ UNCHANGED <<in_use, last_probe, clock>>
  BY DEF Begin, HealthInv, HealthTypes
<1>4. t.pc # "fetch" /\ ~RoutedTask(t)
  BY <1>2 DEF RoutedTask
<1> HIDE DEF t
<1> QED BY <1>2, <1>3, <1>4, MoveKeeps

LEMMA ReadScoreKeeps ==
    ASSUME HealthInv, NEW w \in Workers, ReadScore(w)
    PROVE  HealthInv'
<1> DEFINE h == scores[Head(worker[w].path)] >= Threshold
           t == [worker[w] EXCEPT !.pc = "mark", !.healthy = h]
<1>1. h \in BOOLEAN
  OBVIOUS
<1>2. worker' = [worker EXCEPT ![w] = t] /\ worker[w].pc = "visit"
  BY DEF ReadScore
<1> HIDE DEF h
<1>3. t \in WorkerType /\ t.pc = "mark" /\ t.kind = worker[w].kind /\ t.path = worker[w].path
  BY <1>1, TaskFacts DEF WorkerType, Busy
<1>4. Sound(t) /\ ~RoutedTask(t)
  BY <1>3, TaskFacts DEF Sound, RoutedTask, AtRelay, ReadScore
<1>5. /\ scores' \in [Relays -> 0..1000] /\ begun' \in Nat /\ notices' \in Nat
      /\ UNCHANGED <<in_use, last_probe, clock>>
  BY DEF ReadScore, HealthInv, HealthTypes
<1> HIDE DEF t
<1> QED BY <1>2, <1>3, <1>4, <1>5, MoveKeeps

\* Approach, Admit and JobDone move the program counter only.
LEMMA StepKeeps ==
    ASSUME HealthInv, NEW w \in Workers, Approach(w) \/ Admit(w) \/ JobDone(w)
    PROVE  HealthInv'
<1>1. PICK pc \in {"gate", "acquire", "returned"} :
        /\ worker' = [worker EXCEPT ![w].pc = pc]
        /\ pc = "gate" => worker[w].kind # "union"
        /\ pc = "acquire" => worker[w].pc = "gate"
        /\ pc # "returned" => worker[w].path # <<>>
  <2>1. CASE Approach(w)
    BY <2>1 DEF Approach
  <2>2. CASE Admit(w)
    <3>1. worker[w].path # <<>>
      BY <2>2, TaskFacts DEF Admit, Sound, AtRelay
    <3> QED BY <2>2, <3>1 DEF Admit
  <2>3. CASE JobDone(w)
    BY <2>3 DEF JobDone
  <2> QED BY <2>1, <2>2, <2>3
<1>2. /\ scores' \in [Relays -> 0..1000] /\ begun' \in Nat /\ notices' \in Nat
      /\ UNCHANGED <<in_use, last_probe, clock>> /\ worker[w].pc # "fetch"
  <2>1. /\ UNCHANGED <<scores, in_use, last_probe, clock, begun, notices>>
        /\ worker[w].pc # "fetch"
    BY DEF Approach, Admit, JobDone
  <2> QED BY <2>1 DEF HealthInv, HealthTypes
<1> DEFINE t == [worker[w] EXCEPT !.pc = pc]
<1>3. /\ t \in WorkerType /\ t.pc = pc /\ t.kind = worker[w].kind
      /\ t.path = worker[w].path /\ t.since = worker[w].since
      /\ t.healthy <=> worker[w].healthy
  BY TaskFacts DEF WorkerType, Busy
<1>4. Sound(t) /\ t.pc # "fetch"
  BY <1>1, <1>3, TaskFacts DEF Sound, AtRelay
<1>5. RoutedTask(t) => Routed(w)
  BY <1>1, <1>3 DEF RoutedTask, Routed
<1>6. worker' = [worker EXCEPT ![w] = t]
  BY <1>1
<1> HIDE DEF t
<1> QED BY <1>2, <1>3, <1>4, <1>5, <1>6, MoveKeeps

LEMMA EndBatchKeeps ==
    ASSUME HealthInv, NEW w \in Workers, EndBatch(w)
    PROVE  HealthInv'
<1>1. /\ worker' = [worker EXCEPT ![w] = Idle] /\ worker[w].pc # "fetch"
      /\ scores' \in [Relays -> 0..1000] /\ begun' \in Nat /\ notices' \in Nat
      /\ UNCHANGED <<in_use, last_probe, clock>>
  BY DEF EndBatch, HealthInv, HealthTypes
<1>2. Idle \in WorkerType /\ Sound(Idle) /\ Idle.pc # "fetch" /\ ~RoutedTask(Idle)
  BY IdleType DEF RoutedTask
<1> QED BY <1>1, <1>2, MoveKeeps

LEMMA FallbackKeeps ==
    ASSUME HealthInv, NEW w \in Workers, Fallback(w)
    PROVE  HealthInv'
<1>0. worker[w].missed \in 0..BatchSize /\ BatchSize \in Nat
  BY TaskFacts, HealthConstants DEF WorkerType
<1>1. PICK kind, missed, path :
        /\ kind \in {"relay_list", "fallback"} /\ missed \in 0..BatchSize
        /\ worker' = [worker EXCEPT ![w] = Job(kind, missed, path)]
        /\ kind = "fallback" => path \in Seq(WriteRelays)
        /\ kind # "fallback" => path \in Seq(CuratedSet)
  <2>1. CASE /\ NextMissed(worker[w])
             /\ worker' = [worker EXCEPT ![w] = Job("relay_list", @.missed - 1, Curated)]
    <3>1. worker[w].missed - 1 \in 0..BatchSize
      BY <1>0, <2>1 DEF NextMissed
    <3>2. worker' = [worker EXCEPT ![w] = Job("relay_list", worker[w].missed - 1, Curated)]
      BY <2>1
    <3>3. Curated \in Seq(CuratedSet)
      BY HealthConstants
    <3> QED BY <3>1, <3>2, <3>3, Zenon
  <2>2. ASSUME NEW S \in (SUBSET WriteRelays) \ {{}}, NEW path \in Ranked(S),
               NextMissed(worker[w]),
               worker' = [worker EXCEPT ![w] = Job("fallback", @.missed - 1, path)]
        PROVE  \E kind, missed, p :
                 /\ kind \in {"relay_list", "fallback"} /\ missed \in 0..BatchSize
                 /\ worker' = [worker EXCEPT ![w] = Job(kind, missed, p)]
                 /\ kind = "fallback" => p \in Seq(WriteRelays)
                 /\ kind # "fallback" => p \in Seq(CuratedSet)
    <3>1. worker[w].missed - 1 \in 0..BatchSize
      BY <1>0, <2>2 DEF NextMissed
    <3>2. path \in Seq(WriteRelays)
      BY RankedPaths
    <3> QED BY <2>2, <3>1, <3>2
  <2>3. ASSUME NEW S \in (SUBSET WriteRelays) \ {{}}, NEW path \in Ranked(S),
               worker' = [worker EXCEPT ![w] = Job("fallback", @.missed, path)]
        PROVE  \E kind, missed, p :
                 /\ kind \in {"relay_list", "fallback"} /\ missed \in 0..BatchSize
                 /\ worker' = [worker EXCEPT ![w] = Job(kind, missed, p)]
                 /\ kind = "fallback" => p \in Seq(WriteRelays)
                 /\ kind # "fallback" => p \in Seq(CuratedSet)
    <3>1. path \in Seq(WriteRelays)
      BY RankedPaths
    <3> QED BY <1>0, <2>3, <3>1
  <2> QED BY <2>1, <2>2, <2>3 DEF Fallback
<1> DEFINE t == Job(kind, missed, path)
<1>2. t \in WorkerType /\ Sound(t) /\ t.pc = "visit"
  BY <1>1, JobType DEF Kinds
<1>3. /\ worker[w].pc # "fetch"
      /\ scores' \in [Relays -> 0..1000] /\ begun' \in Nat /\ notices' \in Nat
      /\ UNCHANGED <<in_use, last_probe, clock>>
  BY DEF Fallback, HealthInv, HealthTypes
<1>4. t.pc # "fetch" /\ ~RoutedTask(t)
  BY <1>2 DEF RoutedTask
<1>5. worker' = [worker EXCEPT ![w] = t]
  BY <1>1
<1> HIDE DEF t
<1> QED BY <1>2, <1>3, <1>4, <1>5, MoveKeeps

\* What the fan-out records is a sample, and the score stays a score.
LEMMA ScoresUpdated ==
    ASSUME HealthInv, NEW r \in Relays, NEW sample \in 0..1000,
           scores' = [scores EXCEPT ![r] = update(@, sample)]
    PROVE  scores' \in [Relays -> 0..1000]
<1>1. scores \in [Relays -> 0..1000]
  BY DEF HealthInv, HealthTypes
<1>2. update(scores[r], sample) \in 0..1000
  <2>1. scores[r] \in 0..1000
    BY <1>1
  <2> QED BY <2>1, UpdateType, ZenonT(60)
<1> QED BY <1>1, <1>2

LEMMA RecordHealthKeeps ==
    ASSUME HealthInv, NEW w \in Workers, RecordHealth(w)
    PROVE  HealthInv'
<1>1. /\ worker[w] \in WorkerType /\ Sound(worker[w]) /\ worker[w].pc = "record"
      /\ worker[w].path # <<>> /\ worker[w].sample # Null
      /\ Head(worker[w].path) \in Relays
  BY TaskFacts DEF RecordHealth, Sound, AtRelay
<1>2. worker[w].sample \in 0..1000
  <2>1. worker[w].sample \in Samples
    BY <1>1 DEF WorkerType
  <2>2. Samples \subseteq 0..1000
    BY HealthConstants DEF Samples
  <2> QED BY <2>1, <2>2
<1>3. scores' \in [Relays -> 0..1000]
  <2>0. PICK q \in Relays, s \in 0..1000 :
           q = Head(worker[w].path) /\ s = worker[w].sample
    BY <1>1, <1>2
  <2>1. scores' = [scores EXCEPT ![q] = update(@, s)]
    BY <2>0 DEF RecordHealth
  <2> QED BY <2>1, ScoresUpdated
<1> DEFINE t == Visited(worker[w], worker[w].ok)
<1>4. worker[w].ok \in BOOLEAN
  BY <1>1 DEF WorkerType
<1>5. t \in WorkerType /\ Sound(t) /\ t.pc \in {"visit", "returned"}
  BY <1>1, <1>4, VisitedType
<1>6. /\ worker' = [worker EXCEPT ![w] = t]
      /\ begun' \in Nat /\ notices' \in Nat
      /\ UNCHANGED <<in_use, last_probe, clock>>
  BY DEF RecordHealth, HealthInv, HealthTypes
<1>7. t.pc # "fetch" /\ ~RoutedTask(t) /\ worker[w].pc # "fetch"
  BY <1>1, <1>5 DEF RoutedTask
<1> HIDE DEF t
<1> QED BY <1>3, <1>5, <1>6, <1>7, MoveKeeps

\* A failed or a successful fetch leaves the guard and the permit behind.
LEMMA FetchEnds ==
    ASSUME HealthInv, NEW w \in Workers, worker[w].pc = "fetch",
           NEW s \in Samples, NEW ok \in BOOLEAN
    PROVE  LET t == [worker[w] EXCEPT !.pc = "record", !.sample = s, !.ok = ok]
           IN  /\ t \in WorkerType /\ Sound(t) /\ t.pc = "record"
               /\ t.kind = worker[w].kind /\ t.path = worker[w].path
               /\ t.since = worker[w].since
               /\ t.healthy <=> worker[w].healthy
<1> DEFINE t == [worker[w] EXCEPT !.pc = "record", !.sample = s, !.ok = ok]
<1>1. /\ worker[w] \in WorkerType /\ Sound(worker[w]) /\ worker[w].path # <<>>
  BY TaskFacts DEF Sound, AtRelay
<1>2. s # Null
  <2>1. Samples \subseteq 0..1000
    BY HealthConstants DEF Samples
  <2>2. s \in Nat /\ Null \notin Nat
    BY <2>1, HealthConstants
  <2> QED BY <2>2
<1>3. /\ t \in WorkerType /\ t.pc = "record" /\ t.sample = s
      /\ t.kind = worker[w].kind /\ t.path = worker[w].path
      /\ t.since = worker[w].since
      /\ t.healthy <=> worker[w].healthy
  BY <1>1 DEF WorkerType, Busy
<1>4. Sound(t)
  BY <1>1, <1>2, <1>3 DEF Sound
<1> QED BY <1>3, <1>4

LEMMA FetchOkKeeps ==
    ASSUME HealthInv, NEW w \in Workers, FetchOk(w)
    PROVE  HealthInv'
<1>1. /\ worker[w].pc = "fetch" /\ decr_in_use(Head(worker[w].path))
      /\ UNCHANGED <<scores, last_probe, clock, begun, notices>>
  BY DEF FetchOk
<1>2. /\ worker[w] \in WorkerType /\ Sound(worker[w]) /\ worker[w].path # <<>>
      /\ worker[w].ok \in BOOLEAN
  BY <1>1, TaskFacts DEF Sound, AtRelay, WorkerType
<1>3. CASE worker[w].kind = "union"
  <2>1. PICK s \in SuccessSamples :
           worker' = [worker EXCEPT ![w].pc = "record", ![w].sample = s]
    BY <1>3 DEF FetchOk
  <2> DEFINE t == [worker[w] EXCEPT !.pc = "record", !.sample = s, !.ok = worker[w].ok]
  <2>2. worker' = [worker EXCEPT ![w] = t]
    <3>1. worker' = [worker EXCEPT ![w] =
                        [worker[w] EXCEPT !.pc = "record", !.sample = s]]
      BY <2>1
    <3>2. t = [worker[w] EXCEPT !.pc = "record", !.sample = s]
      BY <1>2 DEF WorkerType
    <3> QED BY <3>1, <3>2
  <2>3. s \in Samples
    BY DEF Samples
  <2>4. /\ t \in WorkerType /\ Sound(t) /\ t.pc = "record"
        /\ t.kind = worker[w].kind /\ t.path = worker[w].path
        /\ t.since = worker[w].since
        /\ t.healthy <=> worker[w].healthy
    BY <1>1, <1>2, <2>3, FetchEnds
  <2>5. Routed(w) /\ t.pc # "fetch"
    BY <1>1, <1>3, <2>4 DEF Routed
  <2> HIDE DEF t
  <2> QED BY <1>1, <2>2, <2>4, <2>5, EndKeeps
<1>4. CASE worker[w].kind # "union"
  <2> DEFINE t == Visited(worker[w], TRUE)
  <2>1. worker' = [worker EXCEPT ![w] = t]
    BY <1>4 DEF FetchOk
  <2>2. t \in WorkerType /\ Sound(t) /\ t.pc \in {"visit", "returned"}
    BY <1>2, VisitedType
  <2>3. t.pc # "fetch" /\ ~RoutedTask(t)
    BY <2>2 DEF RoutedTask
  <2> HIDE DEF t
  <2> QED BY <1>1, <2>1, <2>2, <2>3, EndKeeps
<1> QED BY <1>3, <1>4

LEMMA FetchErrKeeps ==
    ASSUME HealthInv, NEW w \in Workers, FetchErr(w)
    PROVE  HealthInv'
<1>1. /\ worker[w].pc = "fetch" /\ decr_in_use(Head(worker[w].path))
      /\ UNCHANGED <<scores, last_probe, clock, begun, notices>>
  BY DEF FetchErr
<1>2. worker[w] \in WorkerType /\ Sound(worker[w]) /\ worker[w].path # <<>>
  BY <1>1, TaskFacts DEF Sound, AtRelay
<1>3. CASE worker[w].kind = "union"
  <2> DEFINE t == [worker[w] EXCEPT !.pc = "record", !.sample = 0, !.ok = FALSE]
  <2>1. worker' = [worker EXCEPT ![w] = t]
    BY <1>3 DEF FetchErr
  <2>2. 0 \in Samples
    BY DEF Samples
  <2>3. /\ t \in WorkerType /\ Sound(t) /\ t.pc = "record"
        /\ t.kind = worker[w].kind /\ t.path = worker[w].path
        /\ t.since = worker[w].since
        /\ t.healthy <=> worker[w].healthy
    BY <1>1, <2>2, FetchEnds
  <2>4. Routed(w) /\ t.pc # "fetch"
    BY <1>1, <1>3, <2>3 DEF Routed
  <2> HIDE DEF t
  <2> QED BY <1>1, <2>1, <2>3, <2>4, EndKeeps
<1>4. CASE worker[w].kind # "union"
  <2> DEFINE t == Visited(worker[w], FALSE)
  <2>1. worker' = [worker EXCEPT ![w] = t]
    BY <1>4 DEF FetchErr
  <2>2. t \in WorkerType /\ Sound(t) /\ t.pc \in {"visit", "returned"}
    BY <1>2, VisitedType
  <2>3. t.pc # "fetch" /\ ~RoutedTask(t)
    BY <2>2 DEF RoutedTask
  <2> HIDE DEF t
  <2> QED BY <1>1, <2>1, <2>2, <2>3, EndKeeps
<1> QED BY <1>3, <1>4

LEMMA PanicKeeps ==
    ASSUME HealthInv, NEW w \in Workers, Panic(w)
    PROVE  HealthInv'
<1>1. /\ worker[w].pc = "fetch" /\ decr_in_use(Head(worker[w].path))
      /\ worker' = [worker EXCEPT ![w] = Idle]
      /\ UNCHANGED <<scores, last_probe, clock, begun, notices>>
  BY DEF Panic
<1>2. Idle \in WorkerType /\ Sound(Idle) /\ Idle.pc # "fetch" /\ ~RoutedTask(Idle)
  BY IdleType DEF RoutedTask
<1> QED BY <1>1, <1>2, EndKeeps

LEMMA MarkAttemptKeeps ==
    ASSUME HealthInv, NEW w \in Workers, MarkAttempt(w)
    PROVE  HealthInv'
<1>1. /\ worker[w] \in WorkerType /\ Sound(worker[w]) /\ worker[w].pc = "mark"
      /\ worker[w].path # <<>> /\ Head(worker[w].path) \in Relays
      /\ UNCHANGED <<scores, in_use, clock, begun, notices>>
  BY TaskFacts DEF MarkAttempt, Sound, AtRelay
<1>2. clock \in Nat /\ last_probe \in [Relays -> Nat \cup {Null}]
  BY DEF HealthInv, HealthTypes
<1>3. last_probe' \in [Relays -> Nat \cup {Null}]
  <2>0. PICK q \in Relays : q = Head(worker[w].path)
    BY <1>1
  <2>1. CASE worker[w].healthy \/ probe_due(last_probe[q], clock)
    BY <1>2, <2>0, <2>1 DEF MarkAttempt, try_mark_attempt
  <2>2. CASE ~(worker[w].healthy \/ probe_due(last_probe[q], clock))
    BY <1>2, <2>0, <2>2 DEF MarkAttempt, try_mark_attempt
  <2> QED BY <2>1, <2>2
<1>4. PICK t \in WorkerType : /\ worker' = [worker EXCEPT ![w] = t]
                              /\ Sound(t) /\ t.pc # "fetch"
  <2> DEFINE g == [worker[w] EXCEPT !.pc = "gate", !.since = clock]
  <2>1. worker' \in {[worker EXCEPT ![w] = g], [worker EXCEPT ![w] = Skip(worker[w])]}
    BY DEF MarkAttempt, try_mark_attempt
  <2>2. /\ g \in WorkerType /\ g.pc = "gate"
        /\ g.path = worker[w].path /\ g.kind = worker[w].kind
    BY <1>1, <1>2 DEF WorkerType, Busy
  <2>3. Sound(g) /\ g.pc # "fetch"
    BY <1>1, <2>2 DEF Sound, AtRelay
  <2>4. /\ Skip(worker[w]) \in WorkerType /\ Sound(Skip(worker[w]))
        /\ Skip(worker[w]).pc # "fetch"
    BY <1>1, VisitedType
  <2> HIDE DEF g
  <2> QED BY <2>1, <2>2, <2>3, <2>4
<1>5. /\ worker' \in [Workers -> WorkerType] /\ OnPath' /\ worker'[w].pc # "fetch"
      /\ \A v \in Workers : v # w => worker'[v] = worker[v]
  BY <1>4, TaskMoves DEF HealthInv
<1>6. HealthTypes'
  BY <1>1, <1>3, <1>5 DEF HealthInv, HealthTypes
<1>7. SlotAccounting' /\ SemaphoresHold'
  BY <1>1, <1>5, SlotsKept DEF HealthInv
<1>8. ProbesMarked' /\ ProbeExclusive'
  BY ProbesClaimed DEF HealthInv
<1> QED BY <1>5, <1>6, <1>7, <1>8 DEF HealthInv

LEMMA AcquireKeeps ==
    ASSUME HealthInv, NEW w \in Workers, Acquire(w)
    PROVE  HealthInv'
<1>1. /\ worker[w] \in WorkerType /\ Sound(worker[w]) /\ worker[w].pc = "acquire"
      /\ worker[w].path # <<>> /\ Head(worker[w].path) \in Relays
      /\ UNCHANGED <<scores, last_probe, clock, begun, notices>>
  BY TaskFacts DEF Acquire, Sound, AtRelay
<1> DEFINE t == [worker[w] EXCEPT !.pc = "fetch"]
<1>2. worker' = [worker EXCEPT ![w] = t]
  BY DEF Acquire
<1>3. /\ t \in WorkerType /\ t.pc = "fetch" /\ t.kind = worker[w].kind
      /\ t.path = worker[w].path /\ t.since = worker[w].since
      /\ (t.healthy <=> worker[w].healthy)
  BY <1>1 DEF WorkerType, Busy
<1>4. Sound(t)
  BY <1>1, <1>3 DEF Sound, AtRelay
<1> HIDE DEF t
<1>5. /\ worker' \in [Workers -> WorkerType] /\ OnPath' /\ worker'[w] = t
      /\ \A v \in Workers : v # w => worker'[v] = worker[v]
  BY <1>2, <1>3, <1>4, TaskMoves DEF HealthInv
<1>6. in_use' \in [Relays -> Nat]
  <2>0. PICK q \in Relays : q = Head(worker[w].path)
    BY <1>1
  <2>1. in_use' = [in_use EXCEPT ![q] = in_use[q] + 1]
    BY <2>0 DEF Acquire
  <2>2. in_use \in [Relays -> Nat] /\ in_use[q] + 1 \in Nat
    BY DEF HealthInv, HealthTypes
  <2> QED BY <2>1, <2>2
<1>7. HealthTypes'
  BY <1>1, <1>5, <1>6 DEF HealthInv, HealthTypes
<1>8. SlotAccounting' /\ SemaphoresHold'
  BY SlotsTaken DEF HealthInv
<1>9. Routed(w)' => /\ Routed(w)
                    /\ worker'[w].path = worker[w].path
                    /\ worker'[w].since = worker[w].since
                    /\ worker'[w].healthy <=> worker[w].healthy
  BY <1>1, <1>3, <1>5 DEF Routed
<1>10. clock' \in Nat /\ clock' >= clock
  BY <1>1 DEF HealthInv, HealthTypes
<1>11. ProbesMarked' /\ ProbeExclusive'
  BY <1>1, <1>5, <1>9, <1>10, ProbesKept DEF HealthInv
<1> QED BY <1>5, <1>7, <1>8, <1>11 DEF HealthInv

\* A step that leaves the batches alone: a notice, the clock, a stutter.
LEMMA OthersKeep ==
    ASSUME HealthInv, UNCHANGED <<in_use, last_probe, worker, begun>>,
           scores' \in [Relays -> 0..1000], notices' \in Nat,
           clock' \in Nat, clock' >= clock
    PROVE  HealthInv'
<1>1. HealthTypes' /\ OnPath'
  BY DEF HealthInv, HealthTypes, OnPath
<1>2. SlotAccounting' /\ SemaphoresHold'
  BY DEF HealthInv, SlotAccounting, SemaphoresHold, InFlight, InFallback, InCurated
<1>3. ProbeExclusive'
  BY DEF HealthInv, ProbeExclusive, Routed
<1>4. \A r \in Relays : last_probe'[r] # Null => last_probe'[r] <= clock'
  BY HealthConstants DEF HealthInv, HealthTypes, ProbesMarked
<1>5. ProbesMarked'
  BY <1>4 DEF HealthInv, ProbesMarked, Routed
<1> QED BY <1>1, <1>2, <1>3, <1>5 DEF HealthInv

LEMMA NoticeKeeps ==
    ASSUME HealthInv, NEW r \in CuratedSet, Notice(r)
    PROVE  HealthInv'
<1>1. /\ UNCHANGED <<in_use, last_probe, clock, worker, begun>>
      /\ notices' \in Nat /\ clock' \in Nat /\ clock' >= clock
  BY DEF Notice, HealthInv, HealthTypes
<1>2. PICK q \in Relays : q = r
  BY DEF Relays
<1>3. PICK sample \in 0..1000 : scores' = [scores EXCEPT ![q] = update(@, sample)]
  <2>1. PICK v \in {0, 200} : scores' = [scores EXCEPT ![r] = update(@, v)]
    BY DEF Notice
  <2>2. v \in 0..1000
    OBVIOUS
  <2>3. scores' = [scores EXCEPT ![q] = update(@, v)]
    BY <1>2, <2>1
  <2> QED BY <2>2, <2>3
<1>4. scores' \in [Relays -> 0..1000]
  BY <1>3, ScoresUpdated
<1> QED BY <1>1, <1>4, OthersKeep

LEMMA HealthInit ==
    ASSUME Init
    PROVE  HealthInv
<1>1. worker = [w \in Workers |-> Idle]
  BY DEF Init
<1>2. HealthTypes
  <2>1. /\ scores \in [Relays -> 0..1000] /\ in_use \in [Relays -> Nat]
        /\ last_probe \in [Relays -> Nat \cup {Null}]
    BY DEF Init
  <2>2. clock \in Nat /\ {begun, notices} \subseteq Nat
    BY DEF Init
  <2>3. worker \in [Workers -> WorkerType]
    BY <1>1, IdleType
  <2> QED BY <2>1, <2>2, <2>3 DEF HealthTypes
<1>3. OnPath
  BY <1>1, IdleType DEF OnPath
<1>4. \A r : InFlight(r) = {} /\ InFallback(r) = {} /\ InCurated(r) = {}
  BY <1>1, IdleType DEF InFlight, InFallback, InCurated
<1>5. SlotAccounting /\ SemaphoresHold
  <2>1. Cardinality({}) = 0
    BY FS_EmptySet
  <2>2. ASSUME NEW r \in Relays
        PROVE  /\ in_use[r] = 0 /\ Cardinality(InFlight(r)) = 0
               /\ Cardinality(InFallback(r)) = 0 /\ Cardinality(InCurated(r)) = 0
    <3>1. in_use[r] = 0
      BY DEF Init
    <3> QED BY <1>4, <2>1, <3>1
  <2> QED BY <2>2, HealthConstants DEF SlotAccounting, SemaphoresHold
<1>6. \A w \in Workers : ~Routed(w)
  BY <1>1, IdleType DEF Routed
<1>7. ProbesMarked /\ ProbeExclusive
  BY <1>6 DEF Init, ProbesMarked, ProbeExclusive
<1> QED BY <1>2, <1>3, <1>5, <1>7 DEF HealthInv

LEMMA HealthStep ==
    ASSUME HealthInv, [Next]_vars
    PROVE  HealthInv'
<1>1. ASSUME NEW w \in Workers, Begin(w) \/ Advance(w) PROVE HealthInv'
  BY <1>1, BeginKeeps, ReadScoreKeeps, MarkAttemptKeeps, StepKeeps, AcquireKeeps,
     FetchOkKeeps, FetchErrKeeps, PanicKeeps, RecordHealthKeeps, FallbackKeeps,
     EndBatchKeeps, Zenon DEF Advance
<1>2. ASSUME NEW r \in CuratedSet, Notice(r) PROVE HealthInv'
  BY <1>2, NoticeKeeps
<1>3. CASE Tick
  BY <1>3, OthersKeep DEF Tick, HealthInv, HealthTypes
<1>4. CASE UNCHANGED vars
  BY <1>4, OthersKeep DEF vars, HealthInv, HealthTypes
<1> QED BY <1>1, <1>2, <1>3, <1>4 DEF Next, Quiet

-----------------------------------------------------------------------------
(* What holds of every behaviour *)

\* The invariant holds in every reachable state.
THEOREM HealthInvariant == Spec => []HealthInv
<1>1. Init => HealthInv
  BY HealthInit
<1>2. HealthInv /\ [Next]_vars => HealthInv'
  BY HealthStep
<1> QED BY <1>1, <1>2, PTL DEF Spec

\* Every variable keeps its type, and a relay never counts more fetches than there
\* are batches.
THEOREM HealthTypeCorrect == Spec => []TypeOK
<1>1. HealthInv => TypeOK
  <2> SUFFICES ASSUME HealthInv PROVE TypeOK
    OBVIOUS
  <2>1. ASSUME NEW r \in Relays PROVE in_use[r] \in 0..Cardinality(Workers)
    <3>1. InFlight(r) \subseteq Workers
      BY DEF InFlight
    <3>2. /\ Cardinality(InFlight(r)) \in Nat
          /\ Cardinality(InFlight(r)) <= Cardinality(Workers)
      BY <3>1, FlightFinite
    <3>3. Cardinality(Workers) \in Nat
      BY FlightFinite
    <3> QED BY <3>2, <3>3 DEF HealthInv, SlotAccounting
  <2>2. in_use \in [Relays -> 0..Cardinality(Workers)]
    BY <2>1 DEF HealthInv, HealthTypes
  <2> QED BY <2>2 DEF HealthInv, HealthTypes, TypeOK
<1> QED BY <1>1, HealthInvariant, PTL

\* InUseGuard: after successes, errors and panics alike, a relay's count is the
\* number of its fetches in flight.
THEOREM SlotsAreAccounted == Spec => []SlotAccounting
<1>1. HealthInv => SlotAccounting
  BY DEF HealthInv
<1> QED BY <1>1, HealthInvariant, PTL

\* The semaphores bound what the health gate, read before them, cannot.
THEOREM CeilingIsHard == Spec => []HardCeiling
<1>1. HealthInv => HardCeiling
  <2> SUFFICES ASSUME HealthInv, NEW r \in Relays
               PROVE  /\ \A w \in InFlight(r) : Cardinality(Holders(w)) <= PerRelay
                      /\ in_use[r] <= IF r \in CuratedSet \cap WriteRelays
                                      THEN 2 * PerRelay ELSE PerRelay
    BY DEF HardCeiling
  <2>1. /\ InFlight(r) = InFallback(r) \cup InCurated(r)
        /\ InFallback(r) \cap InCurated(r) = {}
        /\ InFallback(r) # {} => r \in WriteRelays
        /\ InCurated(r) # {} => r \in CuratedSet
    BY FlightKinds DEF HealthInv
  <2>2. InFallback(r) \subseteq Workers /\ InCurated(r) \subseteq Workers
    BY DEF InFlight, InFallback, InCurated
  <2>3. /\ IsFiniteSet(InFallback(r)) /\ Cardinality(InFallback(r)) \in Nat
        /\ IsFiniteSet(InCurated(r)) /\ Cardinality(InCurated(r)) \in Nat
    BY <2>2, FlightFinite
  <2>4. in_use[r] = Cardinality(InFallback(r)) + Cardinality(InCurated(r))
    <3>1. Cardinality(InFallback(r) \cap InCurated(r)) = 0
      BY <2>1, FS_EmptySet
    <3>2. Cardinality(InFlight(r)) = Cardinality(InFallback(r)) + Cardinality(InCurated(r))
      <4>1. Cardinality(InFallback(r) \cup InCurated(r)) =
               Cardinality(InFallback(r)) + Cardinality(InCurated(r))
                  - Cardinality(InFallback(r) \cap InCurated(r))
        BY <2>3, FS_Union, Zenon
      <4> QED BY <2>1, <2>3, <3>1, <4>1
    <3> QED BY <3>2 DEF HealthInv, SlotAccounting
  <2>5. Cardinality(InFallback(r)) <= PerRelay /\ Cardinality(InCurated(r)) <= PerRelay
    BY DEF HealthInv, SemaphoresHold
  <2>6. /\ r \notin WriteRelays => Cardinality(InFallback(r)) = 0
        /\ r \notin CuratedSet => Cardinality(InCurated(r)) = 0
    BY <2>1, FS_EmptySet
  <2>7. in_use[r] <= IF r \in CuratedSet \cap WriteRelays THEN 2 * PerRelay ELSE PerRelay
    BY <2>3, <2>4, <2>5, <2>6, HealthConstants
  <2>8. ASSUME NEW w \in InFlight(r)
        PROVE  Cardinality(Holders(w)) <= PerRelay
    <3>1. w \in Workers /\ Head(worker[w].path) = r
      BY DEF InFlight
    <3>2. Holders(w) = InFallback(r) \/ Holders(w) = InCurated(r)
      BY <3>1, HoldersOf
    <3> QED BY <2>5, <3>2
  <2> QED BY <2>7, <2>8
<1> QED BY <1>1, HealthInvariant, PTL

\* The floor of `permits` and the guard that returns every slot: whoever waits at a
\* relay waits for a fetch that is in flight there.
THEOREM WaitsEndWithAFetch == Spec => []WaitsForAFetch
<1>1. HealthInv => WaitsForAFetch
  <2> SUFFICES ASSUME HealthInv, NEW w \in Workers, NEW r, r = Head(worker[w].path),
                      \/ worker[w].pc = "gate" /\ in_use[r] >= permits(scores[r])
                      \/ worker[w].pc = "acquire" /\ ~PermitFree(w)
               PROVE  InFlight(r) # {}
    BY DEF WaitsForAFetch
  <2>1. r \in Relays
    <3>1. worker[w].path # <<>> /\ worker[w].path \in Seq(Relays)
      BY DEF HealthInv, OnPath, Sound, AtRelay, HealthTypes, WorkerType
    <3> QED BY <3>1, HeadTailProperties
  <2>2. InFlight(r) \subseteq Workers /\ Holders(w) \subseteq InFlight(r)
    BY DEF InFlight, Holders
  <2>3. CASE in_use[r] >= permits(scores[r])
    <3>1. permits(scores[r]) \in Int /\ permits(scores[r]) >= 1
      <4>1. PICK s \in 0..1000 : s = scores[r]
        BY <2>1 DEF HealthInv, HealthTypes
      <4>2. PICK n \in Nat : n = PerRelay
        BY HealthConstants
      <4>3. permits(s) \in Int /\ permits(s) >= 1
        BY <4>2 DEF permits
      <4> QED BY <4>1, <4>3
    <3>2. in_use[r] = Cardinality(InFlight(r)) /\ in_use[r] \in Nat
      BY <2>1 DEF HealthInv, SlotAccounting, HealthTypes
    <3> QED BY <2>3, <3>1, <3>2, FS_EmptySet
  <2>4. CASE ~PermitFree(w)
    <3>1. Cardinality(Holders(w)) \in Nat
      BY <2>2, FlightFinite
    <3>2. Cardinality(Holders(w)) # 0
      BY <2>4, <3>1, HealthConstants DEF PermitFree
    <3> QED BY <2>2, <3>2, FS_EmptySet
  <2> QED BY <2>3, <2>4
<1> QED BY <1>1, HealthInvariant, PTL

\* try_mark_attempt reads the score under one lock and claims the probe under
\* another, and yet two probes of a degraded relay are an interval apart.
THEOREM ProbesAreExclusive == Spec => []ProbeExclusive
<1>1. HealthInv => ProbeExclusive
  BY DEF HealthInv
<1> QED BY <1>1, HealthInvariant, PTL
=============================================================================
