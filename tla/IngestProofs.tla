----------------------------- MODULE IngestProofs -----------------------------
(****************************************************************************)
(* The ingest gate and the relay-list store, for every set of events, every *)
(* stream of them of any length, every clamp, cap and word size.            *)
(*                                                                          *)
(* The gate's loops are recursive functions of the number of rounds, so     *)
(* what they compute is shown by induction: the library's well-founded      *)
(* order of the naturals gives a least number (LeastNumber), from which     *)
(* follow induction over a set of numbers (Rounds) and that the recursive   *)
(* functions exist.                                                         *)
(****************************************************************************)
EXTENDS RelayLists, FiniteSetTheorems, SequenceTheorems, WellFoundedInduction, TLAPS

-----------------------------------------------------------------------------
(* Induction *)

\* A set of numbers has a least one.
LEMMA LeastNumber ==
    ASSUME NEW T, T \subseteq Nat, T # {}
    PROVE  \E x \in T : \A y \in T : x <= y
<1> DEFINE R == {ss \in Nat \X Nat : ss[1] < ss[2]}
<1>1. IsWellFoundedOn(R, Nat)
  BY NatLessThanWellFounded DEF OpToRel
<1>2. R = {ss \in Nat \X Nat : ss[1] < ss[2]}
  OBVIOUS
<1> HIDE DEF R
<1>3. PICK x \in T : \A y \in T : <<y, x>> \notin R
  BY <1>1, WFMin
<1>4. ASSUME NEW y \in T PROVE x <= y
  <2>1. x \in Nat /\ y \in Nat /\ <<y, x>> \notin R
    BY <1>3
  <2>2. ~(y < x)
    BY <1>2, <2>1
  <2> QED BY <2>1, <2>2
<1> QED BY <1>4

\* What holds before the first of N rounds and after each if before it, holds after all.
LEMMA Rounds ==
    ASSUME NEW N \in Nat, NEW S, 0 \in S, \A n \in 1..N : n - 1 \in S => n \in S
    PROVE  \A n \in 0..N : n \in S
<1> SUFFICES ASSUME (0..N) \ S # {} PROVE FALSE
  OBVIOUS
<1>1. PICK x \in (0..N) \ S : \A y \in (0..N) \ S : x <= y
  <2>1. (0..N) \ S \subseteq Nat
    OBVIOUS
  <2> QED BY <2>1, LeastNumber
<1>2. x # 0 /\ x \in 1..N /\ x - 1 \in 0..N /\ ~(x <= x - 1)
  BY <1>1
<1>3. x - 1 \in S
  BY <1>1, <1>2
<1> QED BY <1>1, <1>2, <1>3

-----------------------------------------------------------------------------
(* The gate's loop *)

NoEvents(requested) == [seen |-> {}, by_author |-> [a \in requested |-> <<>>]]

\* After m rounds of the loop.
IsRounds(h, m, events, kind, requested) ==
    h = [n \in 0..m |-> IF n = 0 THEN NoEvents(requested)
                        ELSE admit(h[n - 1], events[n], kind, requested)]

\* The loop can be run for as many rounds as there are events.
LEMMA RoundsExist ==
    ASSUME NEW events, Len(events) \in Nat, NEW kind, NEW requested
    PROVE  \E h : IsRounds(h, Len(events), events, kind, requested)
<1> DEFINE S == {m \in Nat : \E h : IsRounds(h, m, events, kind, requested)}
<1>1. 0 \in S
  <2>1. IsRounds([n \in 0..0 |-> NoEvents(requested)], 0, events, kind, requested)
    BY DEF IsRounds
  <2> QED BY <2>1
<1>2. ASSUME NEW m \in 1..Len(events), m - 1 \in S PROVE m \in S
  <2>1. PICK h : IsRounds(h, m - 1, events, kind, requested)
    BY <1>2
  <2> DEFINE g == [n \in 0..m |-> IF n < m THEN h[n]
                                  ELSE admit(h[m - 1], events[m], kind, requested)]
  <2>2. ASSUME NEW n \in 0..m
        PROVE  g[n] = IF n = 0 THEN NoEvents(requested)
                      ELSE admit(g[n - 1], events[n], kind, requested)
    <3>1. CASE n < m
      <4>1. n \in 0..(m - 1) /\ (n # 0 => n - 1 \in 0..m /\ n - 1 < m)
        BY <3>1
      <4>2. g[n] = h[n] /\ (n # 0 => g[n - 1] = h[n - 1])
        BY <3>1, <4>1
      <4>3. h[n] = IF n = 0 THEN NoEvents(requested)
                   ELSE admit(h[n - 1], events[n], kind, requested)
        BY <2>1, <4>1 DEF IsRounds
      <4> QED BY <4>2, <4>3
    <3>2. CASE n = m
      <4>1. n # 0 /\ n - 1 \in 0..m /\ n - 1 < m
        BY <3>2
      <4> QED BY <3>2, <4>1
    <3> QED BY <3>1, <3>2
  <2>3. IsRounds(g, m, events, kind, requested)
    <3>1. g = [n \in 0..m |-> g[n]]
      OBVIOUS
    <3> HIDE DEF g
    <3> QED BY <2>2, <3>1 DEF IsRounds
  <2> QED BY <2>3
<1>3. \A m \in S : \E h : IsRounds(h, m, events, kind, requested)
  OBVIOUS
<1> HIDE DEF S
<1>4. \A n \in 0..Len(events) : n \in S
  BY <1>1, <1>2, Rounds
<1>5. Len(events) \in 0..Len(events)
  OBVIOUS
<1> QED BY <1>3, <1>4, <1>5

\* Hence rounds is what its definition says.
LEMMA RoundsAre ==
    ASSUME NEW events, Len(events) \in Nat, NEW kind, NEW requested
    PROVE  IsRounds(rounds(events, kind, requested), Len(events), events, kind, requested)
<1>1. rounds(events, kind, requested) =
         CHOOSE h : IsRounds(h, Len(events), events, kind, requested)
  BY DEF rounds, IsRounds, NoEvents
<1>2. PICK h : IsRounds(h, Len(events), events, kind, requested)
  BY RoundsExist
<1> QED BY <1>1, <1>2

\* The rounds, one after the other.
LEMMA RoundByRound ==
    ASSUME NEW events, Len(events) \in Nat, NEW kind, NEW requested
    PROVE  /\ rounds(events, kind, requested)[0] = NoEvents(requested)
           /\ \A n \in 1..Len(events) :
                 rounds(events, kind, requested)[n] =
                    admit(rounds(events, kind, requested)[n - 1], events[n], kind, requested)
<1> DEFINE h == rounds(events, kind, requested)
<1>1. IsRounds(h, Len(events), events, kind, requested)
  BY RoundsAre
<1> HIDE DEF h
<1>2. h[0] = NoEvents(requested)
  BY <1>1 DEF IsRounds
<1>3. ASSUME NEW n \in 1..Len(events)
      PROVE  h[n] = admit(h[n - 1], events[n], kind, requested)
  <2>1. n \in 0..Len(events) /\ n # 0
    OBVIOUS
  <2> QED BY <1>1, <2>1 DEF IsRounds
<1> QED BY <1>2, <1>3 DEF h

\* An event of the author's that the gate lets pass.
Genuine(e, kind, a) == e.valid /\ e.kind = kind /\ e.pubkey = a

\* What the gate knows of the events P that it has been through.
GateHolds(acc, P, kind, requested) ==
    /\ acc.by_author \in [requested -> Seq(Events)]
    /\ \A a \in requested : ToSet(acc.by_author[a]) = {e \in P : Genuine(e, kind, a)}
    /\ acc.seen = {e.id : e \in {f \in P : accept(f, kind, requested)}}

LEMMA AppendToSet ==
    ASSUME NEW T, NEW s \in Seq(T), NEW e \in T
    PROVE  ToSet(Append(s, e)) = ToSet(s) \cup {e} /\ Append(s, e) \in Seq(T)
<1>1. Append(s, e) \in Seq(T) /\ Len(Append(s, e)) = Len(s) + 1 /\ Len(s) \in Nat
      /\ DOMAIN Append(s, e) = 1..(Len(s) + 1) /\ DOMAIN s = 1..Len(s)
      /\ \A n \in 1..(Len(s) + 1) : Append(s, e)[n] = IF n <= Len(s) THEN s[n] ELSE e
  OBVIOUS
<1>2. ASSUME NEW x \in ToSet(Append(s, e)) PROVE x \in ToSet(s) \cup {e}
  <2>1. PICK n \in 1..(Len(s) + 1) : x = Append(s, e)[n]
    BY <1>1, <1>2 DEF ToSet
  <2>2. CASE n <= Len(s)
    <3>1. n \in DOMAIN s /\ x = s[n]
      BY <1>1, <2>1, <2>2
    <3> QED BY <3>1 DEF ToSet
  <2>3. CASE ~(n <= Len(s))
    BY <1>1, <2>1, <2>3
  <2> QED BY <2>2, <2>3
<1>3. ASSUME NEW x \in ToSet(s) PROVE x \in ToSet(Append(s, e))
  <2>1. PICK n \in 1..Len(s) : x = s[n]
    BY <1>1, <1>3 DEF ToSet
  <2>2. n \in DOMAIN Append(s, e) /\ x = Append(s, e)[n]
    BY <1>1, <2>1
  <2> QED BY <2>2 DEF ToSet
<1>4. e \in ToSet(Append(s, e))
  <2>1. Len(s) + 1 \in DOMAIN Append(s, e) /\ Append(s, e)[Len(s) + 1] = e
    BY <1>1
  <2> QED BY <2>1 DEF ToSet
<1> QED BY <1>1, <1>2, <1>3, <1>4

\* One round: an event is kept unless it is forged or unsolicited, or it is kept
\* already, which is what its id in `seen` means.
LEMMA AdmitKeeps ==
    ASSUME NEW kind, NEW requested, NEW P, P \subseteq Events, NEW e \in Events,
           NEW acc, GateHolds(acc, P, kind, requested)
    PROVE  GateHolds(admit(acc, e, kind, requested), P \cup {e}, kind, requested)
<1> USE DEF GateHolds
<1>1. CASE accept(e, kind, requested) /\ e.id \notin acc.seen
  <2>1. e.pubkey \in requested
    BY <1>1 DEF accept
  <2>2. PICK b : b = [acc.by_author EXCEPT ![e.pubkey] = Append(@, e)]
    OBVIOUS
  <2>3. admit(acc, e, kind, requested) = [seen |-> acc.seen \cup {e.id}, by_author |-> b]
    BY <1>1, <2>2 DEF admit
  <2>4. acc.by_author[e.pubkey] \in Seq(Events)
    BY <2>1
  <2>5. /\ Append(acc.by_author[e.pubkey], e) \in Seq(Events)
        /\ ToSet(Append(acc.by_author[e.pubkey], e)) =
              ToSet(acc.by_author[e.pubkey]) \cup {e}
    BY <2>4, AppendToSet
  <2>6. /\ b \in [requested -> Seq(Events)]
        /\ b[e.pubkey] = Append(acc.by_author[e.pubkey], e)
        /\ \A a \in requested : a # e.pubkey => b[a] = acc.by_author[a]
    BY <2>1, <2>2, <2>5
  <2>7. ASSUME NEW a \in requested
        PROVE  ToSet(b[a]) = {f \in P \cup {e} : Genuine(f, kind, a)}
    <3>1. Genuine(e, kind, a) <=> a = e.pubkey
      BY <1>1 DEF accept, Genuine
    <3>2. CASE a = e.pubkey
      BY <2>1, <2>5, <2>6, <3>1, <3>2
    <3>3. CASE a # e.pubkey
      BY <2>6, <3>1, <3>3
    <3> QED BY <3>2, <3>3
  <2>8. acc.seen \cup {e.id} =
           {f.id : f \in {g \in P \cup {e} : accept(g, kind, requested)}}
    BY <1>1
  <2> DEFINE after == admit(acc, e, kind, requested)
  <2>9. after.seen = acc.seen \cup {e.id} /\ after.by_author = b
    BY <2>3
  <2> HIDE DEF after
  <2>10. GateHolds(after, P \cup {e}, kind, requested)
    BY <2>6, <2>7, <2>8, <2>9
  <2> QED BY <2>10 DEF after
<1>2. CASE accept(e, kind, requested) /\ e.id \in acc.seen
  <2>1. PICK f \in P : accept(f, kind, requested) /\ f.id = e.id
    BY <1>2
  <2>2. f = e
    BY <1>2, <2>1, IngestConstants DEF accept
  <2>3. P \cup {e} = P /\ admit(acc, e, kind, requested) = acc
    BY <1>2, <2>2 DEF admit
  <2> QED BY <2>3
<1>3. CASE ~accept(e, kind, requested)
  <2>1. \A a \in requested : ~Genuine(e, kind, a)
    BY <1>3 DEF accept, Genuine
  <2>2. \A a \in requested :
           {f \in P \cup {e} : Genuine(f, kind, a)} = {f \in P : Genuine(f, kind, a)}
    BY <2>1
  <2>3. {g \in P \cup {e} : accept(g, kind, requested)} =
        {g \in P : accept(g, kind, requested)}
    BY <1>3
  <2>4. admit(acc, e, kind, requested) = acc
    BY <1>3 DEF admit
  <2> QED BY <2>2, <2>3, <2>4
<1> QED BY <1>1, <1>2, <1>3

\* Whatever the order of the stream and whatever it repeats, the gate groups the
\* genuine events of each author, and nothing else.
LEMMA GateKeepsTheGenuine ==
    ASSUME NEW events \in Seq(Events), NEW kind, NEW requested
    PROVE  /\ gated(events, kind, requested) \in [requested -> Seq(Events)]
           /\ \A a \in requested : ToSet(gated(events, kind, requested)[a]) =
                                      {e \in ToSet(events) : Genuine(e, kind, a)}
<1> DEFINE h == rounds(events, kind, requested)
           P(n) == {events[i] : i \in 1..n}
           S == {n \in Nat : GateHolds(h[n], P(n), kind, requested)}
<1>0. Len(events) \in Nat /\ DOMAIN events = 1..Len(events)
      /\ \A n \in 1..Len(events) : events[n] \in Events
  OBVIOUS
<1>1. /\ h[0] = NoEvents(requested)
      /\ \A n \in 1..Len(events) : h[n] = admit(h[n - 1], events[n], kind, requested)
  BY <1>0, RoundByRound
<1> HIDE DEF h
<1>2. 0 \in S
  <2>1. P(0) = {}
    OBVIOUS
  <2>2. ToSet(<<>>) = {} /\ <<>> \in Seq(Events)
    BY DEF ToSet
  <2>3. GateHolds(NoEvents(requested), {}, kind, requested)
    BY <2>2 DEF GateHolds, NoEvents
  <2> QED BY <1>1, <2>1, <2>3
<1>3. ASSUME NEW n \in 1..Len(events), n - 1 \in S PROVE n \in S
  <2>1. P(n) = P(n - 1) \cup {events[n]}
    OBVIOUS
  <2>2. P(n - 1) \subseteq Events
    BY <1>0
  <2>3. GateHolds(h[n - 1], P(n - 1), kind, requested)
    BY <1>3
  <2>4. h[n] = admit(h[n - 1], events[n], kind, requested) /\ events[n] \in Events
    BY <1>0, <1>1
  <2> HIDE DEF P
  <2>5. GateHolds(h[n], P(n), kind, requested)
    BY <2>1, <2>2, <2>3, <2>4, AdmitKeeps
  <2> QED BY <2>5
<1>4. \A n \in S : GateHolds(h[n], P(n), kind, requested)
  OBVIOUS
<1>5. P(Len(events)) = ToSet(events)
  BY <1>0 DEF ToSet
<1> HIDE DEF S, P
<1>6. \A n \in 0..Len(events) : n \in S
  BY <1>0, <1>2, <1>3, Rounds
<1>7. Len(events) \in 0..Len(events)
  BY <1>0
<1>8. GateHolds(h[Len(events)], ToSet(events), kind, requested)
  BY <1>4, <1>5, <1>6, <1>7
<1> QED BY <1>8 DEF GateHolds, gated, h

-----------------------------------------------------------------------------
(* The winner *)

\* After m rounds of filter and max_by.
IsBest(h, m, group) ==
    h = [n \in 0..m |-> IF n = 0 THEN Null ELSE better(h[n - 1], group[n])]

\* These can be run to the end of the group too.
LEMMA BestExists ==
    ASSUME NEW group, Len(group) \in Nat
    PROVE  \E h : IsBest(h, Len(group), group)
<1> DEFINE S == {m \in Nat : \E h : IsBest(h, m, group)}
<1>1. 0 \in S
  <2>1. IsBest([n \in 0..0 |-> Null], 0, group)
    BY DEF IsBest
  <2> QED BY <2>1
<1>2. ASSUME NEW m \in 1..Len(group), m - 1 \in S PROVE m \in S
  <2>1. PICK h : IsBest(h, m - 1, group)
    BY <1>2
  <2> DEFINE g == [n \in 0..m |-> IF n < m THEN h[n] ELSE better(h[m - 1], group[m])]
  <2>2. ASSUME NEW n \in 0..m
        PROVE  g[n] = IF n = 0 THEN Null ELSE better(g[n - 1], group[n])
    <3>1. CASE n < m
      <4>1. n \in 0..(m - 1) /\ (n # 0 => n - 1 \in 0..m /\ n - 1 < m)
        BY <3>1
      <4>2. g[n] = h[n] /\ (n # 0 => g[n - 1] = h[n - 1])
        BY <3>1, <4>1
      <4>3. h[n] = IF n = 0 THEN Null ELSE better(h[n - 1], group[n])
        BY <2>1, <4>1 DEF IsBest
      <4> QED BY <4>2, <4>3
    <3>2. CASE n = m
      <4>1. n # 0 /\ n - 1 \in 0..m /\ n - 1 < m
        BY <3>2
      <4> QED BY <3>2, <4>1
    <3> QED BY <3>1, <3>2
  <2>3. IsBest(g, m, group)
    <3>1. g = [n \in 0..m |-> g[n]]
      OBVIOUS
    <3> HIDE DEF g
    <3> QED BY <2>2, <3>1 DEF IsBest
  <2> QED BY <2>3
<1>3. \A m \in S : \E h : IsBest(h, m, group)
  OBVIOUS
<1> HIDE DEF S
<1>4. \A n \in 0..Len(group) : n \in S
  BY <1>1, <1>2, Rounds
<1>5. Len(group) \in 0..Len(group)
  OBVIOUS
<1> QED BY <1>3, <1>4, <1>5

\* pick_winner is the last of its rounds.
LEMMA PickByRounds ==
    ASSUME NEW group, Len(group) \in Nat
    PROVE  \E h : /\ pick_winner(group) = h[Len(group)]
                  /\ h[0] = Null
                  /\ \A n \in 1..Len(group) : h[n] = better(h[n - 1], group[n])
<1> DEFINE h == CHOOSE f : IsBest(f, Len(group), group)
<1>1. pick_winner(group) = h[Len(group)]
  BY DEF pick_winner, IsBest
<1>2. IsBest(h, Len(group), group)
  BY BestExists
<1> HIDE DEF h
<1>3. h[0] = Null
  BY <1>2 DEF IsBest
<1>4. ASSUME NEW n \in 1..Len(group) PROVE h[n] = better(h[n - 1], group[n])
  <2>1. n \in 0..Len(group) /\ n # 0
    OBVIOUS
  <2> QED BY <1>2, <2>1 DEF IsBest
<1> QED BY <1>1, <1>3, <1>4

\* e is newer than f, or as new with no higher id.
Beats(e, f) ==
    f.created_at < e.created_at \/ (f.created_at = e.created_at /\ f.id >= e.id)

\* best is the winner among E, or there is none.
BestOf(best, E) ==
    \/ best = Null /\ E = {}
    \/ best \in E /\ \A f \in E : Beats(best, f)

\* One more event: what max_by keeps beats everything so far, because an event that
\* displaces the best one beats whatever that one beat.
LEMMA BetterKeeps ==
    ASSUME NEW E, E \subseteq Events, NEW e \in Events, NEW best, BestOf(best, E)
    PROVE  BestOf(better(best, e), E \cup {f \in {e} : f.created_at <= cutoff})
<1>0. /\ Null \notin Events
      /\ \A f \in Events : f.id \in Nat /\ f.created_at \in Nat
  BY IngestConstants
<1>1. CASE ~(e.created_at <= cutoff)
  <2>1. better(best, e) = best /\ {f \in {e} : f.created_at <= cutoff} = {}
    BY <1>1 DEF better
  <2> QED BY <2>1
<1>2. CASE e.created_at <= cutoff
  <2>0. {f \in {e} : f.created_at <= cutoff} = {e}
    BY <1>2
  <2>1. CASE best = Null
    <3>1. E = {} /\ better(best, e) = e
      BY <1>0, <1>2, <2>1 DEF BestOf, better
    <3>2. Beats(e, e)
      BY <1>0 DEF Beats
    <3> QED BY <2>0, <3>1, <3>2 DEF BestOf
  <2>2. CASE best # Null /\ NotBelow(e, best)
    <3>1. better(best, e) = e /\ best \in E /\ \A f \in E : Beats(best, f)
      BY <1>2, <2>2 DEF BestOf, better
    <3>2. Beats(e, best) /\ Beats(e, e)
      BY <1>0, <2>2, <3>1 DEF Beats, NotBelow
    <3>3. \A f \in E : Beats(e, f)
      BY <1>0, <3>1, <3>2 DEF Beats
    <3> QED BY <2>0, <3>1, <3>2, <3>3 DEF BestOf
  <2>3. CASE best # Null /\ ~NotBelow(e, best)
    <3>1. better(best, e) = best /\ best \in E /\ \A f \in E : Beats(best, f)
      BY <2>3 DEF BestOf, better
    <3>2. Beats(best, e)
      BY <1>0, <2>3, <3>1 DEF Beats, NotBelow
    <3> QED BY <2>0, <3>1, <3>2 DEF BestOf
  <2> QED BY <2>1, <2>2, <2>3
<1> QED BY <1>1, <1>2

\* pick_winner returns the best event of the group that is not dated too far ahead.
LEMMA WinnerIsBest ==
    ASSUME NEW group \in Seq(Events)
    PROVE  BestOf(pick_winner(group), {e \in ToSet(group) : e.created_at <= cutoff})
<1>0. Len(group) \in Nat /\ DOMAIN group = 1..Len(group)
      /\ \A n \in 1..Len(group) : group[n] \in Events
  OBVIOUS
<1>1. PICK h : /\ pick_winner(group) = h[Len(group)]
               /\ h[0] = Null
               /\ \A n \in 1..Len(group) : h[n] = better(h[n - 1], group[n])
  BY <1>0, PickByRounds
<1> DEFINE Q(n) == {group[i] : i \in 1..n}
           E(n) == {e \in Q(n) : e.created_at <= cutoff}
           S == {n \in Nat : BestOf(h[n], E(n))}
<1>2. 0 \in S
  BY <1>1 DEF BestOf
<1>3. ASSUME NEW n \in 1..Len(group), n - 1 \in S PROVE n \in S
  <2>0. Q(n) = Q(n - 1) \cup {group[n]}
    OBVIOUS
  <2>1. E(n) = E(n - 1) \cup {f \in {group[n]} : f.created_at <= cutoff}
    BY <2>0
  <2>2. E(n - 1) \subseteq Events
    BY <1>0
  <2>3. BestOf(h[n - 1], E(n - 1))
    BY <1>3
  <2>4. h[n] = better(h[n - 1], group[n]) /\ group[n] \in Events
    BY <1>0, <1>1
  <2> HIDE DEF E
  <2>5. BestOf(h[n], E(n))
    BY <2>1, <2>2, <2>3, <2>4, BetterKeeps
  <2> QED BY <2>5
<1>4. \A n \in S : BestOf(h[n], E(n))
  OBVIOUS
<1>5. Q(Len(group)) = ToSet(group)
  BY <1>0 DEF ToSet
<1> HIDE DEF S, Q
<1>6. \A n \in 0..Len(group) : n \in S
  BY <1>0, <1>2, <1>3, Rounds
<1>7. Len(group) \in 0..Len(group)
  BY <1>0
<1>8. BestOf(h[Len(group)], E(Len(group)))
  BY <1>4, <1>6, <1>7
<1> QED BY <1>1, <1>5, <1>8

-----------------------------------------------------------------------------
(* The gate computes the reference *)

\* The saturating cutoff lets exactly the events up to now + clamp pass.
LEMMA CutoffIsTheClamp ==
    ASSUME future_clamp_secs \in Clamps, NEW e \in Events
    PROVE  e.created_at <= cutoff <=> e.created_at <= Now + future_clamp_secs
<1>1. /\ e.created_at \in Nat /\ e.created_at <= Word - 1 /\ Word \in Nat
      /\ Now \in Nat /\ future_clamp_secs \in Nat
  BY IngestConstants
<1> QED BY <1>1 DEF cutoff

\* Newest wins over the union, the lowest id among equals: for each author the gate
\* resolves the event that the set of events determines.
LEMMA GateIsReference ==
    ASSUME stream \in Seq(Events), future_clamp_secs \in Clamps,
           NEW kind, NEW requested, NEW a \in requested,
           NEW w, w = pick_winner(gated(stream, kind, requested)[a])
    PROVE  /\ {w} \ {Null} = Reference(kind, a)
           /\ w # Null => w \in Candidates(kind, a) /\ w \in Events
<1> DEFINE group == gated(stream, kind, requested)[a]
           C == {e \in ToSet(group) : e.created_at <= cutoff}
<1>0. ToSet(stream) \subseteq Events
  BY DEF ToSet
<1>1. group \in Seq(Events) /\ ToSet(group) = {e \in ToSet(stream) : Genuine(e, kind, a)}
  BY GateKeepsTheGenuine
<1>2. BestOf(w, C)
  <2> HIDE DEF group
  <2> QED BY <1>1, WinnerIsBest DEF group
<1>3. C = Candidates(kind, a) /\ C \subseteq Events
  <2>1. C = {e \in ToSet(stream) : Genuine(e, kind, a) /\ e.created_at <= cutoff}
    BY <1>1
  <2> HIDE DEF C
  <2>2. \A e \in ToSet(stream) :
           e.created_at <= cutoff <=> e.created_at <= Now + future_clamp_secs
    BY <1>0, CutoffIsTheClamp
  <2> QED BY <1>0, <2>1, <2>2 DEF Candidates, Genuine
<1>4. Reference(kind, a) = {e \in C : \A f \in C : Beats(e, f)}
  BY <1>3 DEF Reference, Beats
<1> HIDE DEF group, C
<1>5. CASE w = Null
  <2>1. C = {}
    BY <1>2, <1>3, <1>5, IngestConstants DEF BestOf
  <2> QED BY <1>4, <1>5, <2>1
<1>6. CASE w # Null
  <2>1. w \in C /\ \A f \in C : Beats(w, f)
    BY <1>2, <1>6 DEF BestOf
  <2>2. ASSUME NEW e \in C, \A f \in C : Beats(e, f) PROVE e = w
    <3>1. Beats(e, w) /\ Beats(w, e)
      BY <2>1, <2>2
    <3>2. /\ e \in Events /\ w \in Events /\ e.id \in Nat /\ w.id \in Nat
          /\ e.created_at \in Nat /\ w.created_at \in Nat
      BY <1>3, <2>1, IngestConstants
    <3>3. e.id = w.id
      BY <3>1, <3>2 DEF Beats
    <3>4. e.valid /\ w.valid
      BY <1>3, <2>1 DEF Candidates
    <3> QED BY <3>2, <3>3, <3>4, IngestConstants
  <2>3. Reference(kind, a) = {w}
    BY <1>4, <2>1, <2>2
  <2> QED BY <1>3, <1>6, <2>1, <2>3
<1> QED BY <1>5, <1>6

\* The tags of an event are finitely many.
LEMMA TagsAreFinite ==
    ASSUME NEW e \in Events
    PROVE  IsFiniteSet(ToSet(e.tags)) /\ Len(e.tags) \in Nat
           /\ DOMAIN e.tags = 1..Len(e.tags)
<1> DEFINE s == e.tags
<1>1. s \in Seq(ToSet(s))
  BY IngestConstants
<1> HIDE DEF s
<1>2. Len(s) \in Nat /\ DOMAIN s = 1..Len(s)
  BY <1>1
<1>3. IsFiniteSet(1..Len(s))
  BY <1>2, FS_Interval
<1>4. ToSet(s) = {s[n] : n \in 1..Len(s)}
  BY <1>2 DEF ToSet
<1>5. IsFiniteSet({s[n] : n \in 1..Len(s)})
  <2> DEFINE f == [n \in 1..Len(s) |-> s[n]]
             T == {s[n] : n \in 1..Len(s)}
  <2>1. f \in Surjection(1..Len(s), T)
    BY DEF Surjection
  <2> HIDE DEF f, T
  <2> QED BY <1>3, <2>1, FS_Surjection DEF T
<1> QED BY <1>2, <1>4, <1>5 DEF s

\* The stream and the clamp, as every step leaves them.
GateTyped == stream \in Seq(Events) /\ future_clamp_secs \in Clamps

\* The events that the reference resolves and that name no more than follow_cap others.
Followees(e) == ToSet(e.tags) \ {e.pubkey}
Emitted ==
    {g \in UNION {Reference(WantKind, a) : a \in Requested} :
        Cardinality(Followees(g)) <= FollowCap}

\* What is resolved for one author was served, is genuine and not ahead of the clamp.
LEMMA ReferenceFacts ==
    ASSUME GateTyped, NEW kind, NEW a, NEW e \in Reference(kind, a)
    PROVE  /\ e \in ToSet(stream) /\ e \in Events /\ e \in Candidates(kind, a)
           /\ e.valid /\ e.kind = kind /\ e.pubkey = a
           /\ e.created_at <= Now + future_clamp_secs
<1>1. ToSet(stream) \subseteq Events
  BY DEF GateTyped, ToSet
<1> QED BY <1>1 DEF Reference, Candidates

\* The lists that ingest_events returns are those of the emitted events.
LEMMA ListsOfTheEmitted ==
    ASSUME GateTyped
    PROVE  ingest_events(stream) = {from_event(e, Followees(e)) : e \in Emitted}
<1> DEFINE W(a) == pick_winner(gated(stream, WantKind, Requested)[a])
           Out == {a \in Requested : W(a) # Null /\ followee_pubkeys(W(a)) # Null}
<1>1. ingest_events(stream) = {from_event(W(a), followee_pubkeys(W(a))) : a \in Out}
  BY DEF ingest_events
<1>2. ASSUME NEW a \in Requested
      PROVE  /\ {W(a)} \ {Null} = Reference(WantKind, a)
             /\ W(a) # Null => W(a) \in Candidates(WantKind, a) /\ W(a) \in Events
  BY GateIsReference DEF GateTyped
<1> HIDE DEF W
<1>3. ASSUME NEW e \in Events
      PROVE  /\ followee_pubkeys(e) # Null <=> Cardinality(Followees(e)) <= FollowCap
             /\ followee_pubkeys(e) # Null => followee_pubkeys(e) = Followees(e)
  <2>1. Followees(e) # Null
    <3>1. Followees(e) \in SUBSET ToSet(e.tags)
      BY DEF Followees
    <3> QED BY <3>1, IngestConstants
  <2>2. followee_pubkeys(e) =
           IF Cardinality(Followees(e)) > FollowCap THEN Null ELSE Followees(e)
    BY DEF followee_pubkeys, Followees
  <2>3. Cardinality(Followees(e)) \in Nat
    <3>1. IsFiniteSet(ToSet(e.tags))
      BY TagsAreFinite
    <3>2. IsFiniteSet(Followees(e))
      BY <3>1, FS_Subset DEF Followees
    <3> QED BY <3>2, FS_CardinalityType
  <2>4. FollowCap \in Nat
    BY IngestConstants
  <2>5. Cardinality(Followees(e)) > FollowCap <=> ~(Cardinality(Followees(e)) <= FollowCap)
    BY <2>3, <2>4
  <2> QED BY <2>1, <2>2, <2>5
<1>4. ASSUME NEW a \in Out
      PROVE  W(a) \in Emitted /\ followee_pubkeys(W(a)) = Followees(W(a))
  <2>1. W(a) \in Reference(WantKind, a) /\ W(a) \in Events
    BY <1>2
  <2> QED BY <1>3, <2>1 DEF Emitted
<1>5. ASSUME NEW e \in Emitted
      PROVE  \E a \in Out : W(a) = e /\ followee_pubkeys(W(a)) = Followees(e)
  <2>1. PICK a \in Requested : e \in Reference(WantKind, a)
    BY DEF Emitted
  <2>2. W(a) = e /\ W(a) # Null /\ e \in Events
    BY <1>2, <2>1
  <2>3. Cardinality(Followees(e)) <= FollowCap
    BY DEF Emitted
  <2> QED BY <1>3, <2>2, <2>3
<1> HIDE DEF Out
<1>6. \A l : l \in {from_event(W(a), followee_pubkeys(W(a))) : a \in Out}
         <=> l \in {from_event(e, Followees(e)) : e \in Emitted}
  BY <1>4, <1>5
<1> QED BY <1>1, <1>6

\* INGEST-01..05 where the stream is typed.
LEMMA GatedLists ==
    ASSUME GateTyped
    PROVE  IngestIsReference
<1> DEFINE V(l) == [id |-> l.id, follower |-> l.follower, followees |-> l.followees]
           U(e) == [id |-> e.id, follower |-> e.pubkey, followees |-> Followees(e)]
           L(e) == from_event(e, Followees(e))
<1>1. \A e : V(L(e)) = U(e)
  BY DEF from_event
<1> HIDE DEF V, U, L
<1>2. {V(l) : l \in {L(e) : e \in Emitted}} = {U(e) : e \in Emitted}
  BY <1>1
<1>3. ingest_events(stream) = {L(e) : e \in Emitted}
  BY ListsOfTheEmitted DEF L
<1>4. {V(l) : l \in ingest_events(stream)} = {U(e) : e \in Emitted}
  BY <1>2, <1>3
<1>5. Emitted = {g \in UNION {Reference(WantKind, a) : a \in Requested} :
                   Cardinality(ToSet(g.tags) \ {g.pubkey}) <= FollowCap}
  BY DEF Emitted, Followees
<1> QED BY <1>4, <1>5 DEF IngestIsReference, Followees, V, U

\* Below the last representable date the conversion is exact.
LEMMA DateIsExact ==
    ASSUME NEW e \in Events, e.created_at <= MaxDate
    PROVE  timestamp_to_datetime(e.created_at) = e.created_at
<1>1. /\ e.created_at \in Nat /\ Word \in Nat
      /\ MaxDate \in Nat /\ MaxDate < Word \div 2
  BY IngestConstants
<1> QED BY <1>1 DEF timestamp_to_datetime

\* Where the clamp keeps to those dates, a list carries the time of its event.
LEMMA EmittedDates ==
    ASSUME GateTyped, Now + future_clamp_secs <= MaxDate, NEW e \in Emitted
    PROVE  /\ from_event(e, Followees(e)).created_at = e.created_at
           /\ e \in ToSet(stream) /\ e.valid /\ e \in Events
<1>1. PICK a \in Requested : e \in Reference(WantKind, a)
  BY DEF Emitted
<1>2. e \in ToSet(stream) /\ e \in Events /\ e.valid
      /\ e.created_at <= Now + future_clamp_secs
  BY <1>1, ReferenceFacts
<1>3. /\ e.created_at \in Nat /\ Now \in Nat /\ future_clamp_secs \in Nat /\ MaxDate \in Nat
  BY <1>2, IngestConstants DEF GateTyped
<1>4. e.created_at <= MaxDate
  BY <1>2, <1>3
<1> QED BY <1>2, <1>4, DateIsExact DEF from_event

LEMMA DatedLists ==
    ASSUME GateTyped
    PROVE  EmittedTimeIsEventTime
<1> SUFFICES ASSUME Now + future_clamp_secs <= MaxDate, NEW l \in ingest_events(stream)
             PROVE  \E e \in ToSet(stream) :
                       e.id = l.id /\ e.valid /\ e.created_at = l.created_at
  BY DEF EmittedTimeIsEventTime
<1>1. PICK e \in Emitted : l = from_event(e, Followees(e))
  BY ListsOfTheEmitted
<1>2. l.created_at = e.created_at /\ e \in ToSet(stream) /\ e.valid
  BY <1>1, EmittedDates
<1>3. l.id = e.id
  BY <1>1 DEF from_event
<1> QED BY <1>2, <1>3

\* The same gate, asked for one author's relay list.
LEMMA GatedRelayList ==
    ASSUME GateTyped
    PROVE  /\ RelayListIsReference
           /\ resolve_relay_list(stream) # Null =>
                 resolve_relay_list(stream) \in {e \in Events : e.kind = RelayList}
<1> DEFINE w == resolve_relay_list(stream)
<1>1. /\ {w} \ {Null} = Reference(RelayList, Author)
      /\ w # Null => w \in Candidates(RelayList, Author) /\ w \in Events
  BY GateIsReference DEF GateTyped, resolve_relay_list
<1> QED BY <1>1 DEF RelayListIsReference, Candidates

-----------------------------------------------------------------------------
(* The gate, at every moment of a fetch *)

\* Served events come one by one; the stream ends with the fetch or with a failure.
LEMMA StreamStep ==
    ASSUME GateTyped, [Next]_vars
    PROVE  /\ GateTyped' /\ future_clamp_secs' = future_clamp_secs
           /\ \/ stream' = stream
              \/ stream' = <<>>
              \/ \E e \in Events : stream' = Append(stream, e)
<1>1. CASE Gather
  <2>1. PICK e \in Events : Deliver(e)
    BY <1>1 DEF Gather
  <2>2. Append(stream, e) \in Seq(Events)
    BY DEF GateTyped
  <2> QED BY <2>1, <2>2 DEF Deliver, GateTyped
<1>2. CASE Lookup \/ DeleteRows \/ InsertRow \/ CommitList \/ Reread \/ UNCHANGED vars
  <2>1. UNCHANGED <<stream, future_clamp_secs>>
    BY <1>2 DEF Lookup, DeleteRows, InsertRow, CommitList, Reread, vars
  <2> QED BY <2>1 DEF GateTyped
<1>3. CASE Resolve \/ FetchFails \/ Routed \/ Fail
  <2>1. stream' = <<>> /\ future_clamp_secs' = future_clamp_secs
    BY <1>3 DEF Resolve, FetchFails, Routed, Fail, Reset
  <2>2. <<>> \in Seq(Events)
    OBVIOUS
  <2> QED BY <2>1, <2>2 DEF GateTyped
<1> QED BY <1>1, <1>2, <1>3 DEF Next

THEOREM GateTypedInvariant == Spec => []GateTyped
<1>1. Init => GateTyped
  <2>1. <<>> \in Seq(Events)
    OBVIOUS
  <2> QED BY <2>1 DEF Init, IngestInit, GateTyped
<1>2. GateTyped /\ [Next]_vars => GateTyped'
  BY StreamStep
<1> QED BY <1>1, <1>2, PTL DEF Spec

\* INGEST-01..05: for every stream, of any length, order and origin, the emitted lists
\* are those of the newest genuine events.
THEOREM NewestWins == Spec => []IngestIsReference
<1>1. GateTyped => IngestIsReference
  BY GatedLists
<1> QED BY <1>1, GateTypedInvariant, PTL

\* The clamp keeps the timestamp conversion exact.
THEOREM TimesAreExact == Spec => []EmittedTimeIsEventTime
<1>1. GateTyped => EmittedTimeIsEventTime
  BY DatedLists
<1> QED BY <1>1, GateTypedInvariant, PTL

\* INGEST-01..05 for relay lists.
THEOREM NewestRelayListWins == Spec => []RelayListIsReference
<1>1. GateTyped => RelayListIsReference
  BY GatedRelayList
<1> QED BY <1>1, GateTypedInvariant, PTL

\* Every emitted list belongs to a winner of its author's, and there is one winner.
ListsAreDated ==
    Now + future_clamp_secs <= MaxDate =>
        \A l \in ingest_events(stream) :
            \E e \in Reference(WantKind, l.follower) :
                l.follower \in Requested /\ l.created_at = e.created_at

LEMMA ListsCarryDates ==
    ASSUME GateTyped
    PROVE  ListsAreDated
<1> SUFFICES ASSUME Now + future_clamp_secs <= MaxDate, NEW l \in ingest_events(stream)
             PROVE  \E e \in Reference(WantKind, l.follower) :
                       l.follower \in Requested /\ l.created_at = e.created_at
  BY DEF ListsAreDated
<1>1. PICK e \in Emitted : l = from_event(e, Followees(e))
  BY ListsOfTheEmitted
<1>2. PICK a \in Requested : e \in Reference(WantKind, a)
  BY <1>1 DEF Emitted
<1>3. e.pubkey = a /\ l.created_at = e.created_at
  BY <1>1, <1>2, EmittedDates, ReferenceFacts
<1>4. l.follower = a
  BY <1>1, <1>3 DEF from_event
<1> QED BY <1>2, <1>3, <1>4

\* A longer stream has all the candidates of a shorter one.
LEMMA ListsAdvance ==
    ASSUME GateTyped, GateTyped', ListsAreDated, ListsAreDated', [Next]_vars,
           Now + future_clamp_secs <= MaxDate,
           NEW l \in ingest_events(stream), NEW m \in ingest_events(stream)',
           l.follower = m.follower
    PROVE  m.created_at >= l.created_at
<1>1. PICK e \in Reference(WantKind, l.follower) :
          l.follower \in Requested /\ l.created_at = e.created_at
  BY DEF ListsAreDated
<1>2. future_clamp_secs' = future_clamp_secs
  BY StreamStep
<1>3. PICK f \in Reference(WantKind, m.follower)' : m.created_at = f.created_at
  BY <1>2 DEF ListsAreDated
<1>4. e \in Candidates(WantKind, l.follower) /\ f \in Candidates(WantKind, m.follower)'
  BY <1>1, <1>3 DEF Reference
<1>5. e \in ToSet(stream')
  <2>1. CASE stream' = stream
    BY <1>4, <2>1 DEF Candidates
  <2>2. CASE stream' = <<>>
    <3>1. ToSet(<<>>) = {}
      BY DEF ToSet
    <3> QED BY <1>4, <2>2, <3>1 DEF Candidates
  <2>3. ASSUME NEW g \in Events, stream' = Append(stream, g) PROVE e \in ToSet(stream')
    <3>1. ToSet(stream') = ToSet(stream) \cup {g}
      BY <2>3, AppendToSet DEF GateTyped
    <3> QED BY <1>4, <3>1 DEF Candidates
  <2> QED BY <2>1, <2>2, <2>3, StreamStep
<1>6. e \in Candidates(WantKind, m.follower)'
  BY <1>2, <1>4, <1>5 DEF Candidates
<1>7. f.created_at > e.created_at \/ f.created_at = e.created_at \/ ~(f.created_at \in Int)
      \/ ~(e.created_at \in Int)
  BY <1>3, <1>6 DEF Reference
<1>8. e.created_at \in Nat /\ f.created_at \in Nat
  <2>1. ToSet(stream) \subseteq Events /\ ToSet(stream') \subseteq Events
    BY DEF GateTyped, ToSet
  <2> QED BY <1>4, <2>1, IngestConstants DEF Candidates
<1> QED BY <1>1, <1>3, <1>7, <1>8

\* Newest-wins over the union: no further event makes an author's list older.
THEOREM ListsNeverGoBack == Spec => ListsOnlyAdvance
<1>1. GateTyped => ListsAreDated
  BY ListsCarryDates
<1>2. GateTyped /\ GateTyped' /\ ListsAreDated /\ ListsAreDated' /\ [Next]_vars =>
         [\A l \in ingest_events(stream), m \in ingest_events(stream') :
             l.follower = m.follower /\ Now + future_clamp_secs <= MaxDate =>
                 m.created_at >= l.created_at]_ingestVars
  <2> SUFFICES ASSUME GateTyped, GateTyped', ListsAreDated, ListsAreDated', [Next]_vars,
                      NEW l \in ingest_events(stream), NEW m \in ingest_events(stream'),
                      l.follower = m.follower, Now + future_clamp_secs <= MaxDate
               PROVE  m.created_at >= l.created_at
    OBVIOUS
  <2>1. future_clamp_secs' = future_clamp_secs
    BY StreamStep
  <2>2. cutoff' = cutoff
    BY <2>1 DEF cutoff
  <2>3. ingest_events(stream)' = ingest_events(stream')
    BY <2>2 DEF ingest_events, pick_winner, better
  <2> QED BY <2>3, ListsAdvance
<1> QED BY <1>1, <1>2, GateTypedInvariant, PTL DEF Spec, ListsOnlyAdvance

-----------------------------------------------------------------------------
(* The rows of a relay list *)

RelayListEvents == {e \in Events : e.kind = RelayList}

\* Which of the first k tags name their url for the first time, and the rows they leave.
FirstOf(e, k) ==
    {n \in 1..k : \A m \in 1..(n - 1) : e.tags[m].url # e.tags[n].url}
RowOf(e, n) == [url |-> e.tags[n].url, marker |-> marker_of(e.tags[n].meta)]
RowsUpTo(e, k) == {RowOf(e, n) : n \in FirstOf(e, k)}

\* The pairs that are left after k of them.
PairsFrom(e, k) == [n \in 1..(Len(e.tags) - k) |-> RowOf(e, n + k)]

\* Every url has a tag that names it first.
LEMMA FirstNaming ==
    ASSUME NEW e, NEW k \in Nat, NEW n \in 1..k
    PROVE  \E m \in FirstOf(e, k) : m <= n /\ e.tags[m].url = e.tags[n].url
<1> DEFINE T == {m \in 1..k : e.tags[m].url = e.tags[n].url}
<1>1. T \subseteq Nat /\ n \in T
  OBVIOUS
<1>2. PICK m \in T : \A i \in T : m <= i
  BY <1>1, LeastNumber
<1>3. m \in 1..k /\ e.tags[m].url = e.tags[n].url /\ m <= n
  BY <1>1, <1>2
<1>4. ASSUME NEW i \in 1..(m - 1) PROVE e.tags[i].url # e.tags[m].url
  <2>1. i \in 1..k /\ ~(m <= i)
    BY <1>3
  <2>2. i \notin T
    BY <1>2, <2>1
  <2> QED BY <1>3, <2>1, <2>2
<1>5. m \in FirstOf(e, k)
  BY <1>3, <1>4 DEF FirstOf
<1> QED BY <1>3, <1>5

\* The insertion that does nothing on a conflict: one more pair.
LEMMA OneMorePair ==
    ASSUME NEW e, NEW k \in Nat
    PROVE  RowsUpTo(e, k + 1) =
              IF \E r \in RowsUpTo(e, k) : r.url = RowOf(e, k + 1).url
              THEN RowsUpTo(e, k) ELSE RowsUpTo(e, k) \cup {RowOf(e, k + 1)}
<1>1. \A n : RowOf(e, n).url = e.tags[n].url
  BY DEF RowOf
<1>2. \A n \in FirstOf(e, k + 1) : n \in FirstOf(e, k) \/ n = k + 1
  BY DEF FirstOf
<1>3. \A n \in FirstOf(e, k) : n \in FirstOf(e, k + 1)
  BY DEF FirstOf
<1>4. CASE \E r \in RowsUpTo(e, k) : r.url = RowOf(e, k + 1).url
  <2>1. PICK n \in FirstOf(e, k) : e.tags[n].url = e.tags[k + 1].url
    BY <1>1, <1>4 DEF RowsUpTo
  <2>2. n \in 1..((k + 1) - 1)
    BY DEF FirstOf
  <2>3. k + 1 \notin FirstOf(e, k + 1)
    BY <2>1, <2>2 DEF FirstOf
  <2>4. FirstOf(e, k + 1) = FirstOf(e, k)
    BY <1>2, <1>3, <2>3
  <2> QED BY <1>4, <2>4 DEF RowsUpTo
<1>5. CASE ~\E r \in RowsUpTo(e, k) : r.url = RowOf(e, k + 1).url
  <2>1. ASSUME NEW m \in 1..k PROVE e.tags[m].url # e.tags[k + 1].url
    <3>1. PICK n \in FirstOf(e, k) : e.tags[n].url = e.tags[m].url
      BY FirstNaming
    <3>2. RowOf(e, n) \in RowsUpTo(e, k)
      BY DEF RowsUpTo
    <3> QED BY <1>1, <1>5, <3>1, <3>2
  <2>2. k + 1 \in FirstOf(e, k + 1)
    <3>1. k + 1 \in 1..(k + 1) /\ (k + 1) - 1 = k
      OBVIOUS
    <3> QED BY <2>1, <3>1 DEF FirstOf
  <2>3. FirstOf(e, k + 1) = FirstOf(e, k) \cup {k + 1}
    BY <1>2, <1>3, <2>2
  <2> QED BY <1>5, <2>3 DEF RowsUpTo
<1> QED BY <1>4, <1>5

\* All the pairs of an event, as extracted, and their rows.
LEMMA TagFacts ==
    ASSUME NEW e \in RelayListEvents
    PROVE  /\ Len(e.tags) \in Nat /\ DOMAIN e.tags = 1..Len(e.tags)
           /\ extract_relay_pairs(e) = PairsFrom(e, 0)
           /\ \A n \in 1..Len(e.tags) : e.tags[n].meta \in {"read", "write", Null}
<1>1. e \in Events /\ e.kind = RelayList
  BY DEF RelayListEvents
<1>2. Len(e.tags) \in Nat /\ DOMAIN e.tags = 1..Len(e.tags)
  BY <1>1, TagsAreFinite
<1>3. \A n \in 1..Len(e.tags) : e.tags[n].meta \in {"read", "write", Null}
  BY <1>1, <1>2, RelayListConstants
<1>4. extract_relay_pairs(e) = [n \in 1..Len(e.tags) |-> RowOf(e, n)]
  BY <1>2 DEF extract_relay_pairs, RowOf
<1>5. PairsFrom(e, 0) = [n \in 1..Len(e.tags) |-> RowOf(e, n)]
  <2>1. Len(e.tags) - 0 = Len(e.tags) /\ \A n \in 1..Len(e.tags) : n + 0 = n
    BY <1>2
  <2> QED BY <2>1 DEF PairsFrom
<1> QED BY <1>2, <1>3, <1>4, <1>5

\* Taking the first of the pairs that are left.
LEMMA NextPair ==
    ASSUME NEW e, Len(e.tags) \in Nat, NEW k \in 0..Len(e.tags),
           NEW left, left = PairsFrom(e, k)
    PROVE  /\ left = <<>> <=> k = Len(e.tags)
           /\ left # <<>> => /\ k + 1 \in 0..Len(e.tags)
                             /\ Head(left) = RowOf(e, k + 1)
                             /\ Tail(left) = PairsFrom(e, k + 1)
<1> DEFINE L == Len(e.tags) - k
           T == {RowOf(e, n) : n \in Nat}
<1>1. L \in Nat
  OBVIOUS
<1>2. /\ left = [n \in 1..L |-> RowOf(e, n + k)]
      /\ \A n \in 1..L : RowOf(e, n + k) \in T
  BY DEF PairsFrom
<1> HIDE DEF T
<1>3. left \in Seq(T) /\ Len(left) = L
  <2> HIDE DEF L
  <2> QED BY <1>1, <1>2
<1>4. left = <<>> <=> k = Len(e.tags)
  BY <1>3
<1>5. ASSUME left # <<>>
      PROVE  /\ k + 1 \in 0..Len(e.tags)
             /\ Head(left) = RowOf(e, k + 1) /\ Tail(left) = PairsFrom(e, k + 1)
  <2>1. k + 1 \in 0..Len(e.tags) /\ 1 \in 1..L /\ 1 + k = k + 1
    BY <1>4, <1>5
  <2>2. Head(left) = RowOf(e, k + 1)
    <3>1. Head(left) = left[1]
      BY <1>3, <1>5
    <3> QED BY <1>2, <2>1, <3>1
  <2>3. Tail(left) = [n \in 1..(L - 1) |-> left[n + 1]]
    <3> HIDE DEF L
    <3>1. /\ Tail(left) \in Seq(T) /\ Len(Tail(left)) = L - 1
          /\ \A n \in 1..Len(Tail(left)) : Tail(left)[n] = left[n + 1]
      BY <1>3, <1>5, HeadTailProperties
    <3>2. PICK t : t = Tail(left)
      OBVIOUS
    <3>3. t \in Seq(T) /\ Len(t) = L - 1
      BY <3>1, <3>2
    <3>4. t \in [1..(L - 1) -> T]
      BY <3>3, LenProperties
    <3>5. \A n \in 1..(L - 1) : t[n] = left[n + 1]
      BY <3>1, <3>2
    <3> QED BY <3>2, <3>4, <3>5
  <2>4. ASSUME NEW n \in 1..(L - 1) PROVE left[n + 1] = RowOf(e, n + (k + 1))
    <3>1. n + 1 \in 1..L /\ (n + 1) + k = n + (k + 1)
      BY <1>1
    <3> QED BY <1>2, <3>1
  <2>5. L - 1 = Len(e.tags) - (k + 1)
    BY <2>1
  <2> HIDE DEF L
  <2>6. Tail(left) = [n \in 1..(L - 1) |-> RowOf(e, n + (k + 1))]
    BY <2>3, <2>4
  <2>7. Tail(left) = PairsFrom(e, k + 1)
    BY <2>5, <2>6 DEF PairsFrom
  <2> QED BY <2>1, <2>2, <2>7
<1> QED BY <1>4, <1>5

-----------------------------------------------------------------------------
(* The store *)

\* The committed rows are those of one whole list; the open transaction holds those of
\* the pairs inserted so far; what a recovery routes to is what is stored.
StoreHolds ==
    /\ pc \in {"idle", "fetch", "begin", "insert", "reread", "route"}
    /\ \/ applied = Null /\ rows = {}
       \/ /\ applied \in RelayListEvents
          /\ rows = RowsUpTo(applied, Len(applied.tags))
    /\ pc \in {"begin", "insert"} => winner \in RelayListEvents
    /\ pc = "begin" => pairs = PairsFrom(winner, 0)
    /\ pc = "insert" => \E k \in 0..Len(winner.tags) :
                           pairs = PairsFrom(winner, k) /\ tx = RowsUpTo(winner, k)
    /\ pc = "route" => found = lookup_write_relays

\* Every step of a recovery keeps the rows those of one list.
LEMMA StoreStep ==
    ASSUME GateTyped, StoreHolds, [Next]_vars
    PROVE  StoreHolds'
<1> USE DEF StoreHolds
<1>0. ASSUME rows' = rows PROVE lookup_write_relays' = lookup_write_relays
  BY <1>0 DEF lookup_write_relays
<1>1. CASE Lookup
  BY <1>0, <1>1 DEF Lookup
<1>2. CASE Gather
  BY <1>0, <1>2 DEF Gather, recoverVars
<1>3. CASE Resolve
  <2>1. PICK w : w = resolve_relay_list(stream)
    OBVIOUS
  <2>2. /\ pc = "fetch" /\ winner' = w /\ UNCHANGED <<rows, tx, found, applied>>
        /\ pc' = IF w # Null THEN "begin" ELSE "reread"
        /\ pairs' = IF w # Null THEN extract_relay_pairs(w) ELSE <<>>
    BY <1>3, <2>1 DEF Resolve
  <2>3. w # Null => w \in RelayListEvents
    BY <2>1, GatedRelayList DEF RelayListEvents
  <2>4. w # Null => extract_relay_pairs(w) = PairsFrom(w, 0)
    BY <2>3, TagFacts
  <2> QED BY <1>0, <2>2, <2>3, <2>4
<1>4. CASE FetchFails
  BY <1>0, <1>4 DEF FetchFails
<1>5. CASE DeleteRows
  <2>1. /\ pc = "begin" /\ pc' = "insert" /\ tx' = {}
        /\ UNCHANGED <<rows, pairs, found, winner, applied>>
    BY <1>5 DEF DeleteRows, statement
  <2>2. 0 \in 0..Len(winner.tags)
    BY <2>1, TagFacts
  <2>3. RowsUpTo(winner, 0) = {}
    BY DEF RowsUpTo, FirstOf
  <2> QED BY <1>0, <2>1, <2>2, <2>3
<1>6. CASE InsertRow
  <2>1. /\ pc = "insert" /\ pairs # <<>> /\ pairs' = Tail(pairs)
        /\ tx' = IF \E r \in tx : r.url = Head(pairs).url THEN tx ELSE tx \cup {Head(pairs)}
        /\ UNCHANGED <<rows, found, pc, winner, applied>>
    BY <1>6 DEF InsertRow, statement
  <2>2. PICK k \in 0..Len(winner.tags) :
           pairs = PairsFrom(winner, k) /\ tx = RowsUpTo(winner, k)
    BY <2>1
  <2>3. Len(winner.tags) \in Nat /\ k \in Nat
    BY <2>1, TagFacts
  <2>4. /\ k + 1 \in 0..Len(winner.tags) /\ Head(pairs) = RowOf(winner, k + 1)
        /\ Tail(pairs) = PairsFrom(winner, k + 1)
    BY <2>1, <2>2, <2>3, NextPair
  <2>5. tx' = RowsUpTo(winner, k + 1)
    <3>1. RowsUpTo(winner, k + 1) =
             IF \E r \in RowsUpTo(winner, k) : r.url = RowOf(winner, k + 1).url
             THEN RowsUpTo(winner, k) ELSE RowsUpTo(winner, k) \cup {RowOf(winner, k + 1)}
      BY <2>3, OneMorePair
    <3> QED BY <2>1, <2>2, <2>4, <3>1
  <2> QED BY <1>0, <2>1, <2>4, <2>5
<1>7. CASE CommitList
  <2>1. /\ pc = "insert" /\ pairs = <<>> /\ rows' = tx /\ applied' = winner
        /\ pc' = "reread" /\ UNCHANGED <<tx, pairs, found, winner>>
    BY <1>7 DEF CommitList
  <2>2. PICK k \in 0..Len(winner.tags) :
           pairs = PairsFrom(winner, k) /\ tx = RowsUpTo(winner, k)
    BY <2>1
  <2>3. k = Len(winner.tags)
    BY <2>1, <2>2, TagFacts, NextPair
  <2> QED BY <2>1, <2>2, <2>3
<1>8. CASE Reread
  BY <1>0, <1>8 DEF Reread
<1>9. CASE Routed \/ Fail
  BY <1>0, <1>9 DEF Routed, Fail, Reset
<1>10. CASE UNCHANGED vars
  BY <1>0, <1>10 DEF vars
<1> QED BY <1>1, <1>2, <1>3, <1>4, <1>5, <1>6, <1>7, <1>8, <1>9, <1>10 DEF Next

THEOREM StoreInvariant == Spec => []StoreHolds
<1>1. Init => StoreHolds
  BY DEF Init, StoreHolds
<1>2. GateTyped /\ StoreHolds /\ [Next]_vars => StoreHolds'
  BY StoreStep
<1> QED BY <1>1, <1>2, GateTypedInvariant, PTL DEF Spec

\* The rows of a whole list are one for each advertised url.
LEMMA RowsOfAList ==
    ASSUME NEW e \in RelayListEvents, NEW R, R = RowsUpTo(e, Len(e.tags))
    PROVE  /\ {r.url : r \in R} = Advertised(e)
           /\ Cardinality(R) = Cardinality(Advertised(e))
<1> DEFINE L == Len(e.tags)
           F == FirstOf(e, L)
<1>1. L \in Nat /\ DOMAIN e.tags = 1..L
  BY TagFacts
<1>2. F \subseteq 1..L /\ \A m, n \in F : e.tags[m].url = e.tags[n].url => m = n
  <2>1. ASSUME NEW m \in F, NEW n \in F, m < n PROVE e.tags[m].url # e.tags[n].url
    <3>1. m \in 1..(n - 1)
      BY <2>1 DEF FirstOf
    <3> QED BY <3>1 DEF FirstOf
  <2>2. F \subseteq 1..L
    BY DEF FirstOf
  <2> HIDE DEF F
  <2> QED BY <1>1, <2>1, <2>2
<1>3. \A n \in 1..L : \E m \in F : e.tags[m].url = e.tags[n].url
  BY <1>1, FirstNaming
<1> HIDE DEF F, L
<1>4. R = {RowOf(e, n) : n \in F} /\ \A n : RowOf(e, n).url = e.tags[n].url
  BY DEF RowsUpTo, RowOf, F, L
<1>5. Advertised(e) = {e.tags[n].url : n \in 1..L}
  BY <1>1 DEF Advertised
<1>6. \A u : u \in {r.url : r \in R} <=> u \in Advertised(e)
  BY <1>2, <1>3, <1>4, <1>5
<1>7. IsFiniteSet(R)
  <2> DEFINE g == [n \in F |-> RowOf(e, n)]
  <2>1. IsFiniteSet(F)
    <3>1. IsFiniteSet(1..L)
      BY <1>1, FS_Interval
    <3> QED BY <1>2, <3>1, FS_Subset
  <2>2. g \in Surjection(F, R)
    BY <1>4 DEF Surjection
  <2> HIDE DEF g
  <2> QED BY <2>1, <2>2, FS_Surjection
<1>8. \A r, s \in R : r.url = s.url => r = s
  BY <1>2, <1>4
<1>9. Cardinality(R) = Cardinality(Advertised(e))
  <2> DEFINE f == [r \in R |-> r.url]
  <2>1. f \in Surjection(R, Advertised(e))
    BY <1>6 DEF Surjection
  <2>2. f \in Injection(R, Advertised(e))
    BY <1>8, <2>1 DEF Injection, Surjection, IsInjective
  <2> HIDE DEF f
  <2> QED BY <1>7, <2>1, <2>2, FS_Surjection
<1> QED BY <1>6, <1>9

\* Looked up, they are the relays that the list names for writing.
LEMMA WritersOfAList ==
    ASSUME NEW e \in RelayListEvents, rows = RowsUpTo(e, Len(e.tags))
    PROVE  lookup_write_relays = WritesTo(e)
<1> DEFINE L == Len(e.tags)
           F == FirstOf(e, L)
           U(n) == e.tags[n].url
<1>1. L \in Nat /\ DOMAIN e.tags = 1..L
      /\ \A n \in 1..L : e.tags[n].meta \in {"read", "write", Null}
  BY TagFacts
<1>2. ASSUME NEW n \in F
      PROVE  /\ n \in 1..L
             /\ FirstMeta(e, U(n)) = e.tags[n].meta
  <2>1. n \in 1..L /\ \A m \in 1..(n - 1) : U(m) # U(n)
    BY DEF FirstOf
  <2>2. ASSUME NEW m \in 1..L, U(m) = U(n), \A i \in 1..(m - 1) : U(i) # U(n)
        PROVE  m = n
    <3>1. m \notin 1..(n - 1)
      BY <2>1, <2>2
    <3>2. n \notin 1..(m - 1)
      BY <2>2
    <3> QED BY <1>1, <2>1, <3>1, <3>2
  <2>3. n = CHOOSE m \in DOMAIN e.tags :
               /\ e.tags[m].url = U(n)
               /\ \A i \in 1..(m - 1) : e.tags[i].url # U(n)
    BY <1>1, <2>1, <2>2
  <2> QED BY <2>1, <2>3 DEF FirstMeta
<1>3. \A n \in 1..L : \E m \in F : U(m) = U(n)
  BY <1>1, FirstNaming
<1> HIDE DEF F, L
<1>4. /\ rows = {RowOf(e, n) : n \in F}
      /\ \A n : RowOf(e, n).url = e.tags[n].url
      /\ \A n : RowOf(e, n).marker = marker_of(e.tags[n].meta)
  BY DEF RowsUpTo, RowOf, F, L
<1>5. \A n \in F : RowOf(e, n).marker \in {"write", "both"} <=> FirstMeta(e, U(n)) # "read"
  <2>1. Null # "read" /\ Null # "write"
    BY RelayListConstants
  <2>2. ASSUME NEW n \in F
        PROVE  marker_of(e.tags[n].meta) \in {"write", "both"} <=> e.tags[n].meta # "read"
    <3>1. e.tags[n].meta \in {"read", "write", Null}
      BY <1>1, <1>2
    <3> QED BY <2>1, <3>1 DEF marker_of
  <2> QED BY <1>2, <1>4, <2>2
<1>6. \A u : u \in lookup_write_relays <=> \E n \in F : u = U(n) /\ FirstMeta(e, U(n)) # "read"
  BY <1>4, <1>5 DEF lookup_write_relays
<1>7. \A u : u \in WritesTo(e) <=> \E n \in 1..L : u = U(n) /\ FirstMeta(e, U(n)) # "read"
  BY <1>1 DEF WritesTo, Advertised
<1>8. \A u : u \in lookup_write_relays <=> u \in WritesTo(e)
  BY <1>2, <1>3, <1>6, <1>7
<1> QED BY <1>8 DEF lookup_write_relays, WritesTo

\* A half-applied relay list is never committed: the stored rows are, url by url, those
\* of one list of the author's, whatever fails in between and however often a url is
\* repeated.
THEOREM OneWholeList == Spec => []OneListStored
<1>1. StoreHolds => OneListStored
  <2> SUFFICES ASSUME StoreHolds PROVE OneListStored
    OBVIOUS
  <2>1. CASE applied = Null /\ rows = {}
    BY <2>1 DEF OneListStored
  <2>2. CASE applied \in RelayListEvents /\ rows = RowsUpTo(applied, Len(applied.tags))
    <3>1. applied # Null
      BY <2>2, IngestConstants DEF RelayListEvents
    <3> QED BY <2>2, <3>1, RowsOfAList DEF OneListStored
  <2> QED BY <2>1, <2>2 DEF StoreHolds
<1> QED BY <1>1, StoreInvariant, PTL

\* The write relays stored are those of the applied list.
LEMMA StoredWriters ==
    ASSUME StoreHolds
    PROVE  lookup_write_relays = IF applied = Null THEN {} ELSE WritesTo(applied)
<1>1. CASE applied = Null /\ rows = {}
  BY <1>1 DEF lookup_write_relays
<1>2. CASE applied \in RelayListEvents /\ rows = RowsUpTo(applied, Len(applied.tags))
  <2>1. applied # Null
    BY <1>2, IngestConstants DEF RelayListEvents
  <2> QED BY <1>2, <2>1, WritersOfAList
<1> QED BY <1>1, <1>2 DEF StoreHolds

\* The fallback asks the write relays of the stored list, all of them and no other.
THEOREM RoutesAreTheWriters == Spec => []RoutesToWriteRelays
<1>1. StoreHolds => RoutesToWriteRelays
  BY StoredWriters DEF StoreHolds, RoutesToWriteRelays
<1> QED BY <1>1, StoreInvariant, PTL
=============================================================================
