------------------------------- MODULE Frontier -------------------------------
(****************************************************************************)
(* What the crawl promises of the follow graph, whatever runs it: a queue   *)
(* of keys under exclusive leases.  A key is met once, leased to one holder *)
(* at a time, and its out-edges change only while it is held, in one step,  *)
(* to the edges of one list its author signed, between keys that are known. *)
(* A lease whose holder is gone is an orphan until it is reclaimed.         *)
(*                                                                          *)
(* RunCrawl and DaemonLoop implement this specification.                    *)
(****************************************************************************)
EXTENDS FiniteSets

CONSTANTS
    Keys,        \* the public keys that may ever be met
    Offered,     \* key |-> the sets of followees, each a set of keys, that its
                 \*   lists may carry
    Refreshing   \* a Boolean: whether resolved keys may be opened again

VARIABLES
    phase,   \* key |-> "unknown", "open", "held", "orphan" or "done"
    graph    \* key |-> its stored followees

fvars == <<phase, graph>>

Known == {k \in Keys : phase[k] # "unknown"}

Init ==
    /\ phase = [k \in Keys |-> "unknown"]
    /\ graph = [k \in Keys |-> {}]

In(p) == {k \in Keys : phase[k] = p}

\* Some of the keys in phase `from` enter phase `to`.
Move(S, to) == phase' = [k \in Keys |-> IF k \in S THEN to ELSE phase[k]]

Discover == \E k \in In("unknown") : Move({k}, "open") /\ UNCHANGED graph
Lease    == \E S \in SUBSET In("open") : Move(S, "held") /\ UNCHANGED graph
Release  == \E k \in In("held") : Move({k}, "open") /\ UNCHANGED graph

\* Resolved without new edges: no list, the known list, or no attempts left.
Settle == \E k \in In("held") : Move({k}, "done") /\ UNCHANGED graph

\* Resolved with the edges of one list, all at once.
Publish ==
    \E k \in In("held") : \E followees \in Offered[k] :
        /\ followees \subseteq Known
        /\ Move({k}, "done")
        /\ graph' = [graph EXCEPT ![k] = followees]

\* The holder of the keys is gone.
Abandon == \E S \in SUBSET In("held") : Move(S, "orphan") /\ UNCHANGED graph
Reclaim == \E S \in SUBSET In("orphan") : Move(S, "open") /\ UNCHANGED graph

Expire ==
    /\ Refreshing
    /\ \E S \in SUBSET In("done") : Move(S, "open") /\ UNCHANGED graph

Next ==
    \/ Discover \/ Lease \/ Release \/ Settle \/ Publish
    \/ Abandon \/ Reclaim \/ Expire

Spec == Init /\ [][Next]_fvars
=============================================================================
