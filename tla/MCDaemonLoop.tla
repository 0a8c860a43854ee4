----------------------------- MODULE MCDaemonLoop -----------------------------
(* DaemonLoop on two keys; the anchor has an old and a new list. *)
EXTENDS DaemonLoop, TLC

CONSTANTS alice, bob, t1, t2, t3

MCLists == {[id |-> 1, follower |-> alice, created_at |-> 1, followees |-> {bob}],
            [id |-> 2, follower |-> alice, created_at |-> 2, followees |-> {}]}
TaskSymmetry == Permutations({t1, t2, t3})
=============================================================================
