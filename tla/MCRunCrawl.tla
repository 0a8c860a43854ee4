------------------------------ MODULE MCRunCrawl ------------------------------
(* RunCrawl on two keys that follow each other; the anchor has a second list. *)
EXTENDS RunCrawl, TLC

CONSTANTS alice, bob, t1, t2, t3

MCLists == {[id |-> 1, follower |-> alice, created_at |-> 1, followees |-> {bob}],
            [id |-> 2, follower |-> alice, created_at |-> 2, followees |-> {alice, bob}],
            [id |-> 3, follower |-> bob, created_at |-> 1, followees |-> {alice}]}
=============================================================================
