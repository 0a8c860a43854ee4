------------------------------- MODULE MCDaemon -------------------------------
(* Daemon on two keys, with a good configuration, four bad ones, and one whose timers *)
(* panic although validate accepts it.                                                *)
EXTENDS Daemon

CONSTANTS alice, bob, t1, t2

MCLists == {[id |-> 1, follower |-> alice, created_at |-> 1, followees |-> {bob}],
            [id |-> 2, follower |-> alice, created_at |-> 2, followees |-> {}]}

Good == [relays |-> 1, concurrency |-> 1, batch_size |-> 1, reqs_per_second |-> 1,
         per_relay_concurrency |-> 1, staleness_scan_interval |-> 1,
         reclaim_interval |-> 1, progress_interval |-> 1]
MCConfigs ==
    {Good, [Good EXCEPT !.concurrency = 0], [Good EXCEPT !.reqs_per_second = 0],
     [Good EXCEPT !.batch_size = -1], [Good EXCEPT !.per_relay_concurrency = 0],
     [Good EXCEPT !.staleness_scan_interval = 0, !.progress_interval = 0]}
=============================================================================
