------------------------------ MODULE MCIngest ------------------------------
(* Two requested authors; a tie, a forged copy, an unsolicited author, another  *)
(* kind, an oversized list and future dates up to the end of the word; relay    *)
(* lists with a repeated url, without write relays, empty and forged.           *)
EXTENDS RelayLists

CONSTANTS alice, bob, xavier, x1, x2

Ev(id, pubkey, at, tags) ==
    [id |-> id, valid |-> TRUE, kind |-> 3, pubkey |-> pubkey,
     created_at |-> at, tags |-> tags]

R(url, meta) == [url |-> url, meta |-> meta]
Relays(id, at, tags) == [Ev(id, alice, at, tags) EXCEPT !.kind = 10002]

MCRelayLists ==
    {Relays(21, 1, <<R(x1, "read"), R(x2, "read"), R(x1, Null)>>),
     Relays(22, 2, <<R(x1, Null), R(x2, "read"), R(x1, "read")>>),
     Relays(23, 3, <<R(x2, "write"), R(x1, "read")>>), Relays(24, 3, <<>>),
     [Relays(23, 3, <<R(x1, "write")>>) EXCEPT !.valid = FALSE]}

MCEvents == MCRelayLists \cup
    {Ev(1, alice, 2, <<bob, bob, alice>>), Ev(2, alice, 2, <<xavier>>), Ev(3, alice, 1, <<bob>>),
     Ev(4, alice, 4, <<>>), Ev(5, alice, 5, <<xavier>>), Ev(6, alice, 15, <<bob>>),
     Ev(7, bob, 3, <<alice, xavier>>), Ev(8, xavier, 3, <<alice>>),
     [Ev(1, alice, 2, <<xavier>>) EXCEPT !.valid = FALSE],
     [Ev(9, bob, 4, <<>>) EXCEPT !.kind = 10002]}
=============================================================================
