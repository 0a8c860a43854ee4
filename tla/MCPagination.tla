----------------------------- MODULE MCPagination -----------------------------
(* Pagination over one relay, and over a dense relay beside a sparse one. *)
EXTENDS Pagination

CONSTANTS alice, bob, carol, dave, r1, r2

Ev(author, at) == [author |-> author, at |-> at]
MCEvents == {Ev(alice, 1), Ev(alice, 2), Ev(bob, 1), Ev(bob, 2), Ev(carol, 1), Ev(dave, 2)}
FewEvents == {Ev(alice, 1), Ev(bob, 2), Ev(carol, 3), Ev(dave, 3)}
OneChunk  == <<{alice, bob, carol, dave}>>
TwoChunks == <<{alice, bob, carol}, {dave}>>
EvenLimits == [r \in Pool |-> 2]
=============================================================================
