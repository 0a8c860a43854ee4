---------------------------- MODULE MCPoliteness ----------------------------
(* Two tasks, a pool of two relays of which one sends notices. *)
EXTENDS Politeness, TLC

CONSTANTS f1, f2, r1, r2, x1

MCAdvertised == {-1, 9}
FetcherSymmetry == Permutations(Fetchers)
=============================================================================
