---------------------------- MODULE MCRelayHealth ----------------------------
(* Three batches on one curated relay, which may be a write relay as well. *)
EXTENDS RelayHealth, TLC

CONSTANTS w1, w2, w3, r1, x1

OneRelay == <<r1>>
BatchSymmetry == Permutations(Workers)
=============================================================================
