----------------------------- MODULE MCTiering -----------------------------
(* Instances of Tiering for TLC. *)
EXTENDS Tiering, TLC

CONSTANTS c1, c2, k1, k2, k3, d1, d2, d3

Interchangeable == Permutations({k1, k2}) \cup Permutations({d1, d2})
=============================================================================
