------------------------- MODULE MCServerLifecycle -------------------------
(* ServerLifecycle for TLC: Servers constructed on one core.               *)
EXTENDS ServerLifecycle, TLC

CONSTANT OnlyCore

MCCoreOf == [s \in Servers |-> OnlyCore]
MCCores == {OnlyCore}
Symmetry == Permutations(Servers) \cup Permutations(Callers)
=============================================================================
