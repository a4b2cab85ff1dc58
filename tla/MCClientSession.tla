-------------------------- MODULE MCClientSession --------------------------
(***************************************************************************)
(* ClientSession with two Clients on one chip and one on another.          *)
(***************************************************************************)
EXTENDS ClientSession, TLC

CONSTANTS ChipA, ChipB

MCChip == [c \in Clients |-> IF c = 3 THEN ChipB ELSE ChipA]
MCParallel == {<<1, 3>>, <<3, 1>>}

FirstRetries == [c \in Clients |-> IF c = 1 THEN 2 ELSE 1]
MCBatch == [c \in Clients |-> IF c = 2 THEN 2 ELSE 1]
MCCalls == [c \in Clients |-> IF c = 2 THEN 1 ELSE 2]

\* Threads are interchangeable: no operator tells one from another.
Symmetry == Permutations(Threads)
=============================================================================
