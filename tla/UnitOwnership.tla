---------------------------- MODULE UnitOwnership ----------------------------
(***************************************************************************)
(* What the host-value pool promises its users, with no free list in it:   *)
(* an array of units, each owned by nobody or by one directory slot.  A    *)
(* slot that owns nothing may take one contiguous run of unowned units     *)
(* ("a value is never split: the device reads it as one span"); a slot     *)
(* gives back exactly what it took.                                        *)
(***************************************************************************)
EXTENDS Integers

CONSTANTS Units, Owners, Nobody

VARIABLE owner

Run(u, n) == u .. (u + n - 1)

Owns(o) == { x \in DOMAIN owner : owner[x] = o }

Init == owner = [x \in 0 .. (Units - 1) |-> Nobody]

Take(o) ==
    /\ Owns(o) = {}
    /\ \E u \in DOMAIN owner, n \in 1 .. Units :
        /\ Run(u, n) \subseteq Owns(Nobody)
        /\ owner' = [x \in DOMAIN owner |-> IF x \in Run(u, n) THEN o ELSE owner[x]]

GiveBack(o) ==
    owner' = [x \in DOMAIN owner |-> IF owner[x] = o THEN Nobody ELSE owner[x]]

Next == \E o \in Owners : Take(o) \/ GiveBack(o)

Spec == Init /\ [][Next]_owner
=============================================================================
