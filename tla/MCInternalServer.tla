------------------------- MODULE MCInternalServer --------------------------
(* InternalServer with values of three units over two banks, one pool      *)
(* extent for two slots and counters that start next to their wrap.        *)
EXTENDS InternalServer
MCSlots == 1..2
MCUnits == {1}
============================================================================
