------------------------- MODULE MCCapacityLimiters -------------------------
(* Small instances of CapacityLimiters.                                    *)
EXTENDS CapacityLimiters

CONSTANTS t1, t2, t3, global, lane

Capacities == [l \in Limiters |-> IF l = global THEN 3 ELSE 1]
=============================================================================
