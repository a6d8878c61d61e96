-------------------------- MODULE MCWaiterHandoff --------------------------
(* Instances of WaiterHandoff: two partitions, the callers of the first    *)
(* sleep when they are refused.                                            *)
EXTENDS WaiterHandoff

CONSTANTS t1, t2, t3

MCShare == [p \in {"live", "batch"} |-> IF p = "live" THEN 2 ELSE 1]

MCPartitionOf == [t \in Thread |-> IF t = t3 THEN "batch" ELSE "live"]
=============================================================================
