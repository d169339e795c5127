----------------------------- MODULE MCFilterQ3 -----------------------------
(* Instances of FilterQ3 for TLC: batches b1, b2, ... are sharded over the   *)
(* replicas in turn, the last one does not pass the filter.                  *)
EXTENDS FilterQ3

CONSTANTS b1, b2, b3

MCHome == [b \in Batch |-> IF b = b2 THEN N - 1 ELSE 0]
MCPassing == Batch \ {b3}
=============================================================================
