-------------------------- MODULE MCScatterGather --------------------------
(* Instances of ScatterGather for TLC.  Both mules connect payer to payee,   *)
(* so with thresholds of 2 the pair qualifies and every count is at its      *)
(* threshold; they also go back to payer, which the cross product meets as a *)
(* pair of equal accounts; and one edge comes twice.                         *)
EXTENDS ScatterGather

CONSTANTS payer, payee, mule1, mule2, t1, t2, t3, t4, t5, t6, t7

MCEdgeOf == [t \in Tx |-> CASE t \in {t1, t5} -> <<payer, mule1>> [] t = t2 -> <<payer, mule2>>
                            [] t = t3 -> <<mule1, payee>> [] t = t4 -> <<mule2, payee>>
                            [] t = t6 -> <<mule1, payer>> [] t = t7 -> <<mule2, payer>>]
MCHomeOf == [t \in Tx |-> IF t \in {t1, t4} THEN 0 ELSE NSharders - 1]

MCShardFilter == [x \in Account |-> IF x \in {payer, mule1} THEN 0 ELSE KFilters - 1]
MCShardFinder == [x \in Account |-> IF x \in {payer, mule1} THEN 0 ELSE KFinders - 1]
MCShardCounter == [p \in Edges |-> IF p = <<payer, payee>> THEN 0 ELSE KCounters - 1]

(* The counter gets two batches: the first leads to a snapshot, the second   *)
(* one is logged.  The filters, which get five, log at an interval of 3.     *)
MCCheckpointInterval ==
  [s \in {"sharder", "filter", "finder", "counter"} |-> IF s = "counter" THEN 1 ELSE 3]
=============================================================================
