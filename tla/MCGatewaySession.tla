-------------------------- MODULE MCGatewaySession --------------------------
(* Instances of GatewaySession for TLC: two queries, the first with two      *)
(* rows in a batch, the second with none.                                    *)
EXTENDS GatewaySession

CONSTANTS c1, c2

Row(q) == [query |-> q, eof |-> FALSE]
EOF(q) == [query |-> q, eof |-> TRUE]

TwoQueries == << <<Row(1), Row(1)>>, <<EOF(1)>>, <<EOF(2)>> >>
Short == << <<Row(1), Row(1)>>, <<EOF(1)>> >>
=============================================================================
