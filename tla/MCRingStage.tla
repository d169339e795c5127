---------------------------- MODULE MCRingStage ----------------------------
(* Instances of RingStage for TLC: the replica each batch goes to. *)
EXTENDS RingStage

CONSTANTS b1, b2, b3, b4

(* Three replicas; the middle one has two batches. *)
OverThree == [b \in {b1, b2, b3, b4} |-> CASE b = b1 -> 0 [] b \in {b2, b3} -> 1 [] b = b4 -> 2]

(* Two replicas; the second one has two batches. *)
OverTwo == [b \in {b1, b2, b3} |-> IF b = b1 THEN 0 ELSE 1]
=============================================================================
