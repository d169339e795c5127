----------------------- MODULE MCCheckpointedWorker -----------------------
(* Instances of CheckpointedWorker for TLC: the batches and who sent them. *)
EXTENDS CheckpointedWorker

CONSTANTS c1, c2, s1, s2, b1, b2

(* One client; each of the two senders sends one batch. *)
OneClient == [b \in {b1, b2} |-> c1]
TwoSenders == [b \in {b1, b2} |-> IF b = b1 THEN s1 ELSE s2]

(* A client for each of the batches: at an interval of two neither reaches   *)
(* its own checkpoint, and together they fill a window of two.              *)
TwoClients == [b \in {b1, b2} |-> IF b = b1 THEN c1 ELSE c2]

(* The same batches from a single sender. *)
OneSender == [b \in {b1, b2} |-> s1]
=============================================================================
