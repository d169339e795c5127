------------------------- MODULE MCSentinelCluster -------------------------
(* Instances of SentinelCluster for TLC. *)
EXTENDS SentinelCluster

CONSTANT worker
=============================================================================
