-------------------------- MODULE StageTermination --------------------------
(* What the EOF protocol of a stage promises to the stages after it, for one *)
(* client: batches are absorbed, some at a time and for good, and a replica  *)
(* announces the end of the client only when all of them are; every closer   *)
(* announces it in the end.                                                  *)
CONSTANTS Batch, Closer

VARIABLES absorbed, closed

Init == absorbed = {} /\ closed = {}

Absorb == /\ \E new \in SUBSET (Batch \ absorbed) : new # {} /\ absorbed' = absorbed \cup new
          /\ UNCHANGED closed

Close == /\ absorbed = Batch
         /\ \E r \in Closer \ closed : closed' = closed \cup {r}
         /\ UNCHANGED absorbed

Next == Absorb \/ Close

Spec == Init /\ [][Next]_<<absorbed, closed>> /\ WF_<<absorbed, closed>>(Next)
=============================================================================
