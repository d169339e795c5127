----------------------- MODULE CheckpointedWorkerProofs -----------------------
(* Theorems about CheckpointedWorker, for all values of its constants. *)
EXTENDS CheckpointedWorker, FiniteSetTheorems, TLAPS

USE ConstantsAssumption

-----------------------------------------------------------------------------
(* Types of the operators the actions are built from *)

DiskState == [exists : BOOLEAN, snap : ClientState, log : SUBSET Batch, torn : BOOLEAN]

(* Every message belongs to a client (HeaderOf, inner.go). *)
LEMMA ClientOfMsgType == \A m \in Messages : ClientOfMsg(m) \in Client
  BY DEF Messages, BatchMsgs, EOFMsgs, ClientOfMsg

(* A fresh worker state and a missing checkpoint are well formed. *)
LEMMA FreshType == Fresh \in ClientState /\ NoCheckpoint \in DiskState
  BY DEF Fresh, NoCheckpoint, NoEOF, ClientState, DiskState

(* Folding a batch in keeps the state well formed (processBatch). *)
LEMMA FoldedType ==
  ASSUME NEW r \in ClientState, NEW b \in Batch
  PROVE  Folded(r, b) \in ClientState
<1> DEFINE seen == r.dedup \cup {b}
           times == [r.effect EXCEPT ![b] = @ + 1]
           n == r.processed + 1
<1>1. seen \in SUBSET Batch /\ times \in [Batch -> Nat] /\ n \in Nat
  BY DEF ClientState
<1>2. Folded(r, b) = [r EXCEPT !.dedup = seen, !.effect = times, !.processed = n]
  BY DEF Folded
<1> HIDE DEF seen, times, n
<1> QED
  BY <1>1, <1>2 DEF ClientState

(* Replaying a segment gives a well formed state (replayWAL). *)
LEMMA LoadType ==
  ASSUME NEW d \in DiskState
  PROVE  Load(d) \in ClientState
<1> DEFINE r == d.snap
           seen == r.dedup \cup d.log
           times == [b \in Batch |-> r.effect[b] + IF b \in d.log THEN 1 ELSE 0]
           n == r.processed + Cardinality(d.log)
<1>1. r \in ClientState /\ d.log \in SUBSET Batch
  BY DEF DiskState
<1>2. Cardinality(d.log) \in Nat
  BY <1>1, FS_Subset, FS_CardinalityType
<1>3. seen \in SUBSET Batch /\ times \in [Batch -> Nat] /\ n \in Nat
  BY <1>1, <1>2 DEF ClientState
<1>4. Load(d) = [r EXCEPT !.dedup = seen, !.effect = times, !.processed = n]
  BY DEF Load, Replayed
<1> HIDE DEF r, seen, times, n
<1> QED
  BY <1>1, <1>3, <1>4 DEF ClientState

(* What a checkpoint writes is well formed (checkpointAndAck, completeClient). *)
LEMMA CheckpointType ==
  ASSUME NEW c \in Client, mem \in [Client -> ClientState], disk \in [Client -> DiskState]
  PROVE  /\ Checkpoints(c) \subseteq DiskState
         /\ FinalCheckpoint(c) \in DiskState
<1>1. Snapshot(c) \in DiskState
  BY DEF Snapshot, DiskState
<1>2. PendingBatches(c) \subseteq Batch
  BY DEF PendingBatches, BatchesOf
<1>3. Appended(disk[c], PendingBatches(c)) \in DiskState
  BY <1>2 DEF Appended, DiskState
<1> QED
  BY <1>1, <1>3 DEF Checkpoints, FinalCheckpoint, DiskState

(* A killed append leaves a well formed segment (Replay). *)
LEMMA SurvivingType ==
  ASSUME TypeOK
  PROVE  SurvivingDisks \subseteq [Client -> DiskState]
<1>1. disk \in [Client -> DiskState]
  BY DEF TypeOK, DiskState
<1>2. ASSUME NEW d \in DiskState, NEW c \in Client
      PROVE  CutAppends(d, PendingBatches(c)) \subseteq DiskState
  <2>1. ASSUME NEW kept \in SUBSET PendingBatches(c)
        PROVE  [d EXCEPT !.log = @ \cup kept, !.torn = TRUE] \in DiskState
    <3> DEFINE records == d.log \cup kept
    <3>1. records \in SUBSET Batch
      BY <1>2 DEF DiskState, PendingBatches, BatchesOf
    <3> HIDE DEF records
    <3>2. [d EXCEPT !.log = records, !.torn = TRUE] \in DiskState
      BY <1>2, <2>1, <3>1 DEF DiskState
    <3> QED
      BY <3>2 DEF records
  <2>2. \A kept \in SUBSET PendingBatches(c) : [d EXCEPT !.log = @ \cup kept] \in DiskState
    BY <1>2 DEF DiskState, PendingBatches, BatchesOf
  <2> QED
    BY <1>2, <2>1, <2>2 DEF CutAppends
<1>3. At({"checkpoint"}, "snapshot") => job.client \in Client
  BY DEF At, TypeOK, Jobs, NoJob
<1>4. ASSUME At({"checkpoint"}, "snapshot"),
             NEW d \in CutAppends(disk[job.client], PendingBatches(job.client))
      PROVE  [disk EXCEPT ![job.client] = d] \in [Client -> DiskState]
  BY <1>1, <1>2, <1>3, <1>4
<1> QED
  BY <1>1, <1>4 DEF SurvivingDisks

-----------------------------------------------------------------------------
(* TypeOK is inductive: one lemma for the initial states, one for a step. *)

(* The program starts in a well typed state (New). *)
LEMMA InitType == Init => TypeOK
<1> SUFFICES ASSUME Init PROVE TypeOK
  OBVIOUS
<1>1. ready \subseteq Messages
  BY DEF Init, Messages, BatchMsgs, EOFMsgs, EOFMsg
<1> QED
  BY <1>1, FreshType DEF Init, TypeOK, NoJob, Jobs, DiskState

(* The handlers: each takes a message off the queue and updates its client. *)
LEMMA HandleType ==
  ASSUME TypeOK, NEW m \in ready, Handle(m)
  PROVE  TypeOK'
<1>1. m \in Messages /\ ClientOfMsg(m) \in Client
  BY ClientOfMsgType DEF TypeOK
<1>2. CASE m.type = "batch" /\ HandleBatch(m.batch)
  <2> DEFINE b == m.batch
             c == clientOf[b]
  <2>1. b \in Batch /\ c \in Client /\ BatchMsg(b) \in Messages
    BY <1>1, <1>2 DEF Messages, BatchMsgs, EOFMsgs, EOFMsg, BatchMsg
  <2>2. mem' \in [Client -> ClientState]
    BY <1>2, <2>1, FoldedType DEF HandleBatch, TypeOK
  <2>3. ready' \subseteq Messages /\ pending' \subseteq Messages
    BY <1>2, <2>1 DEF HandleBatch, TypeOK
  <2>4. unconf' \subseteq Outputs \cup EOFMsgs
    BY <1>2, <2>1 DEF HandleBatch, TypeOK, Forwarded, Outputs
  <2>5. job' \in Jobs /\ sweep' \subseteq Client
    BY <1>2, <2>1, <2>3, ClientOfMsgType DEF HandleBatch, AfterBatch, Jobs, Job, NoJob
  <2> QED
    BY <1>2, <2>2, <2>3, <2>4, <2>5 DEF HandleBatch, TypeOK
<1>3. CASE m.type = "eof" /\ (HandleEOFWait(m) \/ HandleEOFRetry(m) \/ HandleEOFFinal(m))
  <2> DEFINE c == m.client
             r == mem[c]
  <2>1. m \in EOFMsgs /\ c \in Client /\ r \in ClientState
    BY <1>1, <1>3 DEF Messages, BatchMsgs, EOFMsgs, TypeOK
  <2>2. AcceptEOF(m)
    BY <1>3 DEF HandleEOFWait, HandleEOFRetry, HandleEOFFinal
  <2>3. Recorded(r, m) \in ClientState
    <3> DEFINE senders == r.from \cup {m.sender}
               marks == [r.coord EXCEPT ![m.sender] = m.seq]
    <3>1. senders \in SUBSET Sender /\ marks \in [Sender -> 0 .. MaxEOFSeq]
      BY <2>1 DEF EOFMsgs, ClientState
    <3>2. Recorded(r, m) = [r EXCEPT !.from = senders, !.coord = marks]
      BY DEF Recorded
    <3> HIDE DEF senders, marks
    <3> QED
      BY <2>1, <3>1, <3>2 DEF ClientState
  <2>4. SUFFICES mem' \in [Client -> ClientState] /\ unconf' \subseteq Outputs \cup EOFMsgs /\ job' \in Jobs
    BY <1>1, <2>2 DEF AcceptEOF, TypeOK
  <2>5. CASE HandleEOFWait(m)
    <3>1. [Recorded(r, m) EXCEPT !.cached = m] \in ClientState
      BY <2>1, <2>3 DEF ClientState
    <3> QED
      BY <2>1, <2>5, <3>1 DEF HandleEOFWait, TypeOK, Jobs, Job
  <2>6. CASE HandleEOFRetry(m)
    <3>1. [Recorded(r, m) EXCEPT !.cached = NoEOF] \in ClientState
      BY <2>3 DEF ClientState
    <3>2. RetrySeq(r, m) \in 1 .. MaxEOFSeq
      BY <2>1, <2>6 DEF HandleEOFRetry, RetrySeq, EOFMsgs, ClientState
    <3>3. EOFMsg(c, m.sender, RetrySeq(r, m)) \in EOFMsgs
      BY <2>1, <3>2 DEF EOFMsg, EOFMsgs
    <3> QED
      BY <2>1, <2>6, <3>1, <3>3 DEF HandleEOFRetry, TypeOK, Jobs, Job
  <2>7. CASE HandleEOFFinal(m)
    <3> DEFINE final == [Recorded(r, m) EXCEPT !.cached = NoEOF, !.final = TRUE, !.outSeq = @ + 2]
    <3>1. final \in ClientState
      <4> DEFINE q == Recorded(r, m)
                 n == q.outSeq + 2
      <4>1. q \in ClientState /\ n \in Nat
        BY <2>3 DEF ClientState
      <4> HIDE DEF q, n
      <4>2. [q EXCEPT !.cached = NoEOF, !.final = TRUE, !.outSeq = n] \in ClientState
        BY <4>1 DEF ClientState
      <4> QED
        BY <4>2 DEF q, n
    <3>2. Result(c, r.outSeq + 1, r.effect) \in Outputs /\ OutEOF(c, r.outSeq + 2) \in Outputs
      BY <2>1 DEF Result, OutEOF, Outputs, ClientState
    <3>3. mem' = [mem EXCEPT ![c] = final]
      BY <2>7 DEF HandleEOFFinal
    <3> QED
      BY <2>1, <2>7, <3>1, <3>2, <3>3 DEF HandleEOFFinal, TypeOK, Jobs, Job
  <2> QED
    BY <1>3, <2>5, <2>6, <2>7
<1> QED
  BY <1>2, <1>3 DEF Handle

(* The steps of a checkpoint, a completion or an abort. *)
LEMMA RunJobType ==
  ASSUME TypeOK, RunJob
  PROVE  TypeOK'
<1> DEFINE c == job.client
<1>1. ASSUME NEW kinds, NEW step, At(kinds, step), "none" \notin kinds
      PROVE  job # NoJob /\ c \in Client
  BY <1>1 DEF At, TypeOK, Jobs, NoJob
<1>2. \A step \in {"confirm", "snapshot", "tombstone", "ack"} :
        job # NoJob /\ GoTo(step) => job' \in Jobs
  BY DEF GoTo, TypeOK, Jobs
<1>3. CASE Confirm
  BY <1>2, <1>3 DEF Confirm, At, NoJob, TypeOK
<1>4. CASE WriteCheckpoint
  <2>1. job # NoJob /\ c \in Client /\ job' \in Jobs
    BY <1>1, <1>2, <1>4 DEF WriteCheckpoint
  <2>2. disk \in [Client -> DiskState]
    BY DEF TypeOK, DiskState
  <2>3. disk' \in [Client -> DiskState]
    BY <1>4, <2>1, <2>2, CheckpointType DEF WriteCheckpoint, TypeOK
  <2> QED
    BY <1>4, <2>1, <2>3 DEF WriteCheckpoint, TypeOK, DiskState
<1>5. CASE WriteFinalCheckpoint
  <2>1. job # NoJob /\ c \in Client /\ job' \in Jobs
    BY <1>1, <1>2, <1>5 DEF WriteFinalCheckpoint
  <2>2. disk \in [Client -> DiskState]
    BY DEF TypeOK, DiskState
  <2>3. disk' \in [Client -> DiskState]
    BY <1>5, <2>1, <2>2, CheckpointType DEF WriteFinalCheckpoint, TypeOK
  <2> QED
    BY <1>5, <2>1, <2>3 DEF WriteFinalCheckpoint, TypeOK, DiskState
<1>6. CASE WriteTombstone
  <2>1. job # NoJob /\ c \in Client /\ job' \in Jobs
    BY <1>1, <1>2, <1>6 DEF WriteTombstone
  <2> QED
    BY <1>6, <2>1 DEF WriteTombstone, TypeOK
<1>7. CASE \E m \in pending : Ack(m)
  BY <1>7 DEF Ack, TypeOK
<1>8. CASE CheckpointDone
  BY <1>8 DEF CheckpointDone, TypeOK, Jobs
<1>9. CASE Cleanup
  <2>1. c \in Client
    BY <1>1, <1>9 DEF Cleanup
  <2> QED
    BY <1>9, <2>1, FreshType DEF Cleanup, TypeOK, Jobs, DiskState
<1>10. CASE \E d \in sweep : SweepNext(d)
  BY <1>10 DEF SweepNext, TypeOK, Jobs, Job
<1> QED
  BY <1>3, <1>4, <1>5, <1>6, <1>7, <1>8, <1>9, <1>10 DEF RunJob

(* A restart reads what survived on disk (loadCheckpoints). *)
LEMMA RestartType ==
  ASSUME TypeOK, Restart, crashes' \in Nat
  PROVE  TypeOK'
<1>1. PICK d \in SurvivingDisks : disk' = [c \in Client |-> IF c \in tomb THEN NoCheckpoint ELSE d[c]]
  BY DEF Restart
<1>2. disk' \in [Client -> DiskState]
  BY <1>1, SurvivingType, FreshType
<1>3. mem' \in [Client -> ClientState]
  BY <1>2, LoadType DEF Restart
<1> QED
  BY <1>2, <1>3 DEF Restart, TypeOK, DiskState, Jobs

(* Every step of the worker and of its environment keeps the types. *)
LEMMA StepType == TypeOK /\ [Next]_vars => TypeOK'
<1> SUFFICES ASSUME TypeOK, [Next]_vars PROVE TypeOK'
  OBVIOUS
<1>1. CASE Deliver
  BY <1>1, HandleType DEF Deliver, Discard, TypeOK
<1>2. CASE RunJob
  BY <1>2, RunJobType
<1>3. CASE Broker
  <2>1. \A o \in unconf : o.type = "eof" => o \in Messages
    BY DEF TypeOK, Outputs, EOFMsgs, Messages
  <2>2. \A o \in unconf : o.type # "eof" => o \in Outputs
    BY DEF TypeOK, EOFMsgs
  <2> QED
    BY <1>3, <2>1, <2>2 DEF Broker, Accept, TypeOK
<1>4. CASE Maintenance
  <2>1. StartMaintenance => sweep' \subseteq Client
    BY ClientOfMsgType DEF StartMaintenance, TypeOK
  <2> QED
    BY <1>4, <2>1 DEF Maintenance, StartMaintenance, ExpireTombstone, TypeOK
<1>5. CASE HandleAborts
  BY <1>5 DEF HandleAborts, HandleAbort, DropAbort, TypeOK, Jobs, Job
<1>6. CASE Crash
  BY <1>6, RestartType DEF Crash, TypeOK
<1>7. CASE Shutdown
  BY <1>7, ClientOfMsgType DEF Shutdown, TypeOK
<1>8. CASE ShutdownDone
  BY <1>8, RestartType DEF ShutdownDone, TypeOK
<1>9. CASE \E m \in Messages : Redeliver(m)
  BY <1>9 DEF Redeliver, TypeOK
<1>10. CASE \E c \in Client : RequestAbort(c)
  BY <1>10 DEF RequestAbort, TypeOK
<1>11. CASE UNCHANGED vars
  BY <1>11 DEF vars, TypeOK
<1> QED
  BY <1>1, <1>2, <1>3, <1>4, <1>5, <1>6, <1>7, <1>8, <1>9, <1>10, <1>11 DEF Next

(* The worker, its files and its queues only take values of their types.     *)
THEOREM TypeCorrect == Spec => []TypeOK
  BY InitType, StepType, PTL DEF Spec
-----------------------------------------------------------------------------
(* Safety.  None of the properties is inductive alone: IndInv adds what ties *)
(* the memory, the files, the unacknowledged deliveries and the step of the  *)
(* job in progress together.                                                 *)

(* A client's state only knows the client's batches, and a finalized one all *)
(* of them.                                                                  *)
KnownBatches ==
  \A c \in Client :
    /\ mem[c].dedup \subseteq BatchesOf(c)
    /\ disk[c].snap.dedup \subseteq BatchesOf(c) /\ disk[c].log \subseteq BatchesOf(c)
    /\ mem[c].final => mem[c].dedup = BatchesOf(c)
    /\ disk[c].snap.final => disk[c].snap.dedup = BatchesOf(c)

(* A segment holds no batch its snapshot already counts. *)
Disjoint(d) == ~d.snap.final => CountedOnce(d.snap) /\ d.log \cap d.snap.dedup = {}

Counted == \A c \in Client : CountedOnce(mem[c]) /\ Disjoint(disk[c])

(* The memory is never behind the files. *)
Ahead == \A c \in Client : Behind(Load(disk[c]), mem[c])

PendingKnown == \A c \in Client : PendingBatches(c) \subseteq mem[c].dedup

(* Until the job of its client has written, no unacknowledged batch is durable. *)
PendingNew ==
  \A c \in Client : \/ job # NoJob /\ job.client = c /\ job.step \in {"tombstone", "ack"}
                    \/ PendingBatches(c) \cap Load(disk[c]).dedup = {}

JobInv ==
  job # NoJob =>
    /\ job.kind \in {"checkpoint", "complete"} /\ job.step # "confirm" => unconf = {}
    /\ job.kind = "checkpoint" => job.step # "tombstone"
    /\ job.kind = "complete" /\ job.step # "ack" => mem[job.client].final
    /\ job.kind \in {"complete", "abort"} /\ job.step = "ack" => job.client \in closed
    /\ job.kind = "abort" => aborts[job.client] # "none"

(* With no torn segment, what is known is durable or still unacknowledged. *)
Durable ==
  /\ \A c \in Client : ~disk[c].torn
  /\ \A c \in Client \ closed : mem[c].dedup \subseteq Load(disk[c]).dedup \cup PendingBatches(c)
  /\ At({"checkpoint"}, "ack") => PendingBatches(job.client) \subseteq Load(disk[job.client]).dedup
  /\ AckedBatchIsDurable

(* What is durable was forwarded; what is only in memory can still be. *)
ForwardedInv ==
  /\ \A b \in Batch : BatchMsg(b) \in pending => Forwarded(b) \in unconf \cup down
  /\ \A c \in Client \ closed :
       /\ \A b \in mem[c].dedup : BatchMsg(b) \in pending \/ Forwarded(b) \in down
       /\ \A b \in Load(disk[c]).dedup : Forwarded(b) \in down
  /\ \A c \in closed : aborts[c] # "none" \/ \A b \in BatchesOf(c) : Forwarded(b) \in down
  /\ AckedBatchIsForwarded

IndInv == /\ TypeOK /\ KnownBatches /\ Counted /\ Ahead /\ PendingKnown /\ PendingNew /\ JobInv
          /\ ~TornWrites => Durable
          /\ ForwardedInv /\ ResultIsComplete
-----------------------------------------------------------------------------
(* What the operators on client states keep, field by field *)

(* Replay adds the logged batches and leaves the coordination state alone. *)
LEMMA LoadFields ==
  ASSUME NEW d \in DiskState
  PROVE  /\ Load(d).dedup = d.snap.dedup \cup d.log
         /\ Load(d).from = d.snap.from /\ Load(d).final = d.snap.final
         /\ Load(d).coord = d.snap.coord /\ Load(d).outSeq = d.snap.outSeq
         /\ Load(d).processed = d.snap.processed + Cardinality(d.log)
         /\ \A b \in Batch : Load(d).effect[b] = d.snap.effect[b] + IF b \in d.log THEN 1 ELSE 0
<1>1. d.snap \in ClientState
  BY DEF DiskState
<1> QED
  BY <1>1 DEF Load, Replayed, ClientState

(* Replay counts every batch once when the segment and its snapshot are disjoint. *)
LEMMA LoadCounted ==
  ASSUME NEW d \in DiskState, Disjoint(d)
  PROVE  CountedOnce(Load(d))
<1>1. SUFFICES ASSUME ~d.snap.final PROVE CountedOnce(Load(d))
  BY LoadFields DEF CountedOnce
<1>2. CountedOnce(d.snap) /\ d.log \cap d.snap.dedup = {}
  BY <1>1 DEF Disjoint
<1>3. d.snap \in ClientState /\ d.log \subseteq Batch /\ d.snap.dedup \subseteq Batch
  BY DEF DiskState, ClientState
<1>4. IsFiniteSet(d.log) /\ IsFiniteSet(d.snap.dedup)
  BY <1>3, FS_Subset
<1>5. Cardinality(d.snap.dedup \cup d.log) = d.snap.processed + Cardinality(d.log)
  <2>1. Cardinality(d.snap.dedup) = d.snap.processed
    BY <1>1, <1>2 DEF CountedOnce
  <2>2. d.snap.dedup \cap d.log = {}
    BY <1>2
  <2>3. Cardinality(d.snap.dedup \cup d.log)
          = Cardinality(d.snap.dedup) + Cardinality(d.log) - Cardinality(d.snap.dedup \cap d.log)
    BY <1>4, FS_Union
  <2> QED
    <3>1. Cardinality(d.snap.dedup \cap d.log) = 0
      BY <2>2, FS_EmptySet
    <3>2. Cardinality(d.snap.dedup) \in Nat /\ Cardinality(d.log) \in Nat
      BY <1>4, FS_CardinalityType
    <3> QED
      BY <2>1, <2>3, <3>1, <3>2
<1>6. \A b \in Batch : Load(d).effect[b] = IF b \in Load(d).dedup THEN 1 ELSE 0
  <2> TAKE b \in Batch
  <2>1. d.snap.effect[b] = IF b \in d.snap.dedup THEN 1 ELSE 0
    BY <1>1, <1>2 DEF CountedOnce
  <2>2. Load(d).effect[b] = d.snap.effect[b] + IF b \in d.log THEN 1 ELSE 0
    BY LoadFields
  <2>3. b \in Load(d).dedup <=> b \in d.snap.dedup \/ b \in d.log
    BY LoadFields
  <2>4. ~(b \in d.snap.dedup /\ b \in d.log)
    BY <1>2
  <2> QED
    BY <2>1, <2>2, <2>3, <2>4
<1> QED
  BY <1>5, <1>6, LoadFields DEF CountedOnce

(* A fresh state and a missing checkpoint satisfy what the invariant asks. *)
LEMMA FreshFields == /\ CountedOnce(Fresh) /\ Disjoint(NoCheckpoint)
                     /\ Fresh.dedup = {} /\ ~Fresh.final /\ Load(NoCheckpoint).dedup = {}
                     /\ Behind(Load(NoCheckpoint), Fresh)
                     /\ NoCheckpoint.snap.dedup = {} /\ NoCheckpoint.log = {}
                     /\ ~NoCheckpoint.snap.final /\ ~NoCheckpoint.torn
<1>1. CountedOnce(Fresh)
  BY FS_EmptySet DEF Fresh, CountedOnce
<1>2. NoCheckpoint.snap = Fresh /\ NoCheckpoint.log = {} /\ ~NoCheckpoint.torn
  BY DEF NoCheckpoint
<1>3. Fresh.dedup = {} /\ ~Fresh.final /\ Fresh.outSeq \in Nat /\ \A s \in Sender : Fresh.coord[s] \in Nat
  BY DEF Fresh
<1>4. Behind(Load(NoCheckpoint), Fresh)
  BY <1>2, <1>3, FreshType, LoadFields DEF Behind
<1> QED
  BY <1>1, <1>2, <1>3, <1>4, FreshType, LoadFields DEF Disjoint

(* Folding in a batch that is new counts it once (processBatch). *)
LEMMA FoldedFields ==
  ASSUME NEW r \in ClientState, NEW b \in Batch
  PROVE  /\ Folded(r, b).dedup = r.dedup \cup {b}
         /\ Folded(r, b).from = r.from /\ Folded(r, b).final = r.final
         /\ Folded(r, b).coord = r.coord /\ Folded(r, b).outSeq = r.outSeq
         /\ Behind(r, Folded(r, b))
         /\ b \notin r.dedup /\ CountedOnce(r) => CountedOnce(Folded(r, b))
<1>1. /\ Folded(r, b).dedup = r.dedup \cup {b}
      /\ Folded(r, b).from = r.from /\ Folded(r, b).final = r.final
      /\ Folded(r, b).coord = r.coord /\ Folded(r, b).outSeq = r.outSeq
      /\ Folded(r, b).effect = [r.effect EXCEPT ![b] = @ + 1]
      /\ Folded(r, b).processed = r.processed + 1
  BY DEF Folded, ClientState
<1>2. Behind(r, Folded(r, b))
  BY <1>1 DEF Behind, ClientState
<1>3. ASSUME b \notin r.dedup, CountedOnce(r), ~r.final
      PROVE  /\ \A x \in Batch : Folded(r, b).effect[x] = IF x \in Folded(r, b).dedup THEN 1 ELSE 0
             /\ Folded(r, b).processed = Cardinality(Folded(r, b).dedup)
  <2>1. IsFiniteSet(r.dedup)
    BY FS_Subset DEF ClientState
  <2>2. Cardinality(r.dedup \cup {b}) = Cardinality(r.dedup) + 1
    BY <1>3, <2>1, FS_AddElement
  <2> QED
    BY <1>1, <1>3, <2>2 DEF CountedOnce, ClientState
<1> QED
  BY <1>1, <1>2, <1>3 DEF CountedOnce

(* A coordination message that is not a duplicate moves the client forward. *)
LEMMA RecordedFields ==
  ASSUME NEW r \in ClientState, NEW m \in EOFMsgs, m.seq > r.coord[m.sender]
  PROVE  /\ Recorded(r, m).dedup = r.dedup /\ Recorded(r, m).effect = r.effect
         /\ Recorded(r, m).processed = r.processed /\ Recorded(r, m).final = r.final
         /\ Recorded(r, m).outSeq = r.outSeq
         /\ Behind(r, Recorded(r, m))
<1> DEFINE senders == r.from \cup {m.sender}
           marks == [r.coord EXCEPT ![m.sender] = m.seq]
<1>1. senders \in SUBSET Sender /\ marks \in [Sender -> 0 .. MaxEOFSeq]
  BY DEF EOFMsgs, ClientState
<1>2. r.from \subseteq senders /\ \A s \in Sender : r.coord[s] <= marks[s]
  BY DEF EOFMsgs, ClientState
<1>3. Recorded(r, m) = [r EXCEPT !.from = senders, !.coord = marks]
  BY DEF Recorded
<1> HIDE DEF senders, marks
<1>4. /\ Recorded(r, m).dedup = r.dedup /\ Recorded(r, m).effect = r.effect
      /\ Recorded(r, m).processed = r.processed /\ Recorded(r, m).final = r.final
      /\ Recorded(r, m).outSeq = r.outSeq
      /\ Recorded(r, m).from = senders /\ Recorded(r, m).coord = marks
  BY <1>3 DEF ClientState
<1> QED
  BY <1>1, <1>2, <1>4 DEF Behind, ClientState
-----------------------------------------------------------------------------
(* The invariant holds initially, and steps that leave the memory, the files *)
(* and the deliveries alone keep what it says of them.                       *)

(* The invariant holds when the worker starts for the first time. *)
LEMMA InitInd == Init => IndInv
<1> SUFFICES ASSUME Init PROVE IndInv
  OBVIOUS
<1>1. TypeOK
  BY InitType
<1>2. \A c \in Client : mem[c] = Fresh /\ disk[c] = NoCheckpoint /\ PendingBatches(c) = {}
  BY DEF Init, PendingBatches
<1>3. KnownBatches /\ Counted /\ Ahead /\ PendingKnown /\ PendingNew
  BY <1>2, FreshFields DEF KnownBatches, Counted, Ahead, PendingKnown, PendingNew
<1>4. JobInv
  BY DEF JobInv, Init
<1>5. \A b \in Batch : Held(BatchMsg(b))
  BY DEF Init, Held, BatchMsgs, BatchMsg
<1>6. Durable
  BY <1>2, <1>5, FreshFields DEF Durable, AckedBatchIsDurable, Init, At, NoJob
<1>7. ForwardedInv
  BY <1>2, <1>5, FreshFields DEF ForwardedInv, AckedBatchIsForwarded, Init
<1>8. ResultIsComplete
  BY DEF ResultIsComplete, Init
<1> QED
  BY <1>1, <1>3, <1>4, <1>6, <1>7, <1>8 DEF IndInv

(* The parts about memory, files and deliveries depend on nothing else. *)
LEMMA FrameInd ==
  ASSUME KnownBatches, Counted, Ahead, PendingKnown, UNCHANGED <<mem, disk, pending>>
  PROVE  (KnownBatches /\ Counted /\ Ahead /\ PendingKnown)'
  BY DEF KnownBatches, Counted, Ahead, PendingKnown, PendingBatches

(* A discarded message was durable and forwarded, or still is unacknowledged. *)
LEMMA DiscardInd ==
  ASSUME IndInv, NEW m \in ready, Discard(m)
  PROVE  IndInv'
<1>1. UNCHANGED <<pending, aborts, mem, disk, tomb, closed, unconf, down, job>> /\ ready' = ready \ {m}
  BY DEF Discard
<1>2. (KnownBatches /\ Counted /\ Ahead /\ PendingKnown)'
  BY <1>1, FrameInd DEF IndInv
<1>3. (PendingNew /\ JobInv /\ ResultIsComplete)'
  BY <1>1 DEF IndInv, PendingNew, PendingBatches, JobInv, ResultIsComplete
<1>4. TypeOK'
  BY DEF IndInv, TypeOK, Discard
<1>5. ASSUME NEW b \in Batch, m = BatchMsg(b), clientOf[b] \notin closed
      PROVE  b \in mem[clientOf[b]].dedup
  BY <1>5 DEF Discard, Discarded, IsDuplicateData, BatchMsg, ClientOfMsg, IndInv, TypeOK
<1>6. ASSUME ~TornWrites PROVE Durable'
  <2>1. Durable
    BY <1>6 DEF IndInv
  <2>2. AckedBatchIsDurable'
    <3> SUFFICES ASSUME NEW b \in Batch
                 PROVE  \/ Held(BatchMsg(b))' \/ clientOf[b] \in closed
                        \/ b \in Load(disk[clientOf[b]]).dedup
      BY <1>1 DEF AckedBatchIsDurable
    <3>1. CASE m = BatchMsg(b) /\ clientOf[b] \notin closed
      BY <1>1, <1>5, <2>1, <3>1 DEF Durable, PendingBatches, Held
    <3>2. CASE m # BatchMsg(b)
      BY <1>1, <2>1, <3>2 DEF Durable, AckedBatchIsDurable, Held
    <3> QED
      BY <3>1, <3>2
  <2> QED
    BY <1>1, <2>1, <2>2 DEF Durable, PendingBatches, At
<1>7. ForwardedInv'
  <2>1. AckedBatchIsForwarded'
    <3> SUFFICES ASSUME NEW b \in Batch
                 PROVE  \/ Held(BatchMsg(b))' \/ aborts[clientOf[b]] # "none"
                        \/ Forwarded(b) \in down
      BY <1>1 DEF AckedBatchIsForwarded
    <3>1. CASE m = BatchMsg(b) /\ clientOf[b] \notin closed
      BY <1>1, <1>5, <3>1 DEF IndInv, ForwardedInv, Held
    <3>2. CASE clientOf[b] \in closed
      BY <3>2 DEF IndInv, ForwardedInv, BatchesOf
    <3>3. CASE m # BatchMsg(b)
      BY <1>1, <3>3 DEF IndInv, ForwardedInv, AckedBatchIsForwarded, Held
    <3> QED
      BY <3>1, <3>2, <3>3
  <2> QED
    BY <1>1, <2>1 DEF IndInv, ForwardedInv, BatchesOf
<1> QED
  BY <1>2, <1>3, <1>4, <1>6, <1>7 DEF IndInv

(* handleBatch: the batch becomes known, unacknowledged and about to be      *)
(* forwarded in one step.                                                    *)
LEMMA HandleBatchInd ==
  ASSUME IndInv, NEW b \in Batch, BatchMsg(b) \in ready, HandleBatch(b), TypeOK'
  PROVE  IndInv'
<1> DEFINE c == clientOf[b]
           r == mem[c]
<1>1. /\ c \in Client /\ r \in ClientState /\ b \notin r.dedup /\ b \in BatchesOf(c)
      /\ CountedOnce(r) /\ Behind(Load(disk[c]), r) /\ job = NoJob
  BY DEF IndInv, TypeOK, HandleBatch, Discarded, IsDuplicateData, BatchMsg, Counted, Ahead,
         Deliverable, Idle, BatchesOf
<1>2. /\ mem' = [mem EXCEPT ![c] = Folded(r, b)]
      /\ pending' = pending \cup {BatchMsg(b)} /\ ready' = ready \ {BatchMsg(b)}
      /\ unconf' = unconf \cup {Forwarded(b)}
      /\ UNCHANGED <<aborts, disk, tomb, closed, down>>
  BY DEF HandleBatch
<1>3. job' = NoJob \/ job' = Job("checkpoint", c, "confirm")
  BY DEF HandleBatch, AfterBatch
<1>4. \A x \in Client : PendingBatches(x)' = PendingBatches(x) \cup (IF x = c THEN {b} ELSE {})
  <2>1. \A x \in Batch : BatchMsg(x) \in pending' <=> BatchMsg(x) \in pending \/ x = b
    BY <1>2 DEF BatchMsg
  <2> QED
    BY <1>1, <2>1 DEF PendingBatches, BatchesOf
<1>5. /\ \A x \in Client : mem'[x] = IF x = c THEN Folded(r, b) ELSE mem[x]
      /\ Folded(r, b).dedup = r.dedup \cup {b} /\ Folded(r, b).final = r.final
      /\ Behind(Load(disk[c]), Folded(r, b)) /\ CountedOnce(Folded(r, b))
  <2>1. mem'[c] = Folded(r, b) /\ \A x \in Client : x # c => mem'[x] = mem[x]
    BY <1>1, <1>2 DEF IndInv, TypeOK
  <2> QED
    BY <1>1, <2>1, FoldedFields DEF Behind
<1>6. KnownBatches'
  <2>1. ~r.final
    BY <1>1 DEF IndInv, KnownBatches
  <2> QED
    BY <1>1, <1>2, <1>5, <2>1 DEF IndInv, KnownBatches, BatchesOf
<1>7. (Counted /\ Ahead)'
  BY <1>2, <1>5 DEF IndInv, Counted, Ahead
<1>8. PendingKnown'
  BY <1>4, <1>5 DEF IndInv, PendingKnown
<1>9. PendingNew'
  BY <1>1, <1>2, <1>4 DEF IndInv, PendingNew, Behind
<1>10. JobInv'
  BY <1>3 DEF JobInv, Job
<1>11. ASSUME ~TornWrites PROVE Durable'
  <2>1. Durable
    BY <1>11 DEF IndInv
  <2>2. ~At({"checkpoint"}, "ack")'
    BY <1>3 DEF At, Job, NoJob
  <2>3. AckedBatchIsDurable'
    BY <1>2, <2>1 DEF Durable, AckedBatchIsDurable, Held
  <2> QED
    BY <1>2, <1>4, <1>5, <2>1, <2>2, <2>3 DEF Durable
<1>12. ForwardedInv'
  <2>1. AckedBatchIsForwarded'
    BY <1>2 DEF IndInv, ForwardedInv, AckedBatchIsForwarded, Held
  <2>2. \A x \in Batch : BatchMsg(x) \in pending' => Forwarded(x) \in (unconf \cup down)'
    BY <1>2 DEF IndInv, ForwardedInv, BatchMsg
  <2>3. \A x \in Client \ closed : \A y \in mem'[x].dedup : BatchMsg(y) \in pending' \/ Forwarded(y) \in down
    BY <1>2, <1>5 DEF IndInv, ForwardedInv
  <2> QED
    BY <1>2, <2>1, <2>2, <2>3 DEF IndInv, ForwardedInv, BatchesOf
<1>13. ResultIsComplete'
  BY <1>2 DEF IndInv, ResultIsComplete, Forwarded
<1> QED
  BY <1>6, <1>7, <1>8, <1>9, <1>10, <1>11, <1>12, <1>13 DEF IndInv

(* What the three outcomes of an EOF have in common: the client's batches    *)
(* stay as they were, and a job for the client starts.                       *)
LEMMA EOFInd ==
  ASSUME IndInv, TypeOK', NEW m \in EOFMsgs, AcceptEOF(m),
         NEW q \in ClientState, mem' = [mem EXCEPT ![m.client] = q],
         q.dedup = mem[m.client].dedup, Behind(mem[m.client], q), CountedOnce(q),
         q.final => q.dedup = BatchesOf(m.client),
         NEW kind \in {"checkpoint", "complete"}, job' = Job(kind, m.client, "confirm"),
         kind = "complete" => q.final,
         unconf \subseteq unconf', ResultIsComplete'
  PROVE  IndInv'
<1> DEFINE c == m.client
<1>1. /\ c \in Client /\ \A x \in Client : mem'[x] = IF x = c THEN q ELSE mem[x]
      /\ job = NoJob
  BY DEF IndInv, TypeOK, EOFMsgs, AcceptEOF, Deliverable, Idle
<1>2. /\ UNCHANGED <<aborts, disk, tomb, closed, down>>
      /\ ready' = ready \ {m} /\ pending' = pending \cup {m}
  BY DEF AcceptEOF
<1>3. /\ \A b \in Batch : BatchMsg(b) \in pending' <=> BatchMsg(b) \in pending
      /\ \A b \in Batch : Held(BatchMsg(b))' <=> Held(BatchMsg(b))
  BY <1>2 DEF EOFMsgs, BatchMsg, Held
<1>4. \A x \in Client : PendingBatches(x)' = PendingBatches(x)
  BY <1>3 DEF PendingBatches, BatchesOf
<1>5. KnownBatches'
  BY <1>1, <1>2 DEF IndInv, KnownBatches
<1>6. Counted'
  BY <1>1, <1>2 DEF IndInv, Counted
<1>7. Ahead'
  <2>1. Behind(Load(disk[c]), q)
    <3>1. Load(disk[c]) \in ClientState /\ mem[c] \in ClientState /\ Behind(Load(disk[c]), mem[c])
      BY <1>1, LoadType DEF IndInv, TypeOK, DiskState, Ahead
    <3> QED
      BY <1>1, <3>1 DEF Behind, ClientState
  <2> QED
    BY <1>1, <1>2, <2>1 DEF IndInv, Ahead
<1>8. PendingKnown'
  BY <1>1, <1>4 DEF IndInv, PendingKnown
<1>9. PendingNew'
  BY <1>1, <1>2, <1>4 DEF IndInv, PendingNew
<1>10. JobInv'
  BY <1>1, <1>2 DEF JobInv, Job
<1>11. ASSUME ~TornWrites PROVE Durable'
  <2>1. Durable
    BY <1>11 DEF IndInv
  <2>2. ~At({"checkpoint"}, "ack")'
    BY DEF At, Job
  <2>3. AckedBatchIsDurable'
    BY <1>2, <1>3, <2>1 DEF Durable, AckedBatchIsDurable
  <2> QED
    BY <1>1, <1>2, <1>4, <2>1, <2>2, <2>3 DEF Durable
<1>12. ForwardedInv'
  <2>1. AckedBatchIsForwarded'
    BY <1>2, <1>3 DEF IndInv, ForwardedInv, AckedBatchIsForwarded
  <2>2. \A x \in Client \ closed : \A b \in mem'[x].dedup : BatchMsg(b) \in pending' \/ Forwarded(b) \in down
    BY <1>1, <1>2 DEF IndInv, ForwardedInv
  <2> QED
    BY <1>2, <1>3, <2>1, <2>2 DEF IndInv, ForwardedInv, BatchesOf
<1> QED
  BY <1>5, <1>6, <1>7, <1>8, <1>9, <1>10, <1>11, <1>12 DEF IndInv

(* A finalized client has all its batches: their number is the sum of the    *)
(* totals its upstream senders announce (joiner_accumulate.go:79-82).        *)
LEMMA FinalIsComplete ==
  ASSUME NEW r \in ClientState, NEW c \in Client, r.dedup \subseteq BatchesOf(c),
         CountedOnce(r), ~r.final, ~Incomplete(c, r, Sender)
  PROVE  r.dedup = BatchesOf(c)
<1>1. IsFiniteSet(BatchesOf(c)) /\ Cardinality(BatchesOf(c)) \in Nat
  BY FS_Subset, FS_CardinalityType DEF BatchesOf
<1>2. AggTotal(c, Sender) = Cardinality(BatchesOf(c))
  <2>1. {b \in BatchesOf(c) : senderOf[b] \in Sender} = BatchesOf(c)
    BY DEF BatchesOf
  <2> QED
    BY <2>1 DEF AggTotal
<1>3. r.processed = Cardinality(r.dedup)
  BY DEF CountedOnce
<1>4. Cardinality(r.dedup) <= Cardinality(BatchesOf(c)) /\ Cardinality(r.dedup) \in Nat
  BY <1>1, FS_Subset, FS_CardinalityType
<1>5. Cardinality(BatchesOf(c)) > 0 => Cardinality(r.dedup) = Cardinality(BatchesOf(c))
  BY <1>1, <1>2, <1>3, <1>4 DEF Incomplete
<1>6. Cardinality(BatchesOf(c)) = Cardinality(r.dedup)
  BY <1>1, <1>4, <1>5
<1> QED
  BY <1>1, <1>6, FS_Subset

(* The three outcomes of an upstream EOF (handleUpstreamEOF). *)
LEMMA HandleEOFInd ==
  ASSUME IndInv, NEW m \in EOFMsgs, m \in ready, TypeOK',
         HandleEOFWait(m) \/ HandleEOFRetry(m) \/ HandleEOFFinal(m)
  PROVE  IndInv'
<1> DEFINE c == m.client
           r == mem[c]
           q == Recorded(r, m)
<1>1. /\ c \in Client /\ m.sender \in Sender /\ r \in ClientState
      /\ r.dedup \subseteq BatchesOf(c) /\ CountedOnce(r)
      /\ r.final => r.dedup = BatchesOf(c)
  BY DEF IndInv, TypeOK, EOFMsgs, KnownBatches, Counted
<1>2. AcceptEOF(m)
  BY DEF HandleEOFWait, HandleEOFRetry, HandleEOFFinal
<1>3. m.seq > r.coord[m.sender]
  BY <1>1, <1>2 DEF AcceptEOF, Discarded, IsDuplicateCoordination, EOFMsgs, ClientState
<1>4. /\ q \in ClientState /\ q.dedup = r.dedup /\ q.effect = r.effect /\ q.processed = r.processed
      /\ q.final = r.final /\ q.outSeq = r.outSeq /\ Behind(r, q)
  <2>1. q \in ClientState
    <3> DEFINE senders == r.from \cup {m.sender}
               marks == [r.coord EXCEPT ![m.sender] = m.seq]
    <3>1. senders \in SUBSET Sender /\ marks \in [Sender -> 0 .. MaxEOFSeq]
      BY <1>1 DEF EOFMsgs, ClientState
    <3>2. q = [r EXCEPT !.from = senders, !.coord = marks]
      BY DEF Recorded
    <3> HIDE DEF senders, marks, q
    <3> QED
      BY <1>1, <3>1, <3>2 DEF ClientState
  <2> QED
    BY <1>1, <1>3, <2>1, RecordedFields
<1> HIDE DEF q
<1>5. CASE HandleEOFWait(m)
  <2> DEFINE w == [q EXCEPT !.cached = m]
  <2>1. /\ w \in ClientState /\ w.dedup = q.dedup /\ w.effect = q.effect /\ w.processed = q.processed
        /\ w.final = q.final /\ w.outSeq = q.outSeq /\ w.from = q.from /\ w.coord = q.coord
    BY <1>4 DEF ClientState
  <2>2. /\ mem' = [mem EXCEPT ![c] = w] /\ job' = Job("checkpoint", c, "confirm")
        /\ unconf' = unconf /\ down' = down
    BY <1>5 DEF HandleEOFWait, AcceptEOF, q
  <2> HIDE DEF w
  <2>3. CountedOnce(w) /\ Behind(r, w)
    BY <1>1, <1>4, <2>1 DEF CountedOnce, Behind
  <2>4. ResultIsComplete'
    BY <2>2 DEF IndInv, ResultIsComplete
  <2> QED
    BY <1>1, <1>2, <1>4, <2>1, <2>2, <2>3, <2>4, EOFInd
<1>6. CASE HandleEOFRetry(m)
  <2> DEFINE w == [q EXCEPT !.cached = NoEOF]
  <2>1. /\ w \in ClientState /\ w.dedup = q.dedup /\ w.effect = q.effect /\ w.processed = q.processed
        /\ w.final = q.final /\ w.outSeq = q.outSeq /\ w.from = q.from /\ w.coord = q.coord
    BY <1>4 DEF ClientState
  <2>2. /\ mem' = [mem EXCEPT ![c] = w] /\ job' = Job("checkpoint", c, "confirm")
        /\ unconf' = unconf \cup {EOFMsg(c, m.sender, RetrySeq(r, m))} /\ down' = down
    BY <1>6 DEF HandleEOFRetry, AcceptEOF, q
  <2> HIDE DEF w
  <2>3. CountedOnce(w) /\ Behind(r, w)
    BY <1>1, <1>4, <2>1 DEF CountedOnce, Behind
  <2>4. ResultIsComplete'
    BY <2>2 DEF IndInv, ResultIsComplete, EOFMsg
  <2> QED
    BY <1>1, <1>2, <1>4, <2>1, <2>2, <2>3, <2>4, EOFInd
<1>7. CASE HandleEOFFinal(m)
  <2> DEFINE n == q.outSeq + 2
             w == [q EXCEPT !.cached = NoEOF, !.final = TRUE, !.outSeq = n]
  <2>1. n \in Nat /\ q.outSeq <= n
    BY <1>4 DEF ClientState
  <2>2. /\ mem' = [mem EXCEPT ![c] = w] /\ job' = Job("complete", c, "confirm")
        /\ unconf' = unconf \cup {Result(c, r.outSeq + 1, r.effect), OutEOF(c, r.outSeq + 2)}
        /\ down' = down
    BY <1>7 DEF HandleEOFFinal, AcceptEOF, q
  <2> HIDE DEF n
  <2>3. /\ w \in ClientState /\ w.dedup = q.dedup /\ w.final
        /\ w.outSeq = n /\ w.from = q.from /\ w.coord = q.coord
    BY <1>4, <2>1 DEF ClientState
  <2> HIDE DEF w
  <2>4. ~r.final /\ ~Incomplete(c, r, Sender)
    BY <1>7 DEF HandleEOFFinal, Waits
  <2>5. r.dedup = BatchesOf(c)
    BY <1>1, <2>4, FinalIsComplete
  <2>6. CountedOnce(w) /\ Behind(r, w)
    BY <1>1, <1>4, <2>1, <2>3 DEF CountedOnce, Behind
  <2>7. \A b \in Batch : r.effect[b] = IF clientOf[b] = c THEN 1 ELSE 0
    BY <1>1, <2>4, <2>5 DEF CountedOnce, BatchesOf
  <2>8. ResultIsComplete'
    BY <2>2, <2>7 DEF IndInv, ResultIsComplete, Result, OutEOF
  <2> QED
    BY <1>1, <1>2, <1>4, <2>2, <2>3, <2>5, <2>6, <2>8, EOFInd
<1> QED
  BY <1>5, <1>6, <1>7

-----------------------------------------------------------------------------
(* The steps of a job *)

(* While a job runs, its client is a client and the next step keeps the rest *)
(* of the job.                                                               *)
LEMMA JobFields ==
  ASSUME IndInv, NEW kinds, NEW step, At(kinds, step), "none" \notin kinds
  PROVE  /\ job # NoJob /\ job.client \in Client /\ job.kind \in kinds /\ job.step = step
         /\ \A next : GoTo(next) => /\ job' # NoJob /\ job'.step = next
                                   /\ job'.kind = job.kind /\ job'.client = job.client
<1>1. job # NoJob /\ job \in [kind : {"checkpoint", "complete", "abort"}, client : Client,
                             step : {"confirm", "snapshot", "tombstone", "ack"}]
  BY DEF IndInv, TypeOK, Jobs, At, NoJob
<1>2. ASSUME NEW next, GoTo(next)
      PROVE  job'.step = next /\ job'.kind = job.kind /\ job'.client = job.client
  BY <1>1, <1>2 DEF GoTo
<1>3. ASSUME NEW next, GoTo(next) PROVE job' # NoJob
  BY <1>1, <1>2, <1>3 DEF NoJob
<1> QED
  BY <1>1, <1>2, <1>3 DEF At

(* flushPublishers: nothing this worker published is unconfirmed any more. *)
LEMMA ConfirmInd ==
  ASSUME IndInv, TypeOK', Confirm
  PROVE  IndInv'
<1>1. /\ job # NoJob /\ job.client \in Client /\ job.kind \in {"checkpoint", "complete"}
      /\ job.step = "confirm" /\ job' # NoJob /\ job'.step = "snapshot"
      /\ job'.kind = job.kind /\ job'.client = job.client
  BY JobFields DEF Confirm
<1>2. unconf = {} /\ UNCHANGED <<ready, pending, aborts, mem, disk, tomb, closed, unconf, down>>
  BY DEF Confirm
<1>3. (KnownBatches /\ Counted /\ Ahead /\ PendingKnown)'
  BY <1>2, FrameInd DEF IndInv
<1>4. PendingNew'
  BY <1>1, <1>2 DEF IndInv, PendingNew, PendingBatches
<1>5. JobInv'
  BY <1>1, <1>2 DEF IndInv, JobInv
<1>6. ~TornWrites => Durable'
  BY <1>1, <1>2 DEF IndInv, Durable, AckedBatchIsDurable, Held, PendingBatches, At
<1>7. (ForwardedInv /\ ResultIsComplete)'
  BY <1>2 DEF IndInv, ForwardedInv, AckedBatchIsForwarded, ResultIsComplete, Held, BatchesOf
<1> QED
  BY <1>3, <1>4, <1>5, <1>6, <1>7 DEF IndInv

(* Every way to write a checkpoint of c keeps the batches it had, and with   *)
(* untorn segments adds the unacknowledged ones.                             *)
LEMMA CheckpointKeeps ==
  ASSUME IndInv, NEW c \in Client, PendingBatches(c) \cap Load(disk[c]).dedup = {},
         NEW d \in Checkpoints(c)
  PROVE  /\ d \in DiskState
         /\ d.snap.dedup \subseteq BatchesOf(c) /\ d.log \subseteq BatchesOf(c)
         /\ d.snap.final => d.snap.dedup = BatchesOf(c)
         /\ Disjoint(d)
         /\ Behind(Load(disk[c]), Load(d)) /\ Behind(Load(d), mem[c])
         /\ ~disk[c].torn => ~d.torn /\ PendingBatches(c) \subseteq Load(d).dedup
<1>1. /\ disk[c] \in DiskState /\ mem[c] \in ClientState /\ mem \in [Client -> ClientState]
      /\ disk \in [Client -> DiskState]
      /\ PendingBatches(c) \subseteq BatchesOf(c) /\ PendingBatches(c) \subseteq mem[c].dedup
      /\ BatchesOf(c) \subseteq Batch
  BY DEF IndInv, TypeOK, DiskState, PendingBatches, BatchesOf, PendingKnown
<1>2. d \in DiskState
  BY <1>1, CheckpointType
<1>3. /\ CountedOnce(mem[c]) /\ Disjoint(disk[c]) /\ Behind(Load(disk[c]), mem[c])
      /\ mem[c].dedup \subseteq BatchesOf(c)
      /\ mem[c].final => mem[c].dedup = BatchesOf(c)
      /\ disk[c].snap.dedup \subseteq BatchesOf(c) /\ disk[c].log \subseteq BatchesOf(c)
      /\ disk[c].snap.final => disk[c].snap.dedup = BatchesOf(c)
  BY DEF IndInv, Counted, Ahead, KnownBatches
<1>4. Load(disk[c]).dedup = disk[c].snap.dedup \cup disk[c].log /\ Load(d).dedup = d.snap.dedup \cup d.log
  BY <1>1, <1>2, LoadFields
<1>5. CASE d = Snapshot(c)
  <2>1. d.snap = mem[c] /\ d.log = {} /\ ~d.torn
    BY <1>5 DEF Snapshot
  <2>2. /\ Load(d).dedup = mem[c].dedup /\ Load(d).from = mem[c].from
        /\ Load(d).coord = mem[c].coord /\ Load(d).outSeq = mem[c].outSeq
    BY <1>2, <2>1, LoadFields
  <2>3. Behind(Load(disk[c]), Load(d))
    BY <1>3, <2>2 DEF Behind
  <2>4. Behind(Load(d), mem[c])
    BY <1>1, <2>2 DEF Behind, ClientState
  <2>5. Disjoint(d)
    BY <1>3, <2>1 DEF Disjoint
  <2>6. d.snap.dedup \subseteq BatchesOf(c) /\ d.log \subseteq BatchesOf(c)
    BY <1>3, <2>1
  <2>7. d.snap.final => d.snap.dedup = BatchesOf(c)
    BY <1>3, <2>1
  <2>8. PendingBatches(c) \subseteq Load(d).dedup
    BY <1>1, <2>2
  <2> QED
    BY <1>2, <2>1, <2>3, <2>4, <2>5, <2>6, <2>7, <2>8
<1>6. CASE d = Appended(disk[c], PendingBatches(c)) /\ disk[c].torn
  <2>1. d = disk[c]
    BY <1>6 DEF Appended
  <2>2. Behind(Load(d), Load(d))
    BY <1>2, LoadType DEF Behind, ClientState
  <2> QED
    BY <1>2, <1>3, <1>6, <2>1, <2>2
<1>7. CASE d = Appended(disk[c], PendingBatches(c)) /\ ~disk[c].torn
  <2>1. /\ d.snap = disk[c].snap /\ d.log = disk[c].log \cup PendingBatches(c)
        /\ d.torn = disk[c].torn
    BY <1>1, <1>7 DEF Appended, DiskState
  <2>2. /\ Load(d).dedup = Load(disk[c]).dedup \cup PendingBatches(c)
        /\ Load(d).from = Load(disk[c]).from
        /\ Load(d).coord = Load(disk[c]).coord /\ Load(d).outSeq = Load(disk[c]).outSeq
    BY <1>1, <1>2, <1>4, <2>1, LoadFields
  <2>3. Behind(Load(disk[c]), Load(d))
    BY <1>1, <2>2, LoadType DEF Behind, ClientState
  <2>4. Behind(Load(d), mem[c])
    BY <1>1, <1>3, <2>2 DEF Behind
  <2>5. Disjoint(d)
    BY <1>3, <1>4, <2>1 DEF Disjoint
  <2> QED
    BY <1>1, <1>2, <1>3, <1>7, <2>1, <2>2, <2>3, <2>4, <2>5
<1> QED
  BY <1>5, <1>6, <1>7 DEF Checkpoints

(* Writing a checkpoint makes the unacknowledged batches durable. *)
LEMMA WriteCheckpointInd ==
  ASSUME IndInv, TypeOK', WriteCheckpoint
  PROVE  IndInv'
<1> DEFINE c == job.client
<1>1. /\ job # NoJob /\ c \in Client /\ job.kind = "checkpoint" /\ job.step = "snapshot"
      /\ job' # NoJob /\ job'.step = "ack" /\ job'.kind = "checkpoint" /\ job'.client = c
  BY JobFields DEF WriteCheckpoint
<1>2. UNCHANGED <<ready, pending, aborts, mem, tomb, closed, unconf, down>>
  BY DEF WriteCheckpoint
<1>3. PendingBatches(c) \cap Load(disk[c]).dedup = {} /\ unconf = {}
  BY <1>1 DEF IndInv, PendingNew, JobInv
<1>4. PICK d \in Checkpoints(c) : disk' = [disk EXCEPT ![c] = d]
  BY DEF WriteCheckpoint
<1>5. \A x \in Client : disk'[x] = IF x = c THEN d ELSE disk[x]
  BY <1>1, <1>4 DEF IndInv, TypeOK
<1>6. /\ d \in DiskState
      /\ d.snap.dedup \subseteq BatchesOf(c) /\ d.log \subseteq BatchesOf(c)
      /\ d.snap.final => d.snap.dedup = BatchesOf(c)
      /\ Disjoint(d)
      /\ Behind(Load(disk[c]), Load(d)) /\ Behind(Load(d), mem[c])
      /\ ~disk[c].torn => ~d.torn /\ PendingBatches(c) \subseteq Load(d).dedup
  BY <1>1, <1>3, CheckpointKeeps
<1>7. Load(disk[c]).dedup \subseteq Load(d).dedup /\ Load(d).dedup \subseteq mem[c].dedup
  BY <1>6 DEF Behind
<1>8. (KnownBatches /\ Counted /\ Ahead /\ PendingKnown)'
  BY <1>2, <1>5, <1>6 DEF IndInv, KnownBatches, Counted, Ahead, PendingKnown, PendingBatches
<1>9. PendingNew'
  BY <1>1, <1>2, <1>5 DEF IndInv, PendingNew, PendingBatches
<1>10. JobInv'
  BY <1>1, <1>2, <1>3 DEF JobInv
<1>11. ASSUME ~TornWrites PROVE Durable'
  <2>1. Durable
    BY <1>11 DEF IndInv
  <2>2. \A x \in Client : PendingBatches(x)' = PendingBatches(x)
    BY <1>2 DEF PendingBatches
  <2>3. \A x \in Client : ~disk'[x].torn /\ Load(disk[x]).dedup \subseteq Load(disk'[x]).dedup
    BY <1>1, <1>5, <1>6, <1>7, <2>1 DEF Durable
  <2>4. AckedBatchIsDurable'
    BY <1>2, <2>1, <2>3 DEF Durable, AckedBatchIsDurable, Held
  <2>5. PendingBatches(c) \subseteq Load(disk'[c]).dedup
    BY <1>1, <1>5, <1>6, <2>1 DEF Durable
  <2>6. \A x \in Client \ closed : mem[x].dedup \subseteq Load(disk'[x]).dedup \cup PendingBatches(x)
    BY <2>1, <2>3 DEF Durable
  <2> QED
    BY <1>1, <1>2, <2>2, <2>3, <2>4, <2>5, <2>6 DEF Durable, At
<1>12. ForwardedInv'
  <2>1. ASSUME NEW b \in mem[c].dedup, c \notin closed PROVE Forwarded(b) \in down
    BY <1>1, <1>3, <2>1 DEF IndInv, ForwardedInv, KnownBatches, BatchesOf
  <2>2. AckedBatchIsForwarded'
    BY <1>2 DEF IndInv, ForwardedInv, AckedBatchIsForwarded, Held
  <2>3. \A x \in Client \ closed : \A b \in Load(disk'[x]).dedup : Forwarded(b) \in down
    BY <1>5, <1>7, <2>1 DEF IndInv, ForwardedInv
  <2> QED
    BY <1>2, <2>2, <2>3 DEF IndInv, ForwardedInv, BatchesOf
<1>13. ResultIsComplete'
  BY <1>2 DEF IndInv, ResultIsComplete
<1> QED
  BY <1>8, <1>9, <1>10, <1>11, <1>12, <1>13 DEF IndInv

(* The last snapshot of a completed client holds all its batches. *)
LEMMA WriteFinalCheckpointInd ==
  ASSUME IndInv, TypeOK', WriteFinalCheckpoint
  PROVE  IndInv'
<1> DEFINE c == job.client
           d == FinalCheckpoint(c)
<1>1. /\ job # NoJob /\ c \in Client /\ job.kind = "complete" /\ job.step = "snapshot"
      /\ job' # NoJob /\ job'.step = "tombstone" /\ job'.kind = "complete" /\ job'.client = c
  BY JobFields DEF WriteFinalCheckpoint
<1>2. /\ UNCHANGED <<ready, pending, aborts, mem, tomb, closed, unconf, down>>
      /\ disk' = [disk EXCEPT ![c] = d]
  BY DEF WriteFinalCheckpoint
<1>3. mem[c].final /\ mem[c].dedup = BatchesOf(c) /\ unconf = {}
  BY <1>1 DEF IndInv, JobInv, KnownBatches
<1>4. /\ d.snap = mem[c] /\ d.log = disk[c].log /\ d.torn = disk[c].torn /\ d \in DiskState
  BY <1>1, CheckpointType DEF FinalCheckpoint, IndInv, TypeOK, DiskState
<1>5. \A x \in Client : disk'[x] = IF x = c THEN d ELSE disk[x]
  BY <1>1, <1>2 DEF IndInv, TypeOK
<1> HIDE DEF d
<1>6. /\ Load(d).dedup = BatchesOf(c) /\ Load(d).from = mem[c].from
      /\ Load(d).coord = mem[c].coord /\ Load(d).outSeq = mem[c].outSeq
  <2>1. d.log \subseteq BatchesOf(c)
    BY <1>1, <1>4 DEF IndInv, KnownBatches
  <2>2. /\ Load(d).dedup = mem[c].dedup \cup d.log /\ Load(d).from = mem[c].from
        /\ Load(d).coord = mem[c].coord /\ Load(d).outSeq = mem[c].outSeq
    BY <1>4, LoadFields
  <2>3. BatchesOf(c) \cup d.log = BatchesOf(c)
    BY <2>1
  <2> QED
    BY <1>3, <2>2, <2>3
<1>7. Behind(Load(d), mem[c])
  BY <1>1, <1>3, <1>6 DEF Behind, IndInv, TypeOK, ClientState
<1>8. (KnownBatches /\ Counted /\ Ahead /\ PendingKnown)'
  BY <1>2, <1>3, <1>4, <1>5, <1>7
  DEF IndInv, KnownBatches, Counted, Ahead, PendingKnown, PendingBatches, Disjoint
<1>9. PendingNew'
  BY <1>1, <1>2, <1>5 DEF IndInv, PendingNew, PendingBatches
<1>10. JobInv'
  BY <1>1, <1>2, <1>3 DEF JobInv
<1>11. ASSUME ~TornWrites PROVE Durable'
  <2>1. Durable
    BY <1>11 DEF IndInv
  <2>2. \A x \in Client : Load(disk[x]).dedup \subseteq Load(disk'[x]).dedup
    BY <1>1, <1>3, <1>5, <1>6 DEF IndInv, Ahead, Behind
  <2>3. AckedBatchIsDurable'
    BY <1>2, <2>1, <2>2 DEF Durable, AckedBatchIsDurable, Held
  <2>4. \A x \in Client : ~disk'[x].torn
    BY <1>1, <1>4, <1>5, <2>1 DEF Durable
  <2>5. \A x \in Client : PendingBatches(x)' = PendingBatches(x)
    BY <1>2 DEF PendingBatches
  <2>6. ~At({"checkpoint"}, "ack")'
    BY <1>1 DEF At
  <2>7. \A x \in Client \ closed : mem[x].dedup \subseteq Load(disk'[x]).dedup \cup PendingBatches(x)
    BY <2>1, <2>2 DEF Durable
  <2> QED
    BY <1>2, <2>3, <2>4, <2>5, <2>6, <2>7 DEF Durable
<1>12. ForwardedInv'
  <2>1. ASSUME NEW b \in BatchesOf(c), c \notin closed PROVE Forwarded(b) \in down
    BY <1>1, <1>3, <2>1 DEF IndInv, ForwardedInv, BatchesOf
  <2>2. AckedBatchIsForwarded'
    BY <1>2 DEF IndInv, ForwardedInv, AckedBatchIsForwarded, Held
  <2>3. \A x \in Client \ closed : \A b \in Load(disk'[x]).dedup : Forwarded(b) \in down
    BY <1>5, <1>6, <2>1 DEF IndInv, ForwardedInv
  <2> QED
    BY <1>2, <2>2, <2>3 DEF IndInv, ForwardedInv, BatchesOf
<1>13. ResultIsComplete'
  BY <1>2 DEF IndInv, ResultIsComplete
<1> QED
  BY <1>8, <1>9, <1>10, <1>11, <1>12, <1>13 DEF IndInv

(* A client is closed when it was aborted or all its batches went through. *)
LEMMA WriteTombstoneInd ==
  ASSUME IndInv, TypeOK', WriteTombstone
  PROVE  IndInv'
<1> DEFINE c == job.client
<1>1. /\ job # NoJob /\ c \in Client /\ job.kind \in {"complete", "abort"} /\ job.step = "tombstone"
      /\ job' # NoJob /\ job'.step = "ack" /\ job'.kind = job.kind /\ job'.client = c
  BY JobFields DEF WriteTombstone
<1>2. UNCHANGED <<ready, pending, aborts, mem, disk, unconf, down>> /\ closed' = closed \cup {c}
  BY DEF WriteTombstone
<1>3. (KnownBatches /\ Counted /\ Ahead /\ PendingKnown)'
  BY <1>2, FrameInd DEF IndInv
<1>4. PendingNew'
  BY <1>1, <1>2 DEF IndInv, PendingNew, PendingBatches
<1>5. JobInv'
  BY <1>1, <1>2 DEF IndInv, JobInv
<1>6. ~TornWrites => Durable'
  BY <1>1, <1>2 DEF IndInv, Durable, AckedBatchIsDurable, Held, PendingBatches, At
<1>7. ASSUME c \notin closed
      PROVE  aborts[c] # "none" \/ \A b \in BatchesOf(c) : Forwarded(b) \in down
  <2>1. CASE job.kind = "abort"
    BY <1>1, <2>1 DEF IndInv, JobInv
  <2>2. CASE job.kind = "complete"
    <3>1. unconf = {} /\ mem[c].dedup = BatchesOf(c)
      BY <1>1, <2>2 DEF IndInv, JobInv, KnownBatches
    <3> QED
      BY <1>1, <1>7, <3>1 DEF IndInv, ForwardedInv, BatchesOf
  <2> QED
    BY <1>1, <2>1, <2>2
<1>8. ForwardedInv'
  <2>1. AckedBatchIsForwarded'
    BY <1>2 DEF IndInv, ForwardedInv, AckedBatchIsForwarded, Held
  <2> QED
    BY <1>2, <1>7, <2>1 DEF IndInv, ForwardedInv, BatchesOf
<1>9. ResultIsComplete'
  BY <1>2 DEF IndInv, ResultIsComplete
<1> QED
  BY <1>3, <1>4, <1>5, <1>6, <1>8, <1>9 DEF IndInv

(* An acknowledged batch is durable and forwarded, because its job has       *)
(* written and waited for the confirms, or its client is closed.             *)
LEMMA AckInd ==
  ASSUME IndInv, TypeOK', NEW m \in pending, Ack(m)
  PROVE  IndInv'
<1> DEFINE c == job.client
<1>1. job # NoJob /\ c \in Client /\ job.kind \in {"checkpoint", "complete", "abort"} /\ job.step = "ack"
  BY JobFields DEF Ack
<1>2. /\ UNCHANGED <<ready, aborts, mem, disk, tomb, closed, unconf, down, job>>
      /\ pending' = pending \ {m} /\ ClientOfMsg(m) = c
  BY DEF Ack, PendingOf
<1>3. /\ unconf = {} \/ aborts[c] # "none"
      /\ job.kind = "checkpoint" \/ c \in closed
      /\ job.kind = "checkpoint" => unconf = {}
      /\ job.kind = "complete" => unconf = {}
  BY <1>1 DEF IndInv, JobInv
<1>4. \A b \in Batch : m = BatchMsg(b) => clientOf[b] = c /\ b \in BatchesOf(c)
  BY <1>2 DEF ClientOfMsg, BatchMsg, BatchesOf
<1>5. \A x \in Client : PendingBatches(x)' \subseteq PendingBatches(x) /\ (x # c => PendingBatches(x)' = PendingBatches(x))
  BY <1>2, <1>4 DEF PendingBatches, BatchesOf
<1>6. \A b \in Batch : Held(BatchMsg(b)) => Held(BatchMsg(b))' \/ m = BatchMsg(b)
  BY <1>2 DEF Held
<1>7. (KnownBatches /\ Counted /\ Ahead)'
  BY <1>2 DEF IndInv, KnownBatches, Counted, Ahead
<1>8. (PendingKnown /\ PendingNew)'
  BY <1>2, <1>5 DEF IndInv, PendingKnown, PendingNew
<1>9. (JobInv /\ ResultIsComplete)'
  BY <1>2 DEF IndInv, JobInv, ResultIsComplete
<1>10. ASSUME ~TornWrites PROVE Durable'
  <2>1. Durable
    BY <1>10 DEF IndInv
  <2>2. c \in closed \/ PendingBatches(c) \subseteq Load(disk[c]).dedup
    BY <1>1, <1>3, <2>1 DEF Durable, At
  <2>3. AckedBatchIsDurable'
    <3> SUFFICES ASSUME NEW b \in Batch
                 PROVE  \/ Held(BatchMsg(b))' \/ clientOf[b] \in closed
                        \/ b \in Load(disk[clientOf[b]]).dedup
      BY <1>2 DEF AckedBatchIsDurable
    <3>1. CASE m = BatchMsg(b)
      BY <1>4, <2>2, <3>1 DEF PendingBatches
    <3>2. CASE m # BatchMsg(b)
      BY <1>6, <2>1, <3>2 DEF Durable, AckedBatchIsDurable
    <3> QED
      BY <3>1, <3>2
  <2>4. \A x \in Client \ closed : mem[x].dedup \subseteq Load(disk[x]).dedup \cup PendingBatches(x)'
    BY <1>5, <2>1, <2>2 DEF Durable
  <2>5. At({"checkpoint"}, "ack")' => PendingBatches(c)' \subseteq Load(disk[c]).dedup
    BY <1>1, <1>2, <1>5, <2>1 DEF Durable, At
  <2> QED
    BY <1>2, <2>1, <2>3, <2>4, <2>5 DEF Durable
<1>11. ForwardedInv'
  <2>1. ASSUME NEW b \in Batch, m = BatchMsg(b)
        PROVE  aborts[c] # "none" \/ Forwarded(b) \in down
    BY <1>2, <1>3, <2>1 DEF IndInv, ForwardedInv
  <2>2. AckedBatchIsForwarded'
    BY <1>2, <1>4, <1>6, <2>1 DEF IndInv, ForwardedInv, AckedBatchIsForwarded
  <2>3. ASSUME NEW x \in Client \ closed, NEW b \in mem[x].dedup
        PROVE  BatchMsg(b) \in pending' \/ Forwarded(b) \in down
    <3>1. b \in Batch /\ clientOf[b] = x
      BY <2>3 DEF IndInv, KnownBatches, BatchesOf
    <3>2. CASE m = BatchMsg(b)
      BY <1>1, <1>2, <1>3, <1>4, <2>3, <3>1, <3>2 DEF IndInv, ForwardedInv
    <3>3. CASE m # BatchMsg(b)
      BY <1>2, <2>3, <3>3 DEF IndInv, ForwardedInv
    <3> QED
      BY <3>2, <3>3
  <2> QED
    BY <1>2, <2>2, <2>3 DEF IndInv, ForwardedInv, BatchesOf
<1> QED
  BY <1>7, <1>8, <1>9, <1>10, <1>11 DEF IndInv

(* A finished job leaves no unacknowledged delivery of its client. *)
LEMMA CheckpointDoneInd ==
  ASSUME IndInv, TypeOK', CheckpointDone
  PROVE  IndInv'
<1>1. UNCHANGED <<ready, pending, aborts, mem, disk, tomb, closed, unconf, down>> /\ job' = NoJob
  BY DEF CheckpointDone
<1>2. PendingBatches(job.client) = {}
  BY DEF CheckpointDone, PendingOf, PendingBatches, ClientOfMsg, BatchMsg, BatchesOf
<1>3. (KnownBatches /\ Counted /\ Ahead /\ PendingKnown)'
  BY <1>1, FrameInd DEF IndInv
<1>4. PendingNew'
  BY <1>1, <1>2 DEF IndInv, PendingNew, PendingBatches
<1>5. ~TornWrites => Durable'
  BY <1>1 DEF IndInv, Durable, AckedBatchIsDurable, Held, PendingBatches, At, NoJob
<1>6. (JobInv /\ ForwardedInv /\ ResultIsComplete)'
  BY <1>1 DEF IndInv, JobInv, ForwardedInv, AckedBatchIsForwarded, ResultIsComplete, Held, BatchesOf
<1> QED
  BY <1>3, <1>4, <1>5, <1>6 DEF IndInv

(* Only a closed client is forgotten (cleanupClientState). *)
LEMMA CleanupInd ==
  ASSUME IndInv, TypeOK', Cleanup
  PROVE  IndInv'
<1> DEFINE c == job.client
<1>1. c \in Client /\ c \in closed /\ PendingBatches(c) = {}
  <2>1. c \in Client /\ job # NoJob /\ job.kind \in {"complete", "abort"} /\ job.step = "ack"
    BY JobFields DEF Cleanup
  <2>2. PendingBatches(c) = {}
    BY DEF Cleanup, PendingOf, PendingBatches, ClientOfMsg, BatchMsg, BatchesOf
  <2> QED
    BY <2>1, <2>2 DEF IndInv, JobInv
<1>2. /\ UNCHANGED <<ready, pending, tomb, closed, unconf, down>> /\ job' = NoJob
      /\ \A x \in Client : mem'[x] = IF x = c THEN Fresh ELSE mem[x]
      /\ \A x \in Client : disk'[x] = IF x = c THEN NoCheckpoint ELSE disk[x]
      /\ \A x \in Client : aborts[x] # "none" => aborts'[x] # "none"
  BY <1>1 DEF Cleanup, IndInv, TypeOK
<1>3. \A x \in Client : PendingBatches(x)' = PendingBatches(x)
  BY <1>2 DEF PendingBatches
<1>4. (KnownBatches /\ Counted /\ Ahead)'
  BY <1>2, FreshFields DEF IndInv, KnownBatches, Counted, Ahead
<1>5. (PendingKnown /\ PendingNew)'
  BY <1>1, <1>2, <1>3 DEF IndInv, PendingKnown, PendingNew
<1>6. (JobInv /\ ResultIsComplete)'
  BY <1>2 DEF IndInv, JobInv, ResultIsComplete
<1>7. ASSUME ~TornWrites PROVE Durable'
  <2>1. Durable
    BY <1>7 DEF IndInv
  <2>2. AckedBatchIsDurable'
    BY <1>1, <1>2, <2>1 DEF Durable, AckedBatchIsDurable, Held
  <2> QED
    BY <1>1, <1>2, <1>3, <2>1, <2>2, FreshFields DEF Durable, At, NoJob
<1>8. ForwardedInv'
  <2>1. AckedBatchIsForwarded'
    BY <1>2 DEF IndInv, ForwardedInv, AckedBatchIsForwarded, Held
  <2>2. closed \subseteq Client
    BY DEF IndInv, TypeOK
  <2> QED
    BY <1>1, <1>2, <2>1, <2>2 DEF IndInv, ForwardedInv, BatchesOf
<1> QED
  BY <1>4, <1>5, <1>6, <1>7, <1>8 DEF IndInv

-----------------------------------------------------------------------------
(* Steps that start jobs, and the environment *)

(* A step that leaves the messages held, the memory and the files as they    *)
(* are, and at most starts a checkpoint or an abort.                         *)
LEMMA IdleInd ==
  ASSUME IndInv, TypeOK', UNCHANGED <<pending, mem, disk, closed>>,
         ready \subseteq ready', down \subseteq down', unconf' \subseteq unconf,
         \A o \in unconf : o.type # "eof" => o \in unconf' \cup down',
         down' \subseteq down \cup unconf,
         \A c \in Client : aborts[c] # "none" => aborts'[c] # "none",
         \/ job' = job
         \/ \E c \in Client : /\ job = NoJob
                            /\ \/ job' = Job("checkpoint", c, "confirm")
                               \/ job' = Job("abort", c, "tombstone") /\ aborts'[c] # "none"
  PROVE  IndInv'
<1>1. (KnownBatches /\ Counted /\ Ahead /\ PendingKnown)'
  BY FrameInd DEF IndInv
<1>2. \A c \in Client : PendingBatches(c)' = PendingBatches(c)
  BY DEF PendingBatches
<1>3. PendingNew'
  BY <1>2 DEF IndInv, PendingNew
<1>4. JobInv'
  BY DEF IndInv, JobInv, Job, TypeOK, Jobs
<1>5. ASSUME ~TornWrites PROVE Durable'
  <2>1. Durable
    BY <1>5 DEF IndInv
  <2>2. AckedBatchIsDurable'
    BY <2>1 DEF Durable, AckedBatchIsDurable, Held
  <2>3. At({"checkpoint"}, "ack")' => job' = job /\ At({"checkpoint"}, "ack")
    BY DEF At, Job
  <2> QED
    BY <1>2, <2>1, <2>2, <2>3 DEF Durable, PendingBatches
<1>6. ForwardedInv'
  <2>1. \A b \in Batch : Forwarded(b) \in unconf => Forwarded(b) \in unconf' \cup down'
    BY DEF Forwarded
  <2>2. AckedBatchIsForwarded'
    BY DEF IndInv, ForwardedInv, AckedBatchIsForwarded, Held
  <2>3. closed \subseteq Client
    BY DEF IndInv, TypeOK
  <2> QED
    BY <2>1, <2>2, <2>3 DEF IndInv, ForwardedInv, BatchesOf
<1>7. ResultIsComplete'
  BY DEF IndInv, ResultIsComplete
<1> QED
  BY <1>1, <1>3, <1>4, <1>5, <1>6, <1>7 DEF IndInv

(* A kill loses nothing of a file: at most a prefix of the append under way  *)
(* is there as well.                                                         *)
LEMMA SurvivorKeeps ==
  ASSUME IndInv, NEW d \in SurvivingDisks, NEW c \in Client
  PROVE  /\ d[c] \in DiskState /\ d[c].snap = disk[c].snap /\ d[c].log \subseteq BatchesOf(c)
         /\ Disjoint(d[c])
         /\ Behind(Load(disk[c]), Load(d[c]))
         /\ ~TornWrites => d[c] = disk[c]
         /\ \A b \in Load(d[c]).dedup \ Load(disk[c]).dedup : unconf = {} /\ b \in mem[c].dedup
<1>1. /\ disk[c] \in DiskState /\ disk \in [Client -> DiskState]
      /\ disk[c].log \subseteq BatchesOf(c) /\ Disjoint(disk[c])
      /\ Behind(Load(disk[c]), Load(disk[c]))
  <2>1. disk[c] \in DiskState /\ disk \in [Client -> DiskState]
    BY DEF IndInv, TypeOK, DiskState
  <2>2. Behind(Load(disk[c]), Load(disk[c]))
    BY <2>1, LoadType DEF Behind, ClientState
  <2> QED
    BY <2>1, <2>2 DEF IndInv, KnownBatches, Counted
<1>2. d[c] \in DiskState
  BY SurvivingType DEF IndInv
<1>3. CASE d[c] = disk[c]
  BY <1>1, <1>3
<1>4. CASE d[c] # disk[c]
  <2>1. /\ At({"checkpoint"}, "snapshot") /\ TornWrites
        /\ \E e \in CutAppends(disk[job.client], PendingBatches(job.client)) :
             d = [disk EXCEPT ![job.client] = e]
    BY <1>4 DEF SurvivingDisks
  <2>2. /\ job.client \in Client /\ job # NoJob /\ job.kind = "checkpoint" /\ job.step = "snapshot"
    BY <2>1, JobFields
  <2>3. job.client = c /\ d[c] \in CutAppends(disk[c], PendingBatches(c))
    BY <1>1, <1>4, <2>1, <2>2
  <2>4. PICK kept \in SUBSET PendingBatches(c) :
          \/ d[c] = [disk[c] EXCEPT !.log = @ \cup kept]
          \/ d[c] = [disk[c] EXCEPT !.log = @ \cup kept, !.torn = TRUE]
    BY <1>4, <2>3 DEF CutAppends
  <2>5. d[c].snap = disk[c].snap /\ d[c].log = disk[c].log \cup kept
    BY <1>1, <2>4 DEF DiskState
  <2>6. /\ PendingBatches(c) \cap Load(disk[c]).dedup = {} /\ unconf = {}
        /\ PendingBatches(c) \subseteq mem[c].dedup /\ PendingBatches(c) \subseteq BatchesOf(c)
    BY <2>2, <2>3 DEF IndInv, PendingNew, JobInv, PendingKnown, PendingBatches
  <2>7. /\ Load(d[c]).dedup = Load(disk[c]).dedup \cup kept
        /\ Load(d[c]).from = Load(disk[c]).from
        /\ Load(d[c]).coord = Load(disk[c]).coord /\ Load(d[c]).outSeq = Load(disk[c]).outSeq
        /\ Load(disk[c]).dedup = disk[c].snap.dedup \cup disk[c].log
    BY <1>1, <1>2, <2>5, LoadFields
  <2>8. Behind(Load(disk[c]), Load(d[c]))
    BY <1>1, <2>7 DEF Behind
  <2>9. Disjoint(d[c])
    BY <1>1, <2>5, <2>6, <2>7 DEF Disjoint
  <2> QED
    BY <1>1, <1>2, <2>1, <2>5, <2>6, <2>7, <2>8, <2>9
<1> QED
  BY <1>3, <1>4

(* A restart keeps the invariant (loadCheckpoints). *)
LEMMA RestartInd ==
  ASSUME IndInv, TypeOK', Restart
  PROVE  IndInv'
<1>1. PICK d \in SurvivingDisks : disk' = [c \in Client |-> IF c \in tomb THEN NoCheckpoint ELSE d[c]]
  BY DEF Restart
<1>2. /\ \A c \in Client : disk'[c] = IF c \in tomb THEN NoCheckpoint ELSE d[c]
      /\ \A c \in Client : mem'[c] = Load(disk'[c])
      /\ ready' = ready \cup pending /\ pending' = {} /\ unconf' = {} /\ job' = NoJob
      /\ UNCHANGED <<aborts, tomb, closed, down>>
  BY <1>1 DEF Restart
<1>3. \A c \in Client : PendingBatches(c)' = {}
  BY <1>2 DEF PendingBatches
<1>4. tomb \subseteq closed /\ closed \subseteq Client
  BY DEF IndInv, TypeOK
<1>5. ASSUME NEW c \in Client
      PROVE  /\ disk'[c] \in DiskState /\ Disjoint(disk'[c])
             /\ disk'[c].snap.dedup \subseteq BatchesOf(c) /\ disk'[c].log \subseteq BatchesOf(c)
             /\ disk'[c].snap.final => disk'[c].snap.dedup = BatchesOf(c)
  BY <1>2, SurvivorKeeps, FreshFields, FreshType DEF IndInv, KnownBatches
<1>6. ASSUME NEW c \in Client
      PROVE  /\ Load(disk'[c]) \in ClientState /\ CountedOnce(Load(disk'[c]))
             /\ Behind(Load(disk'[c]), Load(disk'[c]))
             /\ Load(disk'[c]).dedup = disk'[c].snap.dedup \cup disk'[c].log
             /\ Load(disk'[c]).final = disk'[c].snap.final
  <2>1. Load(disk'[c]) \in ClientState /\ CountedOnce(Load(disk'[c]))
    BY <1>5, LoadType, LoadCounted
  <2>2. Behind(Load(disk'[c]), Load(disk'[c]))
    BY <2>1 DEF Behind, ClientState
  <2> QED
    BY <1>5, <2>1, <2>2, LoadFields
<1>7. KnownBatches'
  <2> SUFFICES ASSUME NEW c \in Client
               PROVE  /\ Load(disk'[c]).dedup \subseteq BatchesOf(c)
                      /\ Load(disk'[c]).final => Load(disk'[c]).dedup = BatchesOf(c)
    BY <1>2, <1>5 DEF KnownBatches
  <2>1. Load(disk'[c]).dedup \subseteq BatchesOf(c)
    BY <1>5, <1>6
  <2>2. ASSUME Load(disk'[c]).final PROVE BatchesOf(c) \subseteq Load(disk'[c]).dedup
    BY <1>5, <1>6, <2>2
  <2> QED
    BY <2>1, <2>2
<1>8. (Counted /\ Ahead)'
  BY <1>2, <1>5, <1>6 DEF Counted, Ahead
<1>9. (PendingKnown /\ PendingNew /\ JobInv)'
  BY <1>2, <1>3 DEF PendingKnown, PendingNew, JobInv
<1>10. ASSUME ~TornWrites PROVE Durable'
  <2>1. Durable
    BY <1>10 DEF IndInv
  <2>2. \A c \in Client : ~disk'[c].torn /\ (c \notin tomb => disk'[c] = disk[c])
    BY <1>2, <1>10, <2>1, SurvivorKeeps, FreshFields DEF Durable
  <2>3. AckedBatchIsDurable'
    BY <1>2, <1>4, <2>1, <2>2 DEF Durable, AckedBatchIsDurable, Held
  <2> QED
    BY <1>2, <1>3, <2>2, <2>3 DEF Durable, At, NoJob
<1>11. ForwardedInv'
  <2>1. ASSUME NEW c \in Client \ closed, NEW b \in Load(disk'[c]).dedup PROVE Forwarded(b) \in down
    <3>1. disk'[c] = d[c]
      BY <1>2, <1>4
    <3>2. CASE b \in Load(disk[c]).dedup
      BY <3>2 DEF IndInv, ForwardedInv
    <3>3. CASE b \notin Load(disk[c]).dedup
      <4>1. unconf = {} /\ b \in mem[c].dedup
        BY <2>1, <3>1, <3>3, SurvivorKeeps
      <4>2. b \in Batch
        BY <4>1 DEF IndInv, KnownBatches, BatchesOf
      <4> QED
        BY <4>1, <4>2 DEF IndInv, ForwardedInv
    <3> QED
      BY <3>2, <3>3
  <2>2. AckedBatchIsForwarded'
    BY <1>2 DEF IndInv, ForwardedInv, AckedBatchIsForwarded, Held
  <2> QED
    BY <1>2, <2>1, <2>2 DEF IndInv, ForwardedInv, BatchesOf
<1>12. ResultIsComplete'
  BY <1>2 DEF IndInv, ResultIsComplete
<1> QED
  BY <1>7, <1>8, <1>9, <1>10, <1>11, <1>12 DEF IndInv

-----------------------------------------------------------------------------
(* Every step keeps the invariant: one case for each disjunct of Next. *)
LEMMA StepInd == IndInv /\ [Next]_vars => IndInv'
<1> SUFFICES ASSUME IndInv, [Next]_vars PROVE IndInv'
  OBVIOUS
<1>0. TypeOK'
  BY StepType DEF IndInv
<1>1. CASE Deliver
  <2>1. PICK m \in ready : Discard(m) \/ Handle(m)
    BY <1>1 DEF Deliver
  <2>2. CASE Discard(m)
    BY <2>2, DiscardInd
  <2>3. CASE Handle(m)
    <3>1. m \in Messages
      BY DEF IndInv, TypeOK
    <3>2. CASE m.type = "batch" /\ HandleBatch(m.batch)
      <4>1. m.batch \in Batch /\ m = BatchMsg(m.batch)
        BY <3>1, <3>2 DEF Messages, BatchMsgs, EOFMsgs, BatchMsg
      <4> QED
        BY <1>0, <3>2, <4>1, HandleBatchInd
    <3>3. CASE m.type = "eof" /\ (HandleEOFWait(m) \/ HandleEOFRetry(m) \/ HandleEOFFinal(m))
      <4>1. m \in EOFMsgs
        BY <3>1, <3>3 DEF Messages, BatchMsgs
      <4> QED
        BY <1>0, <3>3, <4>1, HandleEOFInd
    <3> QED
      BY <2>3, <3>2, <3>3 DEF Handle
  <2> QED
    BY <2>1, <2>2, <2>3
<1>2. CASE RunJob
  <2>1. ASSUME NEW c \in sweep, SweepNext(c) PROVE IndInv'
    <3>1. c \in Client
      BY DEF IndInv, TypeOK
    <3> QED
      BY <1>0, <2>1, <3>1, IdleInd DEF SweepNext
  <2> QED
    BY <1>0, <1>2, <2>1, ConfirmInd, WriteCheckpointInd, WriteFinalCheckpointInd, WriteTombstoneInd,
       AckInd, CheckpointDoneInd, CleanupInd DEF RunJob
<1>3. CASE Broker
  BY <1>0, <1>3, IdleInd DEF Broker, Accept
<1>4. CASE Maintenance
  BY <1>0, <1>4, IdleInd DEF Maintenance, StartMaintenance, ExpireTombstone
<1>5. CASE HandleAborts
  <2>1. ASSUME NEW c \in Client, HandleAbort(c) PROVE IndInv'
    <3>1. job = NoJob /\ job' = Job("abort", c, "tombstone") /\ aborts'[c] # "none"
      BY <2>1 DEF HandleAbort, Idle
    <3> QED
      BY <1>0, <2>1, <3>1, IdleInd DEF HandleAbort
  <2>2. ASSUME NEW c \in Client, DropAbort(c) PROVE IndInv'
    <3>1. \A x \in Client : aborts[x] # "none" => aborts'[x] # "none"
      BY <2>2 DEF DropAbort, IndInv, TypeOK
    <3> QED
      BY <1>0, <2>2, <3>1, IdleInd DEF DropAbort
  <2> QED
    BY <1>5, <2>1, <2>2 DEF HandleAborts
<1>6. CASE Crash \/ ShutdownDone
  BY <1>0, <1>6, RestartInd DEF Crash, ShutdownDone
<1>7. CASE Shutdown
  BY <1>0, <1>7, IdleInd DEF Shutdown
<1>8. CASE \E m \in Messages : Redeliver(m)
  BY <1>0, <1>8, IdleInd DEF Redeliver
<1>9. CASE \E c \in Client : RequestAbort(c)
  <2>1. \A x \in Client : aborts[x] # "none" => aborts'[x] # "none"
    BY <1>9 DEF RequestAbort, IndInv, TypeOK
  <2> QED
    BY <1>0, <1>9, <2>1, IdleInd DEF RequestAbort
<1>10. CASE UNCHANGED vars
  BY <1>0, <1>10, IdleInd DEF vars
<1> QED
  BY <1>1, <1>2, <1>3, <1>4, <1>5, <1>6, <1>7, <1>8, <1>9, <1>10 DEF Next

(* The invariant holds in every reachable state. *)
LEMMA Invariance == Spec => []IndInv
  BY InitInd, StepInd, PTL DEF Spec

-----------------------------------------------------------------------------
(* The safety properties *)

(* If a kill never cuts an append, a batch the broker no longer holds is     *)
(* restored by a restart: checkpointAndAck writes before it acknowledges     *)
(* (runtime.go:1128-1151).                                                   *)
THEOREM AckedIsDurable == ~TornWrites => (Spec => []AckedBatchIsDurable)
<1> SUFFICES ASSUME ~TornWrites PROVE Spec => []AckedBatchIsDurable
  OBVIOUS
<1>1. IndInv => AckedBatchIsDurable
  BY DEF IndInv, Durable
<1> QED
  BY <1>1, Invariance, PTL

(* A batch the broker no longer holds has reached the next stage, or its     *)
(* client was aborted (flushPublishers, runtime.go:1136).                    *)
THEOREM AckedIsForwarded == Spec => []AckedBatchIsForwarded
<1>1. IndInv => AckedBatchIsForwarded
  BY DEF IndInv, ForwardedInv
<1> QED
  BY <1>1, Invariance, PTL

(* However often a batch is delivered, replayed or restored, it counts once, *)
(* in memory and on disk (isDuplicateData, dedupAdd, replayWAL).             *)
THEOREM ExactlyOnce == Spec => []ExactlyOnceEffect
<1>1. IndInv => ExactlyOnceEffect
  <2> SUFFICES ASSUME IndInv, NEW c \in Client
               PROVE  CountedOnce(mem[c]) /\ CountedOnce(Load(disk[c]))
    BY DEF ExactlyOnceEffect
  <2> QED
    BY LoadCounted DEF IndInv, Counted, TypeOK, DiskState
<1> QED
  BY <1>1, Invariance, PTL

(* The rows emitted for a client count every batch of it once                *)
(* (joiner_accumulate.go:79-82).                                             *)
THEOREM CompleteResults == Spec => []ResultIsComplete
<1>1. IndInv => ResultIsComplete
  BY DEF IndInv
<1> QED
  BY <1>1, Invariance, PTL

(* A step that writes a file of a living client writes at least what was there. *)
LEMMA NeverShrinksStep ==
  ASSUME IndInv, [Next]_vars, NEW c \in Client, c \notin closed'
  PROVE  Behind(Load(disk[c]), Load(disk'[c]))
<1>1. /\ disk[c] \in DiskState /\ tomb \subseteq closed
      /\ Behind(Load(disk[c]), Load(disk[c])) /\ Behind(Load(disk[c]), mem[c])
  <2>1. disk[c] \in DiskState /\ tomb \subseteq closed
    BY DEF IndInv, TypeOK, DiskState
  <2>2. Behind(Load(disk[c]), Load(disk[c]))
    BY <2>1, LoadType DEF Behind, ClientState
  <2> QED
    BY <2>1, <2>2 DEF IndInv, Ahead
<1>2. CASE disk'[c] = disk[c]
  BY <1>1, <1>2
<1>3. CASE WriteCheckpoint /\ disk'[c] # disk[c]
  <2>1. job.client \in Client /\ job # NoJob /\ job.step = "snapshot"
    BY <1>3, JobFields DEF WriteCheckpoint
  <2>2. c = job.client /\ disk'[c] \in Checkpoints(c)
    BY <1>3, <2>1 DEF WriteCheckpoint, IndInv, TypeOK
  <2>3. PendingBatches(c) \cap Load(disk[c]).dedup = {}
    BY <2>1, <2>2 DEF IndInv, PendingNew
  <2> QED
    BY <2>2, <2>3, CheckpointKeeps
<1>4. CASE WriteFinalCheckpoint /\ disk'[c] # disk[c]
  <2> DEFINE d == FinalCheckpoint(c)
  <2>1. c = job.client /\ disk'[c] = d
    BY <1>4 DEF WriteFinalCheckpoint, IndInv, TypeOK
  <2>2. d.snap = mem[c] /\ d \in DiskState
    BY <1>1, CheckpointType DEF FinalCheckpoint, IndInv, TypeOK, DiskState
  <2> HIDE DEF d
  <2>3. /\ mem[c].dedup \subseteq Load(d).dedup /\ Load(d).from = mem[c].from
        /\ Load(d).coord = mem[c].coord /\ Load(d).outSeq = mem[c].outSeq
    BY <2>2, LoadFields
  <2> QED
    BY <1>1, <2>1, <2>3 DEF Behind
<1>5. CASE Cleanup /\ disk'[c] # disk[c]
  <2>1. /\ job.client \in Client /\ job # NoJob /\ job.kind \in {"complete", "abort"}
        /\ job.step = "ack"
    BY <1>5, JobFields DEF Cleanup
  <2>2. job.client \in closed'
    BY <1>5, <2>1 DEF Cleanup, IndInv, JobInv
  <2>3. c = job.client
    BY <1>5 DEF Cleanup, IndInv, TypeOK
  <2> QED
    BY <2>2, <2>3
<1>6. CASE Restart
  <2>1. PICK d \in SurvivingDisks : disk' = [x \in Client |-> IF x \in tomb THEN NoCheckpoint ELSE d[x]]
    BY <1>6 DEF Restart
  <2>2. disk'[c] = d[c]
    BY <1>1, <1>6, <2>1 DEF Restart
  <2> QED
    BY <2>2, SurvivorKeeps
<1> QED
  <2>1. \/ disk' = disk \/ WriteCheckpoint \/ WriteFinalCheckpoint \/ Cleanup \/ Restart
    <3>1. Deliver => disk' = disk
      BY DEF Deliver, Discard, Handle, HandleBatch, HandleEOFWait, HandleEOFRetry, HandleEOFFinal, AcceptEOF
    <3>2. RunJob => disk' = disk \/ WriteCheckpoint \/ WriteFinalCheckpoint \/ Cleanup
      BY DEF RunJob, Confirm, WriteTombstone, Ack, CheckpointDone, SweepNext
    <3>3. Broker \/ Maintenance \/ HandleAborts => disk' = disk
      BY DEF Broker, Accept, Maintenance, StartMaintenance, ExpireTombstone, HandleAborts, HandleAbort, DropAbort
    <3>4. Crash \/ ShutdownDone => Restart
      BY DEF Crash, ShutdownDone
    <3>5. Shutdown \/ (\E m \in Messages : Redeliver(m)) \/ (\E x \in Client : RequestAbort(x)) => disk' = disk
      BY DEF Shutdown, Redeliver, RequestAbort
    <3>6. UNCHANGED vars => disk' = disk
      BY DEF vars
    <3> QED
      BY <3>1, <3>2, <3>3, <3>4, <3>5, <3>6 DEF Next
  <2> QED
    BY <2>1, <1>2, <1>3, <1>4, <1>5, <1>6

(* What a restart would load never goes backwards while the client lives     *)
(* (checkpointAndAck, walCheckpoint, completeClient, loadCheckpoints).       *)
THEOREM DurableMonotone == Spec => DurableNeverShrinks
<1>1. IndInv /\ [Next]_vars =>
        [\A c \in Client : c \notin closed' => Behind(Load(disk[c]), Load(disk'[c]))]_vars
  BY NeverShrinksStep
<1> QED
  BY <1>1, Invariance, PTL DEF Spec, DurableNeverShrinks
=============================================================================
