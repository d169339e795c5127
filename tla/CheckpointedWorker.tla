------------------------- MODULE CheckpointedWorker -------------------------
(***************************************************************************)
(* One replica of a pipeline stage, as src/src/worker/runtime runs it: it  *)
(* consumes batches and upstream EOFs from a RabbitMQ queue, deduplicates  *)
(* them, hands them to its strategy, publishes what the strategy returns,  *)
(* and acknowledges a delivery only after the publishers were confirmed    *)
(* and a checkpoint of the client is on disk.  The process may be killed   *)
(* between any two of those steps; it restarts from its checkpoints and    *)
(* the broker redelivers what was not acknowledged.                        *)
(*                                                                         *)
(* The strategy is one that joins several upstream senders with the        *)
(* JoinerAccumulateCoordinator (counter, pathfinder, suspicious_filter and *)
(* the aggregators).  It both forwards an output per batch and emits a     *)
(* result when the client is finalized; a concrete strategy does at least  *)
(* one of the two.                                                         *)
(*                                                                         *)
(* Abstractions.                                                           *)
(*  - A batch is a model value and holds one item.  It stands for its      *)
(*    deduplication key (minter, sender, branch path) and its SeqID.       *)
(*  - The broker queue is a set delivered in any order, since batches of   *)
(*    several upstream replicas interleave and a requeued delivery comes   *)
(*    back later.  A further copy of a message (an upstream replica that   *)
(*    crashed and published again) is Redeliver, at any later moment.      *)
(*  - stateMu serialises the handlers, so a handler's in-memory effect and *)
(*    its sends are one step; confirms, files and acks are steps of their  *)
(*    own, because a crash can fall between them.                          *)
(*  - meta.json is written without failing, and TOMBSTONE_TTL outlasts     *)
(*    every redelivery of the client's messages.                           *)
(*                                                                         *)
(* An operator Mut... is the next definition with a bug put in; no other   *)
(* definition uses it.  It shows that a property notices that bug.         *)
(***************************************************************************)
EXTENDS Integers, FiniteSets

CONSTANTS
  Client, Sender, Batch,  \* finite sets
  clientOf, senderOf,     \* the client and the upstream sender of a batch
  CheckpointInterval,     \* cfg.CheckpointInterval
  PrefetchCount,          \* middleware.PrefetchCount
  WALEnabled,             \* the strategy is a DeltaCheckpointer and cfg.WALEnabled
  TornWrites,             \* a kill can cut a WAL append inside a record
  Abortable,              \* bound: the clients that can be aborted
  MaxEOFSeq,              \* bound: largest SeqID of a re-enqueued EOF
  MaxCrashes,             \* bound: number of crashes
  MaxRedeliveries         \* bound: number of upstream re-publications

ASSUME ConstantsAssumption ==
  /\ IsFiniteSet(Batch) /\ IsFiniteSet(Client) /\ IsFiniteSet(Sender)
  /\ clientOf \in [Batch -> Client]
  /\ Abortable \subseteq Client
  /\ senderOf \in [Batch -> Sender]
  /\ CheckpointInterval \in Nat \ {0}
  /\ PrefetchCount \in Nat \ {0}
  /\ WALEnabled \in BOOLEAN /\ TornWrites \in BOOLEAN
  /\ MaxEOFSeq \in Nat \ {0}
  /\ MaxCrashes \in Nat
  /\ MaxRedeliveries \in Nat

VARIABLES
  ready,        \* messages the broker can deliver
  pending,      \* pendingAcks: delivered, handled, not acknowledged
  aborts,       \* state of the ClientAborted message of each client
  mem,          \* volatile per-client state of the worker
  disk,         \* checkpoint file and WAL segment of each client
  tomb,         \* tombstones (in memory and in meta.json)
  closed,       \* history: clients that were tombstoned at some time
  unconf,       \* published, not yet accepted by the broker
  down,         \* accepted by the queues of the next stage
  job,          \* the checkpoint, completion or abort in progress
  sweep,        \* clients a loop over checkpointAndAck still has to visit
  draining,     \* shutdownWatcher has run
  crashes, redeliveries   \* counters, for the bounds

vars == <<ready, pending, aborts, mem, disk, tomb, closed, unconf, down, job,
          sweep, draining, crashes, redeliveries>>

-----------------------------------------------------------------------------
(* Messages *)

BatchMsg(b) == [type |-> "batch", batch |-> b]
EOFMsg(c, s, n) == [type |-> "eof", client |-> c, sender |-> s, seq |-> n]

BatchMsgs == [type : {"batch"}, batch : Batch]
EOFMsgs == [type : {"eof"}, client : Client, sender : Sender, seq : 1 .. MaxEOFSeq]
Messages == BatchMsgs \cup EOFMsgs

ClientOfMsg(m) == IF m.type = "batch" THEN clientOf[m.batch] ELSE m.client

(* What goes to the next stage: an output that keeps the SeqID of the batch  *)
(* it comes from, or a message that takes a SeqID of this worker (outSeqID). *)
Forwarded(b) == [type |-> "data", batch |-> b]
Result(c, n, effect) == [type |-> "result", client |-> c, seq |-> n, effect |-> effect]
OutEOF(c, n) == [type |-> "outeof", client |-> c, seq |-> n]

BatchesOf(c) == {b \in Batch : clientOf[b] = c}
NoEOF == [type |-> "none"]

-----------------------------------------------------------------------------
(* Per-client state *)

Fresh == [dedup     |-> {},                        \* dedupSeen
          effect    |-> [b \in Batch |-> 0],       \* times a batch was folded into the strategy
          processed |-> 0,                         \* processedItems
          from      |-> {},                        \* senders in JAC ReceivedFrom
          final     |-> FALSE,                     \* JAC Finalized
          coord     |-> [s \in Sender |-> 0],      \* coordinationDedupSeen
          outSeq    |-> 0,                         \* outSeqID
          cached    |-> NoEOF]                     \* upstreamEOFs / PendingEOFBody

(* The snapshot file and the WAL segment of its generation: the records      *)
(* Replay can read, and whether a record cut short follows them.             *)
NoCheckpoint == [exists |-> FALSE, snap |-> Fresh, log |-> {}, torn |-> FALSE]

(* The effect of processBatch, dedupAdd and the processedItems update. *)
Folded(r, b) == [r EXCEPT !.dedup = @ \cup {b},
                          !.effect[b] = @ + 1,
                          !.processed = @ + 1]

(* replayWAL on top of a snapshot: every logged delta is applied again, with *)
(* no look at the snapshot's deduplication set.                              *)
Replayed(r, log) ==
  [r EXCEPT !.dedup = @ \cup log,
            !.effect = [b \in Batch |-> r.effect[b] + IF b \in log THEN 1 ELSE 0],
            !.processed = @ + Cardinality(log)]

Load(d) == Replayed(d.snap, d.log)

PendingOf(c) == {m \in pending : ClientOfMsg(m) = c}
PendingBatches(c) == {b \in BatchesOf(c) : BatchMsg(b) \in pending}

(* Mutation: a compaction that does not start a new generation. *)
MutSnapshot(c) == [disk[c] EXCEPT !.exists = TRUE, !.snap = mem[c]]

Snapshot(c) == [exists |-> TRUE, snap |-> mem[c], log |-> {}, torn |-> FALSE]

(* Mutation: an append that overwrites the segment. *)
MutCheckpoints(c) ==
  IF WALEnabled /\ disk[c].exists
    THEN {[disk[c] EXCEPT !.log = PendingBatches(c)], Snapshot(c)}
    ELSE {Snapshot(c)}

(* AppendBatch writes at the end of the file Open found; what follows a cut  *)
(* record fails its checksum, and Replay stops there.                        *)
Appended(d, records) == IF d.torn THEN d ELSE [d EXCEPT !.log = @ \cup records]

(* What checkpointAndAck leaves on disk: the whole client state, or, with a  *)
(* WAL whose snapshot exists, only the deltas of the batches since the last  *)
(* checkpoint, possibly followed by a compaction into the next generation.   *)
Checkpoints(c) ==
  IF WALEnabled /\ disk[c].exists
    THEN {Appended(disk[c], PendingBatches(c)), Snapshot(c)}
    ELSE {Snapshot(c)}

(* completeClient writes a full snapshot next to the segment it already has. *)
FinalCheckpoint(c) == [disk[c] EXCEPT !.exists = TRUE, !.snap = mem[c]]

-----------------------------------------------------------------------------
(* Jobs: the tail of a handler, one step per externally visible effect *)

NoJob == [kind |-> "none"]
Job(kind, c, step) == [kind |-> kind, client |-> c, step |-> step]

At(kinds, step) == job.kind \in kinds /\ job.step = step
GoTo(step) == job' = [job EXCEPT !.step = step]

Idle == job = NoJob /\ sweep = {} /\ ~draining

(* The job a handled message leads to: a checkpoint of its client when       *)
(* CheckpointInterval deliveries wait, of every client when the prefetch     *)
(* window is full.                                                           *)
AfterBatch(c, pend) ==
  IF Cardinality({m \in pend : ClientOfMsg(m) = c}) >= CheckpointInterval
    THEN job' = Job("checkpoint", c, "confirm") /\ sweep' = {}
    ELSE /\ job' = NoJob
         /\ sweep' = IF Cardinality(pend) >= PrefetchCount
                       THEN {ClientOfMsg(m) : m \in pend} ELSE {}

Init ==
  /\ ready = BatchMsgs \cup {EOFMsg(c, s, 1) : c \in Client, s \in Sender}
  /\ pending = {}
  /\ aborts = [c \in Client |-> "none"]
  /\ mem = [c \in Client |-> Fresh]
  /\ disk = [c \in Client |-> NoCheckpoint]
  /\ tomb = {} /\ closed = {}
  /\ unconf = {} /\ down = {}
  /\ job = NoJob /\ sweep = {} /\ draining = FALSE
  /\ crashes = 0 /\ redeliveries = 0

-----------------------------------------------------------------------------
(* handleInputMessage: tombstoned clients and duplicates are acknowledged    *)
(* and dropped, everything else reaches handleBatch or handleUpstreamEOF.    *)

IsDuplicateData(b) == b \in mem[clientOf[b]].dedup
IsDuplicateCoordination(m) == m.seq <= mem[m.client].coord[m.sender]

(* Mutation: batches are not looked up in dedupSeen. *)
MutDiscarded(m) == \/ ClientOfMsg(m) \in tomb
                   \/ m.type = "eof" /\ IsDuplicateCoordination(m)

Discarded(m) == \/ ClientOfMsg(m) \in tomb
                \/ m.type = "batch" /\ IsDuplicateData(m.batch)
                \/ m.type = "eof" /\ IsDuplicateCoordination(m)

Deliverable(m) == Idle /\ m \in ready /\ Cardinality(pending) < PrefetchCount

Discard(m) ==
  /\ Deliverable(m)
  /\ Discarded(m)
  /\ ready' = ready \ {m}
  /\ UNCHANGED <<pending, aborts, mem, disk, tomb, closed, unconf, down, job,
                 sweep, draining, crashes, redeliveries>>

HandleBatch(b) ==
  LET c == clientOf[b]
      m == BatchMsg(b)
  IN /\ Deliverable(m)
     /\ ~Discarded(m)
     /\ ready' = ready \ {m}
     /\ pending' = pending \cup {m}
     /\ mem' = [mem EXCEPT ![c] = Folded(@, b)]
     /\ unconf' = unconf \cup {Forwarded(b)}
     /\ AfterBatch(c, pending')
     /\ UNCHANGED <<aborts, disk, tomb, closed, down, draining, crashes, redeliveries>>

-----------------------------------------------------------------------------
(* handleUpstreamEOF with the JoinerAccumulateCoordinator *)

AggTotal(c, from) == Cardinality({b \in BatchesOf(c) : senderOf[b] \in from})

(* Mutation: the re-enqueued EOF keeps its SeqID. *)
MutRetrySeq(r, m) == m.seq

(* SeqID of a re-enqueued EOF: above the original's and above the high-water *)
(* mark of its sender.                                                       *)
RetrySeq(r, m) == IF r.coord[m.sender] >= m.seq + 1 THEN r.coord[m.sender] + 1
                                                    ELSE m.seq + 1

(* What the coordinator decides about the EOF m of a client in state r. *)
Waits(r, from) == r.final \/ from # Sender

(* Mutation: the last item is not waited for. *)
MutIncomplete(c, r, from) == AggTotal(c, from) > 0 /\ r.processed + 1 < AggTotal(c, from)

Incomplete(c, r, from) == AggTotal(c, from) > 0 /\ r.processed < AggTotal(c, from)

(* The fields every outcome changes. *)
Recorded(r, m) == [r EXCEPT !.from = @ \cup {m.sender},
                            !.coord[m.sender] = m.seq]

AcceptEOF(m) ==
  /\ Deliverable(m)
  /\ ~Discarded(m)
  /\ ready' = ready \ {m}
  /\ pending' = pending \cup {m}
  /\ sweep' = {}
  /\ UNCHANGED <<aborts, disk, tomb, closed, down, draining, crashes, redeliveries>>

(* ActionNone: other EOFs are missing; the message stays cached. *)
HandleEOFWait(m) ==
  LET c == m.client  r == mem[c]
  IN /\ AcceptEOF(m)
     /\ Waits(r, r.from \cup {m.sender})
     /\ mem' = [mem EXCEPT ![c] = [Recorded(r, m) EXCEPT !.cached = m]]
     /\ job' = Job("checkpoint", c, "confirm")
     /\ UNCHANGED unconf

(* ActionReenqueueUpstreamEOF: data is still on its way. *)
HandleEOFRetry(m) ==
  LET c == m.client  r == mem[c]
  IN /\ AcceptEOF(m)
     /\ ~Waits(r, r.from \cup {m.sender})
     /\ Incomplete(c, r, r.from \cup {m.sender})
     /\ RetrySeq(r, m) <= MaxEOFSeq
     /\ mem' = [mem EXCEPT ![c] = [Recorded(r, m) EXCEPT !.cached = NoEOF]]
     /\ unconf' = unconf \cup {EOFMsg(c, m.sender, RetrySeq(r, m))}
     /\ job' = Job("checkpoint", c, "confirm")

(* ActionEmitEOFs with ClientCompleted: the outcome's rows and the EOF take  *)
(* the next two SeqIDs of this worker.                                       *)
HandleEOFFinal(m) ==
  LET c == m.client  r == mem[c]
  IN /\ AcceptEOF(m)
     /\ ~Waits(r, r.from \cup {m.sender})
     /\ ~Incomplete(c, r, r.from \cup {m.sender})
     /\ mem' = [mem EXCEPT ![c] = [Recorded(r, m) EXCEPT !.cached = NoEOF,
                                                         !.final = TRUE,
                                                         !.outSeq = @ + 2]]
     /\ unconf' = unconf \cup {Result(c, r.outSeq + 1, r.effect), OutEOF(c, r.outSeq + 2)}
     /\ job' = Job("complete", c, "confirm")

Handle(m) == \/ m.type = "batch" /\ HandleBatch(m.batch)
             \/ m.type = "eof" /\ (HandleEOFWait(m) \/ HandleEOFRetry(m) \/ HandleEOFFinal(m))

-----------------------------------------------------------------------------
(* checkpointAndAck, completeClient and abortClient, step by step *)

(* Mutation: confirms are not awaited. *)
MutConfirmAtOnce ==
  /\ At({"checkpoint", "complete"}, "confirm")
  /\ GoTo("snapshot")
  /\ UNCHANGED <<ready, pending, aborts, mem, disk, tomb, closed, unconf, down,
                 sweep, draining, crashes, redeliveries>>

(* Mutation: a checkpoint acknowledges before it writes. *)
MutAckFirst ==
  /\ At({"checkpoint", "complete"}, "confirm")
  /\ unconf = {}
  /\ GoTo(IF job.kind = "complete" THEN "snapshot" ELSE "ack")
  /\ UNCHANGED <<ready, pending, aborts, mem, disk, tomb, closed, unconf, down,
                 sweep, draining, crashes, redeliveries>>

(* flushPublishers returns once every publish was confirmed. *)
Confirm ==
  /\ At({"checkpoint", "complete"}, "confirm")
  /\ unconf = {}
  /\ GoTo("snapshot")
  /\ UNCHANGED <<ready, pending, aborts, mem, disk, tomb, closed, unconf, down,
                 sweep, draining, crashes, redeliveries>>

WriteCheckpoint ==
  /\ At({"checkpoint"}, "snapshot")
  /\ \E d \in Checkpoints(job.client) : disk' = [disk EXCEPT ![job.client] = d]
  /\ GoTo("ack")
  /\ UNCHANGED <<ready, pending, aborts, mem, tomb, closed, unconf, down,
                 sweep, draining, crashes, redeliveries>>

WriteFinalCheckpoint ==
  /\ At({"complete"}, "snapshot")
  /\ disk' = [disk EXCEPT ![job.client] = FinalCheckpoint(job.client)]
  /\ GoTo("tombstone")
  /\ UNCHANGED <<ready, pending, aborts, mem, tomb, closed, unconf, down,
                 sweep, draining, crashes, redeliveries>>

WriteTombstone ==
  /\ At({"complete", "abort"}, "tombstone")
  /\ tomb' = tomb \cup {job.client}
  /\ closed' = closed \cup {job.client}
  /\ GoTo("ack")
  /\ UNCHANGED <<ready, pending, aborts, mem, disk, unconf, down,
                 sweep, draining, crashes, redeliveries>>

(* ackAllPending sends one ack per delivery. *)
Ack(m) ==
  /\ At({"checkpoint", "complete", "abort"}, "ack")
  /\ m \in PendingOf(job.client)
  /\ pending' = pending \ {m}
  /\ UNCHANGED <<ready, aborts, mem, disk, tomb, closed, unconf, down, job,
                 sweep, draining, crashes, redeliveries>>

CheckpointDone ==
  /\ At({"checkpoint"}, "ack")
  /\ PendingOf(job.client) = {}
  /\ job' = NoJob
  /\ UNCHANGED <<ready, pending, aborts, mem, disk, tomb, closed, unconf, down,
                 sweep, draining, crashes, redeliveries>>

(* Mutation: the checkpoint file is left behind. *)
MutCleanupKeepsFile ==
  /\ At({"complete", "abort"}, "ack")
  /\ PendingOf(job.client) = {}
  /\ mem' = [mem EXCEPT ![job.client] = Fresh]
  /\ aborts' = IF job.kind = "abort" THEN [aborts EXCEPT ![job.client] = "handled"] ELSE aborts
  /\ job' = NoJob
  /\ UNCHANGED <<ready, pending, disk, tomb, closed, unconf, down,
                 sweep, draining, crashes, redeliveries>>

(* cleanupClientState and the removal of the checkpoint; an abort message is *)
(* acknowledged only now.                                                    *)
Cleanup ==
  /\ At({"complete", "abort"}, "ack")
  /\ PendingOf(job.client) = {}
  /\ mem' = [mem EXCEPT ![job.client] = Fresh]
  /\ disk' = [disk EXCEPT ![job.client] = NoCheckpoint]
  /\ aborts' = IF job.kind = "abort" THEN [aborts EXCEPT ![job.client] = "handled"] ELSE aborts
  /\ job' = NoJob
  /\ UNCHANGED <<ready, pending, tomb, closed, unconf, down,
                 sweep, draining, crashes, redeliveries>>

(* Mutation: these loops leave out the clients below their own interval. *)
MutSweepNext(c) ==
  /\ job = NoJob
  /\ c \in sweep
  /\ sweep' = sweep \ {c}
  /\ job' = IF Cardinality(PendingOf(c)) < CheckpointInterval THEN NoJob
                                                            ELSE Job("checkpoint", c, "confirm")
  /\ UNCHANGED <<ready, pending, aborts, mem, disk, tomb, closed, unconf, down,
                 draining, crashes, redeliveries>>

(* The next client of flushAllPending, runMaintenance or shutdownWatcher. *)
SweepNext(c) ==
  /\ job = NoJob
  /\ c \in sweep
  /\ sweep' = sweep \ {c}
  /\ job' = IF PendingOf(c) = {} THEN NoJob ELSE Job("checkpoint", c, "confirm")
  /\ UNCHANGED <<ready, pending, aborts, mem, disk, tomb, closed, unconf, down,
                 draining, crashes, redeliveries>>

-----------------------------------------------------------------------------
(* runMaintenance: clients whose oldest delivery waited MaxPendingAckAge,    *)
(* and tombstones older than TombstoneTTL.                                   *)

StartMaintenance ==
  /\ Idle
  /\ \E aged \in SUBSET {ClientOfMsg(m) : m \in pending} :
       aged # {} /\ sweep' = aged
  /\ UNCHANGED <<ready, pending, aborts, mem, disk, tomb, closed, unconf, down,
                 job, draining, crashes, redeliveries>>

ExpireTombstone(c) ==
  /\ Idle
  /\ c \in tomb
  /\ \A m \in ready \cup pending \cup {o \in unconf : o.type = "eof"} : ClientOfMsg(m) # c
  /\ aborts[c] # "queued"
  /\ tomb' = tomb \ {c}
  /\ UNCHANGED <<ready, pending, aborts, mem, disk, closed, unconf, down, job,
                 sweep, draining, crashes, redeliveries>>

(* handleClientAborted *)
HandleAbort(c) ==
  /\ Idle
  /\ aborts[c] = "queued"
  /\ c \notin tomb
  /\ job' = Job("abort", c, "tombstone")
  /\ UNCHANGED <<ready, pending, aborts, mem, disk, tomb, closed, unconf, down,
                 sweep, draining, crashes, redeliveries>>

DropAbort(c) ==
  /\ Idle
  /\ aborts[c] = "queued"
  /\ c \in tomb
  /\ aborts' = [aborts EXCEPT ![c] = "handled"]
  /\ UNCHANGED <<ready, pending, mem, disk, tomb, closed, unconf, down, job,
                 sweep, draining, crashes, redeliveries>>

-----------------------------------------------------------------------------
(* The environment: broker, upstream stage, gateway, faults *)

(* Mutation: the re-enqueued EOF goes to an output, not to the own input. *)
MutAccept(o) ==
  /\ o \in unconf
  /\ unconf' = unconf \ {o}
  /\ down' = down \cup {o}
  /\ UNCHANGED <<ready, pending, aborts, mem, disk, tomb, closed, job, sweep, draining,
                 crashes, redeliveries>>

Accept(o) ==
  /\ o \in unconf
  /\ unconf' = unconf \ {o}
  /\ IF o.type = "eof" THEN ready' = ready \cup {o} /\ UNCHANGED down
                       ELSE down' = down \cup {o} /\ UNCHANGED ready
  /\ UNCHANGED <<pending, aborts, mem, disk, tomb, closed, job, sweep, draining,
                 crashes, redeliveries>>

Redeliver(m) ==
  /\ redeliveries < MaxRedeliveries
  /\ m \in BatchMsgs \cup {EOFMsg(c, s, 1) : c \in Client, s \in Sender}
  /\ ClientOfMsg(m) \in closed => ClientOfMsg(m) \in tomb
  /\ ready' = ready \cup {m}
  /\ redeliveries' = redeliveries + 1
  /\ UNCHANGED <<pending, aborts, mem, disk, tomb, closed, unconf, down, job,
                 sweep, draining, crashes>>

RequestAbort(c) ==
  /\ c \in Abortable
  /\ aborts[c] = "none"
  /\ aborts' = [aborts EXCEPT ![c] = "queued"]
  /\ UNCHANGED <<ready, pending, mem, disk, tomb, closed, unconf, down, job,
                 sweep, draining, crashes, redeliveries>>

(* A kill during a WAL append can leave some whole records and a cut one;    *)
(* every other file is replaced atomically (AtomicWriteFile).                *)
CutAppends(d, records) ==
  IF d.torn THEN {d} ELSE {[d EXCEPT !.log = @ \cup kept] : kept \in SUBSET records}
                     \cup {[d EXCEPT !.log = @ \cup kept, !.torn = TRUE] : kept \in SUBSET records}

SurvivingDisks ==
  IF At({"checkpoint"}, "snapshot") /\ WALEnabled /\ TornWrites /\ disk[job.client].exists
    THEN {disk} \cup {[disk EXCEPT ![job.client] = d] :
                        d \in CutAppends(disk[job.client], PendingBatches(job.client))}
    ELSE {disk}

(* Mutation: New ignores the checkpoints. *)
MutRestart ==
  /\ \E d \in SurvivingDisks :
       disk' = [c \in Client |-> IF c \in tomb THEN NoCheckpoint ELSE d[c]]
  /\ mem' = [c \in Client |-> Fresh]
  /\ ready' = ready \cup pending
  /\ pending' = {}
  /\ unconf' = {}
  /\ job' = NoJob
  /\ sweep' = {}
  /\ draining' = FALSE
  /\ UNCHANGED <<aborts, tomb, closed, down, redeliveries>>

(* The process ends and New runs loadCheckpoints. *)
Restart ==
  /\ \E d \in SurvivingDisks :
       disk' = [c \in Client |-> IF c \in tomb THEN NoCheckpoint ELSE d[c]]
  /\ mem' = [c \in Client |-> Load(disk'[c])]
  /\ ready' = ready \cup pending
  /\ pending' = {}
  /\ unconf' = {}
  /\ job' = NoJob
  /\ sweep' = {}
  /\ draining' = FALSE
  /\ UNCHANGED <<aborts, tomb, closed, down, redeliveries>>

Crash ==
  /\ crashes < MaxCrashes
  /\ crashes' = crashes + 1
  /\ Restart

(* SIGTERM: shutdownWatcher stops the handlers, checkpoints every client     *)
(* with pending deliveries, and the container is started again.              *)
Shutdown ==
  /\ Idle
  /\ crashes < MaxCrashes
  /\ draining' = TRUE
  /\ sweep' = {ClientOfMsg(m) : m \in pending}
  /\ crashes' = crashes + 1
  /\ UNCHANGED <<ready, pending, aborts, mem, disk, tomb, closed, unconf, down,
                 job, redeliveries>>

ShutdownDone ==
  /\ draining /\ job = NoJob /\ sweep = {}
  /\ Restart
  /\ UNCHANGED crashes

-----------------------------------------------------------------------------
Deliver == \E m \in ready : Discard(m) \/ Handle(m)

RunJob == \/ Confirm \/ WriteCheckpoint \/ WriteFinalCheckpoint \/ WriteTombstone
          \/ (\E m \in pending : Ack(m)) \/ CheckpointDone \/ Cleanup
          \/ (\E c \in sweep : SweepNext(c))

Broker == \E o \in unconf : Accept(o)

Maintenance == StartMaintenance \/ (\E c \in tomb : ExpireTombstone(c))

HandleAborts == \E c \in Client : HandleAbort(c) \/ DropAbort(c)

Next ==
  \/ Deliver \/ RunJob \/ Broker \/ Maintenance \/ HandleAborts
  \/ Crash \/ Shutdown \/ ShutdownDone
  \/ \E m \in Messages : Redeliver(m)
  \/ \E c \in Client : RequestAbort(c)

(* The process is scheduled, the broker delivers and confirms, and the       *)
(* maintenance ticker fires; crashes, aborts and duplicates need not happen. *)
Fairness ==
  /\ WF_vars(Deliver) /\ WF_vars(RunJob) /\ WF_vars(Broker)
  /\ WF_vars(StartMaintenance) /\ WF_vars(HandleAborts) /\ WF_vars(ShutdownDone)

Spec == Init /\ [][Next]_vars /\ Fairness
-----------------------------------------------------------------------------
(* Properties *)

ClientState == [dedup : SUBSET Batch, effect : [Batch -> Nat], processed : Nat,
                from : SUBSET Sender, final : BOOLEAN, coord : [Sender -> 0 .. MaxEOFSeq],
                outSeq : Nat, cached : EOFMsgs \cup {NoEOF}]

Outputs == [type : {"data"}, batch : Batch]
      \cup [type : {"result"}, client : Client, seq : Nat, effect : [Batch -> Nat]]
      \cup [type : {"outeof"}, client : Client, seq : Nat]

Jobs == {NoJob} \cup [kind : {"checkpoint", "complete", "abort"}, client : Client,
                      step : {"confirm", "snapshot", "tombstone", "ack"}]

(* Type invariant of the worker, its files, and the queues around it. *)
TypeOK ==
  /\ ready \subseteq Messages /\ pending \subseteq Messages
  /\ aborts \in [Client -> {"none", "queued", "handled"}]
  /\ mem \in [Client -> ClientState]
  /\ disk \in [Client -> [exists : BOOLEAN, snap : ClientState, log : SUBSET Batch, torn : BOOLEAN]]
  /\ tomb \subseteq closed /\ closed \subseteq Client
  /\ unconf \subseteq Outputs \cup EOFMsgs /\ down \subseteq Outputs
  /\ job \in Jobs /\ sweep \subseteq Client /\ draining \in BOOLEAN
  /\ crashes \in Nat /\ redeliveries \in Nat

Held(m) == m \in ready \cup pending

Emitted(c) == \E o \in down : o.type = "outeof" /\ o.client = c

(* A batch the broker no longer holds is durable: a crash at this moment     *)
(* restores a client state that has folded it in.  checkpointAndAck and      *)
(* completeClient acknowledge only after WriteClientCheckpoint or the WAL    *)
(* append (runtime.go:1128-1151).                                            *)
AckedBatchIsDurable ==
  \A b \in Batch : \/ Held(BatchMsg(b))
                   \/ clientOf[b] \in closed
                   \/ b \in Load(disk[clientOf[b]]).dedup

(* A batch the broker no longer holds has reached the next stage, unless its *)
(* client was aborted: flushPublishers waits for the confirms before the     *)
(* checkpoint, and a client completes only when all its batches went through *)
(* (runtime.go:1136, 1309).                                                  *)
AckedBatchIsForwarded ==
  \A b \in Batch : \/ Held(BatchMsg(b))
                   \/ aborts[clientOf[b]] # "none"
                   \/ Forwarded(b) \in down

(* Until its client is finalized every batch counts once, in memory and in   *)
(* what a restart would load, however often it was delivered or replayed     *)
(* from the WAL (isDuplicateData, dedupAdd, replayWAL).                      *)
CountedOnce(r) ==
  ~r.final => /\ \A b \in Batch : r.effect[b] = IF b \in r.dedup THEN 1 ELSE 0
              /\ r.processed = Cardinality(r.dedup)

ExactlyOnceEffect ==
  \A c \in Client : CountedOnce(mem[c]) /\ CountedOnce(Load(disk[c]))

(* The rows emitted for a client are computed from every batch of the        *)
(* client, each folded in once: the JAC waits until localCount reaches the   *)
(* sum of the totals (joiner_accumulate.go:79-82).                           *)
ResultIsComplete ==
  \A o \in down \cup unconf : o.type = "result" =>
    \A b \in Batch : o.effect[b] = IF clientOf[b] = o.client THEN 1 ELSE 0

(* What a restart would load never goes backwards while the client lives:    *)
(* no write of a later checkpoint, compaction or replay loses a batch that   *)
(* was durable, and with full snapshots neither an EOF or a SeqID.           *)
Behind(r1, r2) == /\ r1.dedup \subseteq r2.dedup
                  /\ r1.from \subseteq r2.from
                  /\ r1.outSeq <= r2.outSeq
                  /\ \A s \in Sender : r1.coord[s] <= r2.coord[s]

DurableNeverShrinks ==
  [][\A c \in Client : c \notin closed' => Behind(Load(disk[c]), Load(disk'[c]))]_vars

(* The coordinator's comment: it "waits for a fixed number of upstream EOFs  *)
(* per client before emitting a single aggregated EOF to downstream"         *)
(* (joiner_accumulate.go:39-41).  All upstream EOFs are published, so the    *)
(* aggregated one is eventually emitted, unless the client is aborted.       *)
AggregatedEOFEmitted ==
  \A c \in Client : <>(Emitted(c) \/ aborts[c] # "none")

(* An abort is eventually handled, and leaves neither a checkpoint nor       *)
(* state of the client behind (abortClient, runtime.go:1327-1333).           *)
Forgotten(c) == mem[c] = Fresh /\ disk[c] = NoCheckpoint
AbortForgetsClient ==
  \A c \in Client : aborts[c] = "queued" ~> aborts[c] = "handled" /\ Forgotten(c)
=============================================================================
