--------------------------- MODULE ScatterGather ---------------------------
(***************************************************************************)
(* Query 4, from the transactions to final_joiner: four stages of workers, *)
(*     sharder_q4 -> suspicious_filter -> pathfinder -> counter            *)
(* each sharded by account or by pair of accounts.  A worker learns from   *)
(* the batches it gets, counts their items, and finalizes when the EOFs of *)
(* all workers before it are in and the totals they announce are reached   *)
(* (JoinerAccumulateCoordinator); then it emits what it found and, to      *)
(* every worker of the next stage, an EOF with the total for that worker.  *)
(* A killed worker restarts from a snapshot and, if WAL, the deltas logged *)
(* since, and emits again under the same SeqIDs.                           *)
(*                                                                         *)
(* Abstractions.                                                           *)
(*  - One client, whose input batches hold one transaction.  What a worker *)
(*    emits for one of the next is one batch (BATCH_SIZE is not reached).  *)
(*  - A queue keeps its order, and the messages of several senders come    *)
(*    into it in any; a killed worker gets back what it had not            *)
(*    acknowledged, at the head.                                           *)
(*  - CheckpointedWorker has the steps of a handler and of a checkpoint;   *)
(*    here a handler with its publishes is one step, a checkpoint with its *)
(*    acks another, and the emission of a finalized client one step for    *)
(*    each message.                                                        *)
(*  - The sharders close after every transaction was handled; RingStage    *)
(*    has the ring, and what a crash in the middle of it does.             *)
(*  - The log is represented by the state a replay would build.            *)
(*                                                                         *)
(* An operator Mut... is the next definition with a bug put in; no other   *)
(* definition uses it.                                                     *)
(***************************************************************************)
EXTENDS SuspiciousPairs, Sequences, SequencesExt, FiniteSetsExt

CONSTANTS
  Tx, edgeOf,           \* transactions of the client, and source and destination of each
  NSharders, homeOf,    \* replicas of sharder_q4, and the one a transaction goes to
  KFilters, KFinders, KCounters,                \* replicas of the other stages
  shardFilter, shardFinder, shardCounter,       \* hashing.Shard of an account, of a pair
  checkpointInterval,   \* CHECKPOINT_INTERVAL of each stage
  WAL,                  \* WAL_ENABLED
  LoseEOFs,             \* a crash may lose an EOF that is not in the log, see Crash
  MaxCrashes            \* bound: number of crashes

ASSUME ConstantsAssumption ==
  /\ IsFiniteSet(Tx)
  /\ edgeOf \in [Tx -> Edges]
  /\ NSharders \in Nat \ {0} /\ homeOf \in [Tx -> 0 .. NSharders - 1]
  /\ KFilters \in Nat \ {0} /\ shardFilter \in [Account -> 0 .. KFilters - 1]
  /\ KFinders \in Nat \ {0} /\ shardFinder \in [Account -> 0 .. KFinders - 1]
  /\ KCounters \in Nat \ {0} /\ shardCounter \in [Edges -> 0 .. KCounters - 1]
  /\ checkpointInterval \in [{"sharder", "filter", "finder", "counter"} -> Nat \ {0}]
  /\ WAL \in BOOLEAN /\ LoseEOFs \in BOOLEAN
  /\ MaxCrashes \in Nat

VARIABLES
  inbox,      \* the queue of each worker
  pending,    \* pendingAcks: delivered, handled, not acknowledged, in this order
  mem,        \* volatile state of the client
  disk,       \* what a restart would rebuild
  outbox,     \* what a finalized worker still has to publish
  closing,    \* workers that are finalizing
  tomb,       \* workers that hold a tombstone of the client
  result,     \* what final_joiner let in
  crashes

vars == <<inbox, pending, mem, disk, outbox, closing, tomb, result, crashes>>

-----------------------------------------------------------------------------
(* Workers *)
Sharders == {"sharder"} \X (0 .. NSharders - 1)
Filters == {"filter"} \X (0 .. KFilters - 1)
Finders == {"finder"} \X (0 .. KFinders - 1)
Counters == {"counter"} \X (0 .. KCounters - 1)
Joiner == <<"joiner", 0>>

Worker == Sharders \cup Filters \cup Finders \cup Counters

Upstream(w) == CASE w \in Filters -> Sharders
                 [] w \in Finders -> Filters
                 [] w \in Counters -> Finders

(* The workers of the next stage, in the order of their routing keys. *)
Downstream(w) ==
  CASE w \in Sharders -> [i \in 1 .. KFilters |-> <<"filter", i - 1>>]
    [] w \in Filters -> [i \in 1 .. KFinders |-> <<"finder", i - 1>>]
    [] w \in Finders -> [i \in 1 .. KCounters |-> <<"counter", i - 1>>]
    [] w \in Counters -> <<Joiner>>

(* The routing key of an item. *)
ShardedBy(i) == IF i.bySource THEN i.src ELSE i.dst

Route(w, i) ==
  CASE w \in Sharders -> <<"filter", shardFilter[ShardedBy(i)]>>
    [] w \in Filters -> <<"finder", shardFinder[ShardedBy(i)]>>
    [] w \in Finders -> <<"counter", shardCounter[<<i.src, i.dst>>]>>
    [] w \in Counters -> Joiner

-----------------------------------------------------------------------------
(* Messages.  A batch is known by its sender and SeqID; what a sharder sends *)
(* keeps the SeqID of the transaction.                                       *)
Input(t) == [type |-> "tx", tx |-> t]
Batch(w, d, n, items) == [type |-> "batch", from |-> w, to |-> d, seq |-> n, items |-> items]
EOF(w, d, total) == [type |-> "eof", from |-> w, to |-> d, total |-> total]

(* reenqueueUpstreamEOF *)
Retried(m) == [type |-> "retry", from |-> m.from, to |-> m.to, total |-> m.total]

IsEOF(m) == m.type \in {"eof", "retry"}

ItemsFor(w, d, items) == {i \in items : Route(w, i) = d}

(* facts: the edges of an account, or the intermediaries of the pairs that   *)
(* are not qualified; delta: the facts that were not logged; seen: dedupSeen;*)
(* eofs: ReceivedFrom; perShard: the totals of a sharder.                    *)
Fresh == [facts |-> {}, qualified |-> {}, delta |-> {},
          seen |-> {}, processed |-> 0, eofs |-> {},
          perShard |-> [f \in Filters |-> 0]]

NoCheckpoint == [exists |-> FALSE, state |-> Fresh]

Arriving(w) == {Input(t) : t \in {u \in Tx : <<"sharder", homeOf[u]>> = w}}

Init ==
  /\ inbox = [w \in Worker |-> SetToSeq(Arriving(w))]
  /\ pending = [w \in Worker |-> <<>>]
  /\ mem = [w \in Worker |-> Fresh] /\ disk = [w \in Worker |-> NoCheckpoint]
  /\ outbox = [w \in Worker |-> <<>>]
  /\ closing = {} /\ tomb = {} /\ result = {}
  /\ crashes = 0

-----------------------------------------------------------------------------
(* What a worker learns *)

(* Mutation: what is learnt is not part of the next delta. *)
MutLearnt(s, f) == [s EXCEPT !.facts = @ \cup {f}]

Learnt(s, f) == IF f \in s.facts THEN s
                ELSE [s EXCEPT !.facts = @ \cup {f}, !.delta = @ \cup {f}]

(* A qualified pair needs its intermediaries no longer. *)
Qualified(s, pair) ==
  IF Cardinality(Intermediaries(s.facts, pair)) < MinIntermediates THEN s
  ELSE [s EXCEPT !.qualified = @ \cup {pair},
                 !.facts = {p \in @ : <<p.src, p.dst>> # pair}]

(* Mutation: the intermediary that qualifies a pair is not logged. *)
MutCounted(s, p) ==
  IF <<p.src, p.dst>> \in s.qualified \/ p \in s.facts THEN s
  ELSE LET t == Qualified([s EXCEPT !.facts = @ \cup {p}], <<p.src, p.dst>>)
       IN IF <<p.src, p.dst>> \in t.qualified THEN t ELSE Learnt(s, p)

(* Counter.ProcessMessage *)
Counted(s, p) ==
  IF <<p.src, p.dst>> \in s.qualified \/ p \in s.facts THEN s
  ELSE Qualified(Learnt(s, p), <<p.src, p.dst>>)

LearntFrom(w, s, items) ==
  IF w \in Counters THEN FoldSet(LAMBDA p, t : Counted(t, p), s, items)
                    ELSE FoldSet(LAMBDA i, t : Learnt(t, FactOf(i)), s, items)

(* ApplyDelta, and the header of the logged record *)
Replayed(w, d, delta, batches, items) ==
  LET t == IF w \in Counters THEN FoldSet(LAMBDA p, u : Counted(u, p), d, delta)
                             ELSE FoldSet(LAMBDA f, u : Learnt(u, f), d, delta)
  IN [t EXCEPT !.delta = {}, !.seen = @ \cup batches, !.processed = @ + items]

-----------------------------------------------------------------------------
(* What a worker emits when it finalizes *)

Findings(w, s) ==
  CASE w \in Sharders -> {}
    [] w \in Filters -> SuspiciousOutputs(s.facts)
    [] w \in Finders -> CrossProduct(s.facts)
    [] w \in Counters -> s.qualified

(* flushClientBuffers sorts the shards, so that a second emission gives     *)
(* every batch the SeqID it had.                                             *)
Batches(w, s) ==
  LET used == SelectSeq(Downstream(w), LAMBDA d : ItemsFor(w, d, Findings(w, s)) # {})
  IN [n \in 1 .. Len(used) |-> Batch(w, used[n], n, ItemsFor(w, used[n], Findings(w, s)))]

(* Mutation: a sharder announces its transactions, not what they become. *)
MutTotalFor(w, s, d) == IF w \in Sharders THEN s.processed
                        ELSE Cardinality(ItemsFor(w, d, Findings(w, s)))

(* buildEOFEmits *)
TotalFor(w, s, d) == IF w \in Sharders THEN s.perShard[d]
                     ELSE Cardinality(ItemsFor(w, d, Findings(w, s)))

Emission(w, s) ==
  Batches(w, s) \o [n \in 1 .. Len(Downstream(w)) |-> EOF(w, Downstream(w)[n], TotalFor(w, s, Downstream(w)[n]))]

-----------------------------------------------------------------------------
(* checkpointAndAck: the whole state, or, in a log that has a snapshot, what *)
(* the batches since the last checkpoint added.  The log has no EOFs.        *)

Snapshot(s) == [exists |-> TRUE, state |-> [s EXCEPT !.delta = {}]]

ItemsIn(batches) == MapThenSumSet(LAMBDA m : Cardinality(m.items), batches)

Appended(w, s, unacked) ==
  LET batches == {m \in ToSet(unacked) : m.type = "batch"}
  IN [exists |-> TRUE, state |-> Replayed(w, disk[w].state, s.delta, batches, ItemsIn(batches))]

Checkpoints(w, s, unacked) ==
  IF WAL /\ w \notin Sharders /\ disk[w].exists THEN {Snapshot(s), Appended(w, s, unacked)}
                                               ELSE {Snapshot(s)}

Checkpoint(w, s, unacked) ==
  /\ \E d \in Checkpoints(w, s, unacked) : disk' = [disk EXCEPT ![w] = d]
  /\ mem' = [mem EXCEPT ![w] = [s EXCEPT !.delta = {}]]
  /\ pending' = [pending EXCEPT ![w] = <<>>]

(* enqueuePending and the checkpoint that CheckpointInterval deliveries lead *)
(* to.                                                                       *)
Handled(w, s, m) ==
  IF Len(pending[w]) + 1 >= checkpointInterval[w[1]]
    THEN Checkpoint(w, s, Append(pending[w], m))
    ELSE /\ mem' = [mem EXCEPT ![w] = s]
         /\ pending' = [pending EXCEPT ![w] = Append(@, m)]
         /\ UNCHANGED disk

-----------------------------------------------------------------------------
(* The handlers of a worker *)

Known(w, m) ==
  CASE m.type = "tx" -> m \in mem[w].seen
    [] m.type = "batch" -> \E o \in mem[w].seen : o.from = m.from /\ o.seq = m.seq
    [] m.type = "eof" -> \E e \in mem[w].eofs : e.from = m.from
    [] m.type = "retry" -> FALSE

Deliverable(w, m) == inbox[w] # <<>> /\ m = Head(inbox[w]) /\ w \notin closing

Discard(w, m) ==
  /\ Deliverable(w, m)
  /\ w \in tomb \/ Known(w, m)
  /\ inbox' = [inbox EXCEPT ![w] = Tail(@)]
  /\ UNCHANGED <<pending, mem, disk, outbox, closing, tomb, result, crashes>>

Accepted(w, m) == Deliverable(w, m) /\ w \notin tomb /\ ~Known(w, m)

(* The totals count items, and a transaction of an account with itself is    *)
(* two of them for one worker.                                               *)
PerShard(w, s, t) ==
  [f \in Filters |-> s.perShard[f] + Cardinality(ItemsFor(w, f, Doubled(edgeOf[t])))]

(* Sharder.ProcessMessage and emitDataOutputs: a batch for each shard. *)
Shard(w, t) ==
  LET m == Input(t)
      items == Doubled(edgeOf[t])
      sent == {Batch(w, f, t, ItemsFor(w, f, items)) : f \in {Route(w, i) : i \in items}}
  IN /\ w \in Sharders
     /\ Accepted(w, m)
     /\ inbox' = [v \in Worker |-> IF v = w THEN Tail(inbox[w])
                                   ELSE inbox[v] \o SetToSeq({b \in sent : b.to = v})]
     /\ Handled(w, [mem[w] EXCEPT !.seen = @ \cup {m}, !.processed = @ + 1,
                                  !.perShard = PerShard(w, mem[w], t)], m)
     /\ UNCHANGED <<outbox, closing, tomb, result, crashes>>

(* processBatch, dedupAdd and the processedItems update *)
Learn(w, m) ==
  /\ m.type = "batch"
  /\ Accepted(w, m)
  /\ inbox' = [inbox EXCEPT ![w] = Tail(@)]
  /\ Handled(w, [LearntFrom(w, mem[w], m.items) EXCEPT !.seen = @ \cup {m},
                                                       !.processed = @ + Cardinality(m.items)], m)
  /\ UNCHANGED <<outbox, closing, tomb, result, crashes>>

-----------------------------------------------------------------------------
(* JoinerAccumulateCoordinator.OnUpstreamEOF *)

WithEOF(s, m) == [s EXCEPT !.eofs = @ \cup {[from |-> m.from, total |-> m.total]}]

AllReceived(w, s) == Cardinality({e.from : e \in s.eofs}) >= Cardinality(Upstream(w))

Complete(s) == s.processed >= MapThenSumSet(LAMBDA e : e.total, s.eofs)

(* ActionNone and ActionReenqueueUpstreamEOF: both end in a checkpoint.      *)
KeepEOF(w, m) ==
  LET s == WithEOF(mem[w], m)
      again == IF AllReceived(w, s) THEN <<Retried(m)>> ELSE <<>>
  IN /\ IsEOF(m)
     /\ Accepted(w, m)
     /\ ~(AllReceived(w, s) /\ Complete(s))
     /\ inbox' = [inbox EXCEPT ![w] = Tail(@) \o again]
     /\ Checkpoint(w, s, Append(pending[w], m))
     /\ UNCHANGED <<outbox, closing, tomb, result, crashes>>

Finalizing(w, s) ==
  /\ closing' = closing \cup {w}
  /\ outbox' = [outbox EXCEPT ![w] = Emission(w, s)]
  /\ mem' = [mem EXCEPT ![w] = s]

(* ActionEmitEOFs *)
Finalize(w, m) ==
  LET s == WithEOF(mem[w], m)
  IN /\ IsEOF(m)
     /\ Accepted(w, m)
     /\ AllReceived(w, s) /\ Complete(s)
     /\ inbox' = [inbox EXCEPT ![w] = Tail(@)]
     /\ pending' = [pending EXCEPT ![w] = Append(@, m)]
     /\ Finalizing(w, s)
     /\ UNCHANGED <<disk, tomb, result, crashes>>

(* The closing token reaches a sharder when every transaction was handled. *)
CloseSharder(w) ==
  /\ w \in Sharders \ (tomb \cup closing)
  /\ \A v \in Sharders \ tomb : \A t \in Tx : homeOf[t] = v[2] => Input(t) \in mem[v].seen
  /\ Finalizing(w, mem[w])
  /\ UNCHANGED <<inbox, pending, disk, tomb, result, crashes>>

-----------------------------------------------------------------------------
(* Publishing, and the end of a client at a worker *)

LetIn(m) == IF \E o \in result : o.type = m.type /\ o.from = m.from /\ (m.type = "eof" \/ o.seq = m.seq)
              THEN result ELSE result \cup {m}

Publish(w) ==
  /\ outbox[w] # <<>>
  /\ LET m == Head(outbox[w])
     IN IF m.to = Joiner THEN result' = LetIn(m) /\ UNCHANGED inbox
        ELSE inbox' = [inbox EXCEPT ![m.to] = Append(@, m)] /\ UNCHANGED result
  /\ outbox' = [outbox EXCEPT ![w] = Tail(@)]
  /\ UNCHANGED <<pending, mem, disk, closing, tomb, crashes>>

(* Mutation: the checkpoint outlives the client. *)
MutCompleteClient(w) ==
  /\ w \in closing /\ outbox[w] = <<>>
  /\ tomb' = tomb \cup {w}
  /\ closing' = closing \ {w}
  /\ mem' = [mem EXCEPT ![w] = Fresh]
  /\ pending' = [pending EXCEPT ![w] = <<>>]
  /\ UNCHANGED <<inbox, disk, outbox, result, crashes>>

(* completeClient and CleanupClient *)
CompleteClient(w) ==
  /\ w \in closing /\ outbox[w] = <<>>
  /\ tomb' = tomb \cup {w}
  /\ closing' = closing \ {w}
  /\ mem' = [mem EXCEPT ![w] = Fresh]
  /\ disk' = [disk EXCEPT ![w] = NoCheckpoint]
  /\ pending' = [pending EXCEPT ![w] = <<>>]
  /\ UNCHANGED <<inbox, outbox, result, crashes>>

-----------------------------------------------------------------------------
(* loadCheckpoints.  A crash after one sharder has closed is left to         *)
(* RingStage.  An EOF that was acknowledged but is only in memory is lost:   *)
(* that crash is excluded unless LoseEOFs (CheckpointedWorker has it too).   *)
LosesEOF(w) == \E e \in mem[w].eofs : /\ e \notin disk[w].state.eofs
                                      /\ \A m \in ToSet(pending[w]) : IsEOF(m) => m.from # e.from

Crash(w) ==
  /\ crashes < MaxCrashes
  /\ w \notin tomb
  /\ w \in Sharders => Sharders \cap tomb = {}
  /\ LosesEOF(w) => LoseEOFs
  /\ crashes' = crashes + 1
  /\ mem' = [mem EXCEPT ![w] = disk[w].state]
  /\ inbox' = [inbox EXCEPT ![w] = pending[w] \o @]
  /\ pending' = [pending EXCEPT ![w] = <<>>]
  /\ outbox' = [outbox EXCEPT ![w] = <<>>]
  /\ closing' = closing \ {w}
  /\ UNCHANGED <<disk, tomb, result>>

-----------------------------------------------------------------------------
Consume(w) == \E m \in ToSet(inbox[w]) :
                \/ Discard(w, m)
                \/ Learn(w, m) \/ KeepEOF(w, m) \/ Finalize(w, m)
                \/ m.type = "tx" /\ Shard(w, m.tx)
Finish(w) == Publish(w) \/ CompleteClient(w)

Next == \E w \in Worker : \/ Consume(w) \/ CloseSharder(w)
                          \/ Finish(w)
                          \/ Crash(w)

Spec == Init /\ [][Next]_vars
-----------------------------------------------------------------------------
(* Properties *)

Items == [src : Account, dst : Account, bySource : BOOLEAN]
Paths == [src : Account, mid : Account, dst : Account]
EOFs == [from : Worker, total : Nat]

(* Type invariant of the workers and of what is between them; of a client    *)
(* that ended nothing is left but the tombstone (completeClient,             *)
(* runtime.go:1304-1325).                                                    *)
TypeOK ==
  /\ \A w \in Worker : \A m \in ToSet(inbox[w] \o pending[w]) :
       \/ m.type = "tx" /\ m.tx \in Tx /\ w \in Sharders
       \/ m.type = "batch" /\ m.to = w /\ m.from \in Upstream(w)
            /\ m.items \subseteq IF w \in Counters THEN Paths ELSE Items
       \/ IsEOF(m) /\ m.to = w /\ m.from \in Upstream(w) /\ m.total \in Nat
  /\ \A w \in Worker : \A s \in {mem[w], disk[w].state} :
       /\ s.facts \cup s.delta \subseteq IF w \in Counters THEN Paths ELSE Facts
       /\ s.qualified \subseteq Edges
       /\ s.processed \in Nat /\ s.eofs \subseteq EOFs
       /\ s.perShard \in [Filters -> Nat]
  /\ \A w \in Worker : \A m \in ToSet(outbox[w]) : m.from = w /\ m.to \in ToSet(Downstream(w))
  /\ closing \subseteq Worker /\ tomb \subseteq Worker
  /\ \A w \in tomb : mem[w] = Fresh /\ disk[w] = NoCheckpoint /\ pending[w] = <<>>
  /\ crashes \in Nat

Done == \A c \in Counters : \E o \in result : o.type = "eof" /\ o.from = c
Pairs == UNION {o.items : o \in {p \in result : p.type = "batch"}}

(* However the batches interleave, and whatever is killed and done again,    *)
(* the result of query 4 is the pairs the query defines                      *)
(* (buildPairOutputs, counter.go:203-242), and each is reported once.        *)
PairsAreExact ==
  Done => /\ Pairs = ScatterGatherPairs({edgeOf[t] : t \in Tx})
          /\ \A o, p \in result : o.type = "batch" /\ p.type = "batch" /\ o # p
                                    => o.items \cap p.items = {}

(* What a restart would rebuild once everything is acknowledged is what is   *)
(* in memory, whatever mix of snapshots and deltas it comes from (TakeDelta  *)
(* and ApplyDelta, counter.go:139-182).                                      *)
Strategy(s) == <<s.facts, s.qualified, s.seen, s.processed, s.perShard>>
RecoveryIsExact ==
  \A w \in Worker : pending[w] = <<>> /\ w \notin closing => Strategy(disk[w].state) = Strategy(mem[w])

(* A worker that finalizes a second time announces the totals it announced;  *)
(* recordEOF panics otherwise (joiner_accumulate.go:19-21).                  *)
TotalsAgree ==
  \A w \in Worker : \A m \in ToSet(inbox[w]) : \A e \in mem[w].eofs :
    IsEOF(m) /\ m.from = e.from => m.total = e.total

(* The totals can be reached: when the sharders have closed and no message   *)
(* is left but EOFs that go round, every worker has finalized (OnUpstreamEOF,*)
(* joiner_accumulate.go:60-90).  A step that is not such a round is never    *)
(* repeated, so this is what keeps the query from waiting for ever.          *)
OnlyRetries(w) == \A m \in ToSet(inbox[w]) : m.type = "retry" /\ ~Complete(mem[w])

NobodyWaitsForEver ==
  (Sharders \subseteq tomb /\ closing = {} /\ \A w \in Worker : OnlyRetries(w)) => tomb = Worker
=============================================================================
