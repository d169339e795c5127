# Verification of the money-laundering pipeline

TLA+ models, TLC runs and TLAPS proofs for the distributed system in `src/`: a
pipeline of worker stages over RabbitMQ that answers five queries on a stream of
transactions, for many clients at once, and that is expected to give the same
answer when any container but RabbitMQ is killed and restarted.

Source paths below are relative to `src/src/` of the repository, documents to `src/docs/`.

## 1. The system

```
client --TCP--> gateway --> filter / sharders --> joins, counters, maxima --> aggregators --> final_joiner --> gateway --> client
                                 (stages of N replicas each, RabbitMQ queues between them)
sentinels (leader elected by Bully) --heartbeat--> every container, restarted when silent
fetcher --> exchange rates          chaos_monkey --SIGKILL--> any container but RabbitMQ
```

| component | state it keeps | operations | what is hard | what makes it correct |
|---|---|---|---|---|
| **worker runtime** `worker/runtime/runtime.go` | per client: deduplication sets, processed items, coordination high-water marks, output SeqID, cached upstream EOF, unacknowledged deliveries; tombstones | handle batch, upstream EOF, ring token, ClientAborted; checkpointAndAck; completeClient; maintenance ticker; shutdown; loadCheckpoints | kills between confirm, file and ack; redelivery; a full prefetch window; aborts from another consumer | an acknowledged delivery is on disk and has been forwarded; each batch counts once; every client is finished or forgotten |
| **JoinerAccumulateCoordinator** `common/eof/joiner_accumulate.go` | senders whose EOF arrived, their totals, finalized | OnUpstreamEOF | an EOF overtakes data; retries pass through deduplication | nothing is emitted before all data; something is emitted in the end |
| **RingCoordinator** `common/eof/ring.go` | ring state of the client at its initiator | OnUpstreamEOF, OnRingToken (collecting and closing) | the sum is compared with counts that can be rolled back; lost and repeated tokens | one round at a time; no announcement while data is outstanding; every replica that has to announces it |
| **checkpoint files** `common/checkpoint/checkpoint.go` | one file per client, `meta.json` | write (temporary file, fsync, rename), load, remove | kill during a write | a file is the old or the new one |
| **write-ahead log** `common/wal/wal.go` | segment of a generation: length, checksum, payload | Open, AppendBatch, Replay, removal | a record cut by a kill; compaction | Replay yields what was acknowledged |
| **IntervalSet** `common/dedup/intervalset.go` | sorted disjoint intervals of uint64 | Add, Contains, JSON | merging neighbours, largest uint64 | it is the set of the values that were added |
| **middleware** `common/middleware/` | AMQP channels, outstanding publishes | publish, wait for confirms, consume, ack | confirms arrive later than the publish | a confirmed message is in its queues |
| **strategies** `worker/strategy/` | rows, counters, maxima per client | ProcessMessage, OnUpstreamEOF, OnRingToken, Marshal and Unmarshal, TakeDelta, ApplyDelta | replay of deltas, a second emission after a kill | the result is that of all batches of the client |
| **filter_q3** `worker/strategy/filter_q3` | averages, counts, a buffer file outside of the checkpoint | ProcessRawBatch, both EOFs, drain, recovery | two inputs that end in any order, averages that come late, a file that is ahead of the checkpoint | a row reaches the result once, and all have when the end is announced |
| **query 4** `sharder_q4`, `suspicious_filter`, `pathfinder`, `counter` | edges and intermediaries per account or pair, sharded | double, keep, join, count | four stages over which items and totals are sharded | the pairs that the query defines, each once |
| **joiner_usd, final_joiner, aggregators** `worker/strategy/joiner`, `finaljoiner`, `aggregator_*` | EOFs and rows of each query | as strategies | five queries end at different times | each query's end follows its rows |
| **gateway** `gateway/` | sessions, registry of clients on disk, pending results | accept, read batches, publish, deliver results, abort | restart with clients half way; a result for a closed connection | every client gets its results or its state is given up |
| **client** `client/` | files it sends and results it collects | send, reconnect, collect | the gateway dies | all results once |
| **sentinel, election** `sentinel/bully/` | state, leader, one-slot channels for OK and COORDINATOR | Handle, runElection, monitorLeader, becomeLeader | answers that come after their time-out, messages meant for an earlier election | in the end one leader that all agree on |
| **sentinel, node monitor** `sentinel/monitor/` | last heartbeat and last restart of each container | checks, restart | cooldown, failing restarts | a dead container is restarted, a live one is left alone |
| **query 5** `micro_transaction_counter`, `aggregator_q5` | counts per client; rates of the worker, in its checkpoints and in a global file | merge rates, count, both EOFs, ring; add the counts | transactions wait for the rates; a restart finds rates in two places | the number of transactions below the threshold, once |
| **fetcher** `fetcher/` | none | download rates, publish | retries, restart | published once under fixed SeqIDs |
| **message formats** `common/messageprotocol/` | none | encode, decode | none beyond bounds | round trip |
| **chaos_monkey, compose-gen, env, logging, hashing** | none | kill containers; write the deployment; read settings | none | none |

`PROJECT.json` lists the same components with what is modelled of each, and 40
hazards with the line where each one bites and the properties that watch it.

## 2. Modules

| module | models |
|---|---|
| `CheckpointedWorker` | one replica of a stage with the runtime, a JoinerAccumulateCoordinator, its files and the broker around it |
| `CheckpointedWorkerProofs` | theorems about it |
| `StageTermination` | abstract specification: what the end-of-file protocol of a stage promises to the next |
| `RingStage` | the N replicas of a stage with the ring protocol, shown to implement `StageTermination` |
| `RingStageProofs` | theorems about it, for stages that forward and stages that accumulate |
| `FilterQ3` | the replicas of filter_q3: two inputs, the buffer file, the recovery |
| `FilterQ3Proofs` | theorems about it |
| `SuspiciousPairs` | what the four strategies of query 4 compute, as functions of sets, and the query they answer |
| `SuspiciousPairsProofs` | theorems about them |
| `ScatterGather` | query 4 on the workers of its four stages: batches, totals, checkpoints, log, crashes |
| `MicroTransactions` | query 5: fetcher, the replicas of micro_transaction_counter with their deferred input and two kinds of files, aggregator_q5 |
| `MicroTransactionsProofs` | theorems about it |
| `SentinelCluster` | the sentinels: Bully election, heartbeats, restarts by the leader |
| `SentinelClusterProofs` | theorems about it |
| `GatewaySession` | the gateway and its clients: sessions, `clients.json`, delivery of results |
| `GatewaySessionProofs` | theorems about it |
| `IntervalSet` | the sorted intervals that deduplication is built on; used by `GatewaySession` |
| `IntervalSetProofs` | theorems about its operators |
| `MCCheckpointedWorker`, `MCRingStage`, `MCFilterQ3`, `MCScatterGather`, `MCMicroTransactions`, `MCSentinelCluster`, `MCGatewaySession` | the batches and their senders, the transactions, the containers, and the results of a client, for TLC |

An operator `Mut...` is the definition that follows it with a plausible bug
put in. Nothing else uses it. Each property of a passing run is listed in
`PROJECT.json` with such an operator, and fails under it: the property is able to notice
a bug in the code it speaks of.

### CheckpointedWorker

One variable per place in which the code keeps something:

| variable | code |
|---|---|
| `ready` | the input queue at the broker |
| `pending` | `pendingAcks` |
| `mem[c]` | the per-client maps of `Runtime` and of the coordinator and strategy |
| `disk[c]` | the checkpoint file of the client and the WAL segment of its generation |
| `tomb` | `tombstones` and `meta.json` |
| `unconf`, `down` | publishes the broker has not confirmed; those it has |
| `job` | how far checkpointAndAck, completeClient or abortClient has come |
| `sweep`, `draining` | the loops over clients of flushAllPending, runMaintenance and shutdownWatcher |
| `closed`, `crashes`, `redeliveries` | history and bounds |

`stateMu` serialises the handlers, so a handler's changes in memory and its sends
are one action. What follows, waiting for confirms, writing the file, writing the
tombstone, each single ack, cleaning up, are actions of their own (`Confirm`,
`WriteCheckpoint`, `WriteFinalCheckpoint`, `WriteTombstone`, `Ack`,
`CheckpointDone`, `Cleanup`), because a kill can fall between any two of them.
`Restart` is what `New` and `loadCheckpoints` leave: memory is the file with its
log replayed, unacknowledged deliveries are back in the queue, publishes that
were not confirmed are lost. Losing them is the pessimistic choice; a confirm
that was lost although the message arrived is `Accept` followed by `Crash`.

Abstractions: a batch is a model value with one item, standing for its
deduplication key and SeqID; the queue is a set, so every order of delivery
occurs; a duplicate from an upstream replica that published again is
`Redeliver`, at any moment; the strategy's state is how often it folded in each
batch, which is what "the same result" depends on. Assumed, and not shown:
`TOMBSTONE_TTL` outlasts all redeliveries of a client's messages, and writing
`meta.json` succeeds.

### RingStage

`inbox[r]` holds the input and the ring queue of replica `r`, in order;
`taken[r]` how many deliveries at the head of each are unacknowledged;
`mem`/`disk` the state of the client and its checkpoint; `phase` whether
checkpointAndAck or completeClient ends the handler. `TryFinalize`,
`UpstreamEOFOutcome` and `TokenOutcome` are `tryFinalize`, `OnUpstreamEOF` and
`OnRingToken`/`onClosingToken`. The upstream EOF always goes to replica 0.

`outbox` is what the replica has buffered or published and the broker has not
accepted. `publishLocked` waits for no confirm, and there is one connection per
target (`Target`: the ring of the successor, the own input queue, the next stages), so
`Publish` takes the messages in order for each target and in no order between
them: a token may be with the successor while the data that it counts is
still outstanding. Only `Checkpoint` and `Complete` wait until all is accepted
(`flushPublishers`), and a crash loses what is not. `sent` holds the replicas whose
token or retried EOF has left while the state it tells of is not saved.

The constants say which stage it is:

| stage | `Forwards` | `Broadcast` (`broadcastEOFOnClose`) |
|---|---|---|
| filter | TRUE: data is sent on when it is handled | FALSE: closed by replica 0 alone |
| sharder_q4, filter_amount_lt_50 | TRUE | TRUE: a closing token goes round, each replica sends its EOF |
| those that accumulate | FALSE: the result is sent with the end | TRUE |

`KillAfterSend` says whether a crash may hit a replica in `sent`. The code does
nothing against such a kill, and it does break the protocol: `ringLoss`
is the run with it.

Its queues keep their order, unlike those of `CheckpointedWorker`: whether the retried EOF
goes to the *end* of the queue is what makes the protocol end. All initial
interleavings of data and EOF are initial states. A checkpoint and its acks
are one step here; the steps between are the subject of `CheckpointedWorker`.

`StageTermination` says: batches are absorbed, some at a time and for good, a replica
announces the end only after all were, and all do. `ImplementsPromise` is the
refinement, with `absorbed` the batches that are delivered, or saved at their
replica, and `closed` the replicas that have sent their EOF. *Saved* is what a restart loads; for a
replica in `sent`, which does not crash without `KillAfterSend`, it is the state it is about to write (`Saved`).

### FilterQ3

`inbox[r]` is what the three queues of replica `r` (transactions, averages, ring) can deliver,
`mem`/`disk` the state of the client and its checkpoint, `file` the buffer. A record of `mem` has a
field for each field of `clientState` and of the two coordinators: `seen` is `dedupSeen`, `p2Seen`,
`buffered` (`bufferedSeen`) and `records` (`bufferCount`) are the three counts that the recovery has
to reconcile, `cached` is the one slot of `upstreamEOFs`. `BufferBatch` and `FilterBatch` are the two
ways through `ProcessRawBatch`. `RecoveredBuffer` is `recoverBufferState`, and `Recovered` what
`UnmarshalClientState` and `RecoveredDedupHeaders` make of it. `FinalizeAndEmit` gives the messages
of `drainIterator`, with the removal of the file where the code has it: after the last row was
yielded, and before the batch with that row is flushed. Each message leaves in a `Publish` step. The rows that `FilterBatch` passes on
are in `unconfirmed` until the broker accepts them (`Confirm`), in any order and also after a token that counts
their batches has left; a checkpoint waits for them.

The averages of a client are one batch, and only whether a row passes is kept of a transaction:
`Passing`. Three moments are not protected by the code, and a crash falls into them only if `Windows` says
so: before the first checkpoint of the client (`beforeCheckpoint`), between the removal of the file and the last confirm (`afterDrain`), and
while a token or retried EOF is sent on, until the checkpoint after it is written (`forward`, the moment of `ringLoss`).
The runs have `Windows = {}`; what fails in each of them is among the other disagreements of section 3.

### SuspiciousPairs and ScatterGather

`SuspiciousPairs` has one operator for each strategy: `Doubled` (sharder_q4), `FactOf` and
`SuspiciousOutputs` (suspicious_filter), `CrossProduct` (pathfinder), `QualifiedPairs` (counter).
A *fact* is what a worker remembers: an edge of an account, seen from that account. `ScatterGatherPairs`
is the query as section 2 of `TP_Escalabilidad.pdf` has it, and `Pipeline` the four strategies one after the other.

`ScatterGather` runs them on workers:

| part of the state | code |
|---|---|
| `inbox[w]`, `pending[w]` | the queue of the worker, in order, and `pendingAcks` |
| `mem[w].facts`, `.qualified`, `.delta` | the strategy's maps (`accounts`, `pairs`) and `pendingDelta` |
| `mem[w].seen`, `.processed`, `.eofs` | `dedupSeen`, `processedItems`, `ReceivedFrom` |
| `mem[w].perShard` | `perShard` of a sharder |
| `disk[w]` | what the checkpoint file and a replay of its log give |
| `outbox[w]`, `closing` | what a finalized worker has still to publish |
| `result` | what final_joiner lets in |

A handler is one step (`Shard`, `Learn`, `KeepEOF`, `Finalize`), a checkpoint that `CheckpointInterval`
deliveries lead to belongs to it, as in `enqueuePending`. `Checkpoints` is the snapshot, or with a log the replay of what
is on disk and the delta: `Replayed` goes through the strategy's own `ApplyDelta`, so a delta that leaves something out
shows. `Emission` is a sequence, published message by message; a crash anywhere in it loses the rest, and the worker
begins again from `disk`. The ring of the sharders is reduced to its promise
(`CloseSharder`): `RingStage` has the protocol.

### MicroTransactions

| part of the state | code |
|---|---|
| `fetched` | how far `publishToAllQueues` is: rates and EOF for one replica after the other |
| `inbox[r]`, `pending[r]` | the transactions, conversions and ring queues of a replica, and `pendingAcks` |
| `mem[r].client` | `clientState`, the RingCoordinator and the coordination marks of the client |
| `mem[r].conversions` | what deduplication knows of the pseudo-client `q5_conversions` |
| `mem[r].rates`, `.ready` | `rates`, `conversionsReady` |
| `mem[r].started` | whether the deferred input consumes |
| `disk[r]` | the checkpoint of the client, that of `q5_conversions`, and the global file |
| `agg`, `answer` | aggregator_q5 and what it emits |

Each `Checkpoint` writes the client or the conversions *and* the rates; the global file and the acks
follow in `SaveGlobal`, a step of its own, because a kill can fall between. `Load` is the order in which `loadCheckpoints` reads:
checkpoints first, the global file last, and the deferred input opens if there was any checkpoint. The
fetcher that is killed half way starts again with the same identifiers (`Refetch`). Two moments are not protected, and a crash falls into them only if `Windows` says so:
when its restart would consume transactions without rates (`blind`), and while a token or retried EOF is sent on, until the checkpoint after it
is written (`forward`); see the other disagreements in section 3. Amounts are abstracted to
two sets: the transactions to count, and those that need no rate.

### SentinelCluster

| part of the state | code |
|---|---|
| `up` | the containers that run |
| `mem[s].state`, `.leader` | `BullyCoordinator.state`, `.leaderID` |
| `mem[s].phase`, `.todo` | where the goroutine that holds `electMu` is in `runElection`, and the peers it has still to send to |
| `mem[s].ok`, `.coord` | the one-slot channels `okReceived`, `coordReceived` |
| `mem[s].fresh`, `.cooling` | the ages of the last heartbeats and restarts, compared with their limits |
| `net` | control messages that are under way, calls of `triggerElection` that wait for `TryLock`, `docker restart` commands that run |

A goroutine of its own handles each message, so the bag `net` has no order.
The sends of `runElection` are single steps, lowest peer first; each handler is one step.
Initially nothing is up and `net` holds one start of every node, which is docker compose:
the sentinels come up in any order, and a message sent to one that is not up yet is lost.

There is no clock. A time-out that ends although the answer it waits for
is there or on its way (`OKTimeout`, `CoordTimeout`), a heartbeat that expires although
its sender lives (`Expire`), a `docker restart` that fails and a crash are all
*faults*: each may happen anywhere, `MaxFaults` times in total. `Unless(cond)`
reads: free if `cond` holds, a fault if it does not. No assumption on timing goes into
safety, and liveness asks what the cluster does once timing is good.
A crash never takes the last sentinel, because then nobody restarts anything.

### GatewaySession and IntervalSet

| part of the state | code |
|---|---|
| `client[c]` | `Client`: how far `runSession` is, and the result files (`rows`, `open`) with `eofByQuery` (`eofs`) |
| `conn[s]` | the connection of session `s`: what is on the way to each end, and which end is open; `gwOpen` is also the context of the `ClientState` |
| `gw.clients`, `file` | the map `clients` and `clients.json` |
| `gw.registry` | the `ClientRegistry` |
| `gw.hand` | the delivery, and the item of it, on which `forwardFinalMessage` works |
| `sess[s].reader`, `.out` | where `handleClientSession` and `handleClientResultOutput` are |
| `sess[s].queue`, `.ackCh`, `.seen` | `resultQueue`, `resultAckCh`, `seen` |
| `sess[s].pending`, `.next` | the `resultBatchBuilder`, and the item whose `append` has to flush first |
| `left` | `remaining` of each delivery that is unacknowledged |

A session is the ClientID that `Accept` draws. Three goroutines of the gateway meet in it:
the reader, the output, and the consumer of the FINAL queue, which serves all
sessions and may stand in `EnqueueResult`. `cleanupClientSession` takes three steps
(`PublishAborted`, `UnregisterClient`, `RemoveClient`), a revival one for each ClientAborted and one
for the file, as a crash can fall between them. The consumer already runs while the
gateway revives. The side of a connection that was not closed notices
at once, or after it has read what was queued. The pipeline is
reduced to `published` (what it took in for a session), `aborted` (what it was told to give
up) and the batches it puts on the FINAL queue, which are the same for every session.

`IntervalSet` has the binary search and the four cases of `Add` as one splice, with the
guards against wrapping at the largest identifier. `MaxID` stands for 2^64-1.

## 3. What the runs show

| run | instance | result |
|---|---|---|
| `snap` | 2 clients with 1 batch each, 2 senders, interval 2, window 2, 1 crash or shutdown, an abort of one client, EOF SeqID to 2 | `AckedBatchIsDurable`, `AckedBatchIsForwarded`, `ExactlyOnceEffect`, `ResultIsComplete`, `DurableNeverShrinks`, `AggregatedEOFEmitted`, `AbortForgetsClient`, `TypeOK` hold |
| `wal` | 2 clients, 1 sender, 2 batches of one of them, interval 1, WAL, 2 crashes, 1 duplicate | `AckedBatchIsDurable`, `ExactlyOnceEffect`, `DurableNeverShrinks` hold over appends, compactions and replays |
| `ring` | 3 accumulating replicas, 4 batches, 1 crash, not between a token or EOF that has left and its checkpoint | `OneRound`, `ClosedIsComplete`, `ImplementsPromise` (safety and liveness), `TypeOK` hold |
| `ringFilter` | 2 replicas of filter, 3 batches, 2 crashes anywhere, 1 duplicate | `NoBatchLost` holds |
| `sentinels` | 2 sentinels and a container, 2 faults | `HighestLeads`, `DeadIsRevived`, `AgreementIsStable`, `TypeOK` hold |
| `gateway` | 1 client, 1 message, 3 result batches of 2 queries, 2 sessions, 1 fault and a crash during the revival | `PublishedIsRegistered`, `AbortedIsOver`, `ResultsAreExact`, `AckedIsDelivered`, `ClientsFinish`, `SessionsReclaimed`, `TypeOK` hold |
| `q3` | 2 replicas of filter_q3, averages early or late, 1 crash, not in the three unprotected moments, 1 duplicate | `CountIsExact`, `RowsOnce`, `EndedIsComplete`, `AnnouncedAreSent`, `TypeOK` hold |
| `queries` | 6 workers, of which 1 sharder whose input has a fixed order, 4 accounts, 7 transactions (one twice), WAL, 1 crash | `PairsAreExact`, `RecoveryIsExact`, `TotalsAgree`, `NobodyWaitsForEver`, `TypeOK` hold |
| `rates` | 2 replicas of micro_transaction_counter, 3 transactions, 1 crash, not in the two unprotected moments, 1 restart of the fetcher | `AnswerIsExact`, `AnswerArrives`, `TypeOK` hold |
| `ringLoss` | 2 accumulating replicas, 1 crash anywhere | `NoBatchLost` is violated |
| `sentinelsSplit` | 3 sentinels, no fault | `OneLeader` is violated |
| `q3Hang` | 2 replicas of filter_q3, no fault | `EveryReplicaCloses` is violated |

The three violations are disagreements of the code with its documentation or comments:

* **ringLoss.** A replica forwards the token with a count that includes batches not
  yet in its checkpoint. If it is killed then, the sum reaches the total, and
  the closing token, on its own queue, can be handled before the
  redelivered batches, which are then discarded with the client.
* **sentinelsSplit.** While a leader sends its Coordinator messages it holds `electMu`, so the
  election it should start when a lower sentinel proclaims itself is dropped. That one had been told of the leader
  while it waited for an OK, where `runElection` does not look. Both remain leaders, and a leader
  monitors no leader. Section 8.2.3 names the loss of a message as the only cause of two leaders.
* **q3Hang.** `upstreamEOFs` has one slot per client, and filter_q3 two inputs. If the averages end
  while the token of the transactions goes round, their EOF is in the slot when the sum turns out too small, and is
  what the initiator sends to its queue again. The averages' coordinator is finalized and does nothing
  with it; the transactions' EOF never comes back and the client stays open. It takes no fault.
  Section 5.1 of the fault-tolerance document says that the *same* EOF is published again, and section 5.2
  that the system converges.

#### Other disagreements

These are found with other constants of the same modules:

| module and property | constants | what happens |
|---|---|---|
| `CheckpointedWorker`, `AckedBatchIsDurable` | those of `wal.cfg` with `TornWrites = TRUE` | `wal.Open` appends behind a torn record, and `Replay` stops at it: what is appended, and acknowledged, after the restart is lost by the next crash. Section 8.5.2 of the fault-tolerance document says that discarding what follows a torn record is right, because it was never acknowledged. |
| `CheckpointedWorker`, `AggregatedEOFEmitted` | those of `snap.cfg` with `WALEnabled = TRUE` and interval 1 | The log holds deltas of batches only. An EOF is acknowledged by the checkpoint that appends them, and is durable only after the next compaction. A crash in between forgets it and the client is never finished. |
| `RingStage`, `EveryCloserCloses` | those of `ringFilter.cfg` with one crash and no duplicate | The initiator publishes the token, is killed before its checkpoint, and publishes it again after the restart with the same SeqID. The neighbour drops the copy; the first token returns to an initiator without ring state, which ends the round without a retry. |
| `GatewaySession`, `DeliveriesSettled` | one client, one message, `Results <- Short`, `Prefetch = 8`, `MaxFinal = 1`, one fault | When the output of a session fails, the items in the batch builder are nacked. Those still in `resultQueue`, and those that `EnqueueResult` puts there afterwards, are dropped with their ack and nack: their deliveries stay unacknowledged until the gateway restarts, and take places of the prefetch window that all its clients share. The comment at `gateway.go:287` says that the whole message is nacked if any item fails. |
| `RingStage`, `NoBatchLost` | those of `ringLoss.cfg` with `Forwards = TRUE` (sharder_q4, filter_amount_lt_50) | The token leaves with the count of a batch whose data is published and not accepted. The kill loses both, the sum reaches the total, the closing token tombstones the client at the replica before the batch is redelivered, and it is discarded. `ClosedIsComplete` fails too. |
| `FilterQ3`, `RowsOnce` | those of `q3.cfg` with `Windows = {"beforeCheckpoint"}` | `recoverBufferState` is called by `UnmarshalClientState` only. A replica that is killed before its first checkpoint of the client restarts without one, nobody looks for the file, the batches are redelivered and appended a second time: their rows are doubled. With a second crash `CountIsExact`, `EndedIsComplete` and `AnnouncedAreSent` fail too. |
| `FilterQ3`, `EndedIsComplete` | those of `q3.cfg` with `Windows = {"afterDrain"}` | The file is removed when it has been read (`filter_q3.go:382-385`) and the last rows are published after that. A kill in between loses them, and the replica announces the end without them. |
| `FilterQ3`, `EndedIsComplete` | those of `q3.cfg` with `Windows = {"forward"}` | The moment of `ringLoss`: the token leaves with the count of a batch, the kill takes back the count or the row that was not confirmed, the sum reaches the total all the same, and the batch comes again after the closing token. |
| `ScatterGather`, `NobodyWaitsForEver` | those of `queries.cfg` with `LoseEOFs = TRUE` | The loss of an EOF by `CheckpointedWorker` above, seen from a whole query: an acknowledged EOF that a crash forgets leaves the stage waiting for it. |
| `MicroTransactions`, `AnswerIsExact` | those of `rates.cfg` with `Windows = {"blind"}` | A restart that finds any checkpoint opens the deferred input (`runtime.go:218-223`), also one that a ring token left before the rates came. And the rates are written twice, the global file after the checkpoint (`runtime.go:1145`) but read last: a kill in between brings back a global file without them. Either way transactions in other currencies are not counted. The description of query 5 says that a counter processes transactions only after the EOF of the rates. |
| `MicroTransactions`, `AnswerIsExact` and `AnswerArrives` | those of `rates.cfg` with `Windows = {"forward"}` | The moment of `ringLoss` again: the count of a token is taken back, and the answer is too small; or the token is published again under the SeqID its successor knows, which drops it, and the answer never comes. |

The fetcher is a disagreement of another kind. `chaos_multikill.yaml:24-26` says that a killed fetcher is revived
by the sentinels, but the compose generator lists only workers and gateways for them to watch (`tools/compose-gen/main.go:638`) and gives no
restart policy. Nobody starts a fetcher again. `rates` assumes that it ends.

`CHECK_DEADLOCK FALSE` stands in every configuration because the system does
stop: when its clients are closed and the bounds on faults are used up, nothing
is left to do.

### Bounds

`MaxCrashes`, `MaxRedeliveries` and `MaxEOFSeq` cap the counters and appear only in guards;
`Abortable` bounds which clients may be aborted. Two batches per client are enough for a checkpoint that holds one and not the
other, an EOF that overtakes one of them, and a sum that is off by one; two senders for
the coordinator to wait. In `snap` one batch of each client fills the window of 2 while neither client reaches its interval of 2: nothing more
is delivered, the EOFs included, until `flushAllPending` (in `AfterBatch`) or the ticker (`StartMaintenance`) checkpoints
both (`MutSweepNext`, which leaves out the clients below their interval, breaks `AggregatedEOFEmitted`). In `wal` both batches are of one client,
so a snapshot can hold one and the log the other; its window is never full. A second crash matters for the log, whose state after the first
differs from a fresh one; with full snapshots a restart leads to a state the first run could reach as well. Three replicas are the smallest ring with a replica that is neither the
initiator nor its neighbour on both sides. A crash in `ring` can fall before a token is sent, after a closing token was handled and while the end is sent; the same
properties also hold with `Forwards = TRUE` and `MaxEOFSeq = 3`, the instance of sharder_q4 and filter_amount_lt_50 (98,751 states); in `RingStage` the last retry of
the EOF is made when all data has been handled (`WithinBound`), so the bound does
not cut off the round that must succeed. With two sentinels
every role occurs (the highest, one that is not, the one that restarts the other),
and the second fault can hit the recovery from the first: both a leader and the
container it was about to restart, a restart that fails, an election during an early time-out. The split needs three. In
`FilterQ3` the three batches are one that passes and one that does not for replica 0, and one of replica 1, so that the
sum, the drained rows and the total can each be off by one. In `ScatterGather` two accounts of four connect a pair, with both
thresholds at 2: each count is exactly at its limit. The same two accounts lead back to the first, and one transaction comes twice. Filters
get five batches at an interval of 3 and write a snapshot and a record of the log; the counter gets two, at an interval of 1. In
`MicroTransactions` each replica has a transaction that needs the rates and is counted, so an answer without rates is wrong
wherever that happens, and one of them has one that is not counted, which makes the sum of the ring differ from the answer. In
`GatewaySession` one session fails and the next one works on what is left of it: results that
were requeued, a ClientAborted under way, a consumer that holds an item of the old session.
`QueueSize` and `BatchLimit` of 2 fill both the queue and a batch. `MaxFinal` bounds only how far the pipeline runs ahead
of the gateway, and one message is enough for a session of which the pipeline has something. For safety, the theorems of section 4
remove these bounds, as they do for the other modules they speak of.

### Fairness

`CheckpointedWorker`: weak fairness of delivery, of the steps of the job in
progress, of the broker accepting a publish, of the maintenance ticker, of the
abort consumer, and of the end of a shutdown. The code has a goroutine or the
broker behind each, and `stateMu` is not held for ever: the only waits under it are for confirms. `RingStage`: weak fairness
of each replica's two consumers and of finishing a handler. `FilterQ3`: weak fairness
of each replica's consumers together and of finishing a handler; `q3Hang` is a counterexample under it. `ScatterGather` states no fairness:
that a query does not wait for ever is the invariant `NobodyWaitsForEver` there, because the only steps that can repeat are the rounds of a
retried EOF, and the invariant says that when nothing else is left all workers have ended. `MicroTransactions`: weak fairness of the
fetcher, of each replica's consumers together, of finishing a handler and of the aggregator. `SentinelCluster`: weak fairness
of each sentinel's election, of its tickers, of heartbeats, of supervision, and of delivery to each
node, all of it without faults. `GatewaySession`: weak fairness of the gateway's sessions taken together, of its consumer, of its
start, of each client and of the pipeline; that is less than the scheduler gives, which runs every goroutine. Crashes, shutdowns, duplicates and aborts are
never fair.

## 4. What is proved

About `CheckpointedWorker`, for every finite set of clients, senders and batches, every interval and window, and any number of crashes and redeliveries:

| theorem | statement |
|---|---|
| `TypeCorrect` | `Spec => []TypeOK` |
| `AckedIsDurable` | `~TornWrites => (Spec => []AckedBatchIsDurable)` |
| `AckedIsForwarded` | `Spec => []AckedBatchIsForwarded` |
| `ExactlyOnce` | `Spec => []ExactlyOnceEffect` |
| `CompleteResults` | `Spec => []ResultIsComplete` |
| `DurableMonotone` | `Spec => DurableNeverShrinks` |

The only assumption on the constants is `ConstantsAssumption`. `~TornWrites` cannot be dropped from
`AckedIsDurable` (other disagreements, section 3); the other theorems hold with torn writes too.

None of the properties but `TypeOK` is inductive. `IndInv` adds:

* `KnownBatches`: a client's state knows only its batches, and a finalized one all of
  them. Without it an EOF could complete a client from another client's batches.
* `Counted`: memory counts each batch once, and a segment and its snapshot share no
  batch, so that replay counts each once. This is why compaction must change the generation.
* `Ahead`: memory is never behind the files, so writing memory out loses nothing.
* `PendingKnown`, `PendingNew`: an unacknowledged batch is known to memory, and not
  durable unless its job has written. An append therefore adds only new batches.
* `JobInv`: what the steps of a job have established for the next: confirms are
  in before a file is written, a completing client is finalized.
* `Durable`: with no torn segment, what memory knows is on disk or unacknowledged,
  and after the write of a checkpoint all of it is on disk.
* `ForwardedInv`: an unacknowledged batch's output is published, a durable one's is confirmed.

There is one lemma per action (`HandleBatchInd`, `WriteCheckpointInd`, ...), and
one step per conjunct the action can disturb. `Restart` is the interesting one: memory becomes `Load(disk)`, whose
counts follow from `LoadCounted`. `IndInv` was checked by TLC on the instances of
`snap` and `wal`, and with torn writes, before it was proved.

About `IntervalSet`, for every `MaxID` in `Nat` and with no other assumption:

| theorem | statement |
|---|---|
| `ContainsIsMembership` | on a canonical sequence (sorted, with gaps between neighbours) `Contains(ranges, id) <=> id \in Values(ranges)` |
| `AddIsUnion` | `Add` returns a canonical sequence, and `Values(Add(ranges, id)) = Values(ranges) \cup {id}` |

`SearchFinds` shows, from the least element of a set of numbers, that `Search` is defined;
`Splice` reads the new sequence index by index, and each of the four cases of `Add` follows from it.
The empty set is canonical, so a set built by `Add` alone stays canonical.

About `SuspiciousPairs`, for every finite set of transactions, all accounts, and `1 <= Threshold <= MinIntermediates`:

| theorem | statement |
|---|---|
| `PipelineIsTheQuery` | `Pipeline(edges) = ScatterGatherPairs(edges)` |
| `FiltersShareTheWork` | the suspicious outputs of the workers, each from the facts of its accounts, are together those of one worker with all facts |
| `FindersShareTheWork`, `CountersShareTheWork` | the same for the paths and for the qualified pairs |

The filter drops edges on two sides: of an account with few outgoing edges, and of one with few incoming ones.
The argument is that none of them belongs to a pair of the result. If `a` and `b` are connected by `MinIntermediates`
accounts, `a` has at least that many outgoing edges and `b` that many incoming ones (`EndsAreSuspicious`), so the filter keeps, for
each intermediary, its edge from `a` and its edge to `b`. Those two meet as facts of the intermediary at one pathfinder
(`KeptFacts`, `PathsOfFacts`), and the counter counts exactly the intermediaries (`PathsOfPair`). Conversely no path is made up, as
a kept edge is an edge. `Threshold <= MinIntermediates` is needed, and is what the deployment's defaults (5 and 5) satisfy.
`ScatterGather` checks with TLC what the theorems leave out: that the workers, with their queues and crashes, do compute these functions.

About `RingStage`, for every number of replicas, every finite set of batches however they are sharded, any number of
crashes, repeated messages and retries, and all kinds of stages (`Forwards`, `Broadcast`):

| theorem | statement |
|---|---|
| `TypeCorrect` | `Spec => []TypeOK` |
| `NothingIsLost` | `Spec => []NoBatchLost`, if `~KillAfterSend` |
| `ClosesComplete` | `Spec => []ClosedIsComplete`, if `~KillAfterSend` |
| `KeepsPromise` | `Spec => Promise!Init /\ [][Promise!Next]_<<Absorbed, ClosedReplicas>>`, if `~KillAfterSend`: the safety part of the refinement of `StageTermination` |
| `OneRoundAtATime` | `Spec => []OneRound`, if `~KillAfterSend` and `MaxRedeliveries = 0` |

`~KillAfterSend` is a hypothesis on the crashes and not something the code ensures: no replica is killed while a token or retried EOF of it
has left and the state it tells of is not saved. Without it the sum of a token can be of batches whose count is rolled back, or whose data was published and
never accepted, and the claims are false of the code: `ringLoss`. All other crashes are in, those with outputs
that are not confirmed included. That `filter` loses nothing with `KillAfterSend` either is model-checked only (`ringFilter`): there the end is that of replica 0 alone, and
no other replica discards anything. A repeated EOF opens a second round beside the first, which is why `OneRoundAtATime` excludes it;
the others do not rest on it, and hold with several rounds at once.

The inductive invariant `IndInv` takes all kinds of stages together. `Secure` is the set of the batches that the next stages have, and
`Kept` adds those that are `Saved` at their replica. Both only grow: a crash takes back only what is not saved, and that
nobody outside was told of. With `KillAfterSend` (`Lossy`) both are all batches, and what is left of the invariant is what `TypeCorrect` needs.

* `SeenIsOwn`: what a replica knows is its own, and the checkpoint never knows more than memory.
* `RingOK`, with `TokenOK`: the sum in any token, be it queued, unacknowledged, repeated or left from a round that a crash cut
  short, is at most the number of kept batches of the replicas up to its last one (`KeptBy`). As `Kept` only grows, a token stays
  true however late it comes. A sum that is equal to the total therefore means that all batches are kept, and no sum exceeds the total.
* `OutboxOK`: a token in an outbox will be true when it has left (`Ahead`), because its replica is then in `sent`.
* `EndIsComplete`, `EndsLast`: an announcement, and the end of a client at a replica, come after that, and the EOF comes after the data and the result.
* `Flushing`: a batch that was handled by a stage that forwards, or is given up with its client, is accepted or in the outbox; when it is saved,
  or the client has a tombstone, it is accepted. That is the wait of `checkpointAndAck` and `completeClient` for the confirms.
* `SecureOrWaits`: a batch is secure, or saved, or in the input queue, where it is unacknowledged or not yet handled.

The counting step is that a replica adds the number of its batches to those of the replicas before it, which are others.
For `OneRound` the invariant `RoundInv` counts the delivered messages that a crash would bring back too: of the EOFs and tokens in the queues, without those that a replica in `sent`
has passed on, at most one is left in the ring (`Live`, `Alone`), and while one is in an outbox it is alone there and its replica has taken in what it answers (`Sending`). There is one lemma per
kind of step. The invariants were checked by TLC on the instances of `ring`, `ringFilter` and `ringLoss`, and on both kinds of stages that broadcast, with
crashes and a repeated message, before they were proved.

About `FilterQ3`, for any number of replicas, batches, crashes and repeated messages:

| theorem | statement |
|---|---|
| `TypeCorrect` | `Spec => []TypeOK` |
| `CountsStayExact` | `Spec => []CountIsExact`, if `Windows \subseteq {"forward"}` |
| `EndIsComplete` | `Spec => []EndedIsComplete`, if `Windows = {}` |
| `RowsStayUnique` | `Spec => []RowsOnce`, if `Windows = {}` |

`Windows = {}` excludes a crash in the three moments in which nothing protects the rows or their counts (`Crash`), and is not needed for the types.
A crash with records in the file and no checkpoint makes the count wrong: the redelivered batches are recorded a second time
("other disagreements", section 3); one between the removal of the file and the end of the client loses the last rows; and one between a token
and its checkpoint takes back a count, or a live row, that the token has told of. The last does not disturb the counts of the replica itself,
so `CountsStayExact` holds with it.
A replica is killed with a file that is ahead of its checkpoint, and counts on from there. The invariant is what the three counts of
`clientState` mean (`FileOK`): `records` and `buffered` are the length of the file, the first `buffered` records of the *checkpoint* are of batches it knows, and
all others of batches that it does not know, each once. So `Recovered` adds to `p2Seen` exactly the batches that it adds to `seen` (`RecoveredOK`,
by `CardinalityWithRest`). It also needs that the checkpoint never knows more than memory, that a removal is sent only by a drain, and that what comes after the
removal (`AfterDrain`) is the end of the client. For the types, `Ready` says that a waiting initiator has the EOF that a retry repeats.

`EndIsComplete` has its own invariant, `EndInv`. Its first part is the one of the ring: `Kept` is what no crash takes from a replica any more, it only grows, and
a token never counts more than is kept (`TokenOK`), so that a closing token means that all is kept (`RingTokenEnds`). Its second part is about a drain
that a kill interrupts. The replica publishes the same file again from the same number, final_joiner takes what has a known number for a
repetition, and a row would be lost if that number were another row's. It is not, because of an order: a drain begins only when every batch
of the replica is in the checkpoint, or the averages' EOF is, after which nothing is appended (`FileIsFinal`); and between two handlers the
checkpoint has the same `outSeq` as memory (`SavedOK`). A drained row that is in the result therefore has, at or below its number, only rows
that are in (`RepeatOK`, and `FinishOK` for the drain in progress), as a drain sends its rows in the order of their numbers (`DrainIs`, `Rising`). The EOF comes after all rows
(`SendOK`). `Ranks` and `PlaceOf` say that `Nth` numbers the records that pass without a gap, so each has its row.
`EndInv` was checked by TLC with one and two replicas and up to three crashes before it was proved.

`RowsStayUnique` is about the other side: `EndInv` says that a row is not lost for its number, `OnceInv` that it has no second one.
final_joiner drops what comes again under the same sender and SeqID only (`Issued` are the rows it has and those that are not confirmed), so a restarted replica must not begin its drain from another
number, nor filter live what it drained. `OnceInv` adds to `EndInv`:

* `MarksOK`: memory is never behind what is saved, neither in `lastCoordSeq` nor in the rounds it has closed; `outSeq` moves only in the handler of a round, and a
  replica drains only after the averages' EOF or the closing token is saved.
* `RoundInv`: at most one message of an open round is anywhere in the ring that its receiver would still accept; repetitions carry an old number.
* `ClosedInv`: once a replica has seen the closing token, or closes the round itself, there is none. No replica forwards a token after that, so none spends
  a SeqID between the drain of which a kill left a part in the result and the drain that repeats it.
* `CloseInv`: the closing token of a replica has one SeqID. A replica that is killed after it sent it drains again from the same number and
  ends with the same token (`ClosingAt`), which its successor has seen, or will see first.
* `RowsInv`: a row in the result is a live one, and its batch is not in the file and the averages are saved, or it is exactly the one that a drain begun
  now would publish for that record (`FromFile`); a row in an outbox is the one that is in the result, or new there. Both have no second place.

TLC checked these parts with one and two replicas and up to two crashes before they were proved.

About `GatewaySession`, for any finite set of clients, any result batches, sessions, crashes, broken connections and queue sizes:

| theorem | statement |
|---|---|
| `PublishedRegistered` | `Spec => []PublishedIsRegistered` |
| `AbortedOver` | `Spec => []AbortedIsOver` |
| `TypeCorrect` | `Spec => []TypeOK` |
| `AckedDelivered` | `Spec => []AckedIsDelivered` |
| `ExactResults` | `Spec => []ResultsAreExact` |

The assumptions on the results are that there is a batch and none is empty, and `EndIsLast`: final_joiner sends the end of a
query once, after all of its rows. That is what its `OnUpstreamEOF` does; it is not modelled, and without it a client
would count itself done too early.

The first two theorems need an inductive invariant of their own, `IndInv`. It says what the file is in each phase of the gateway (`FileFollowsMap`: the map of the clients
while it serves; while it revives, what is left to abort and what was aborted), that no session is there while it does not serve, and
what a reader knows by where it is: one that reads is in the file, one that cleans up has lost an end of its connection, one that
unregisters has published the abort (`ReaderKnows`). Nothing opens a connection again but `Accept`, with a number that was not in use
(`NothingOpens`, `Numbered`); most actions need no more than that.

The other three follow from `DeliveryInv` (beside `IndInv`), which says of every session that a client still reads from where each result item is.
While the gateway serves the session (`Delivering`) there are a batch `m`, the last one taken from the FINAL queue, and a place `a`
in the results, such that:

* `Line`: `seen` is `1 .. m`; the items in the batch builder, the one that did not fit, those in the result queue, and those the consumer has in hand continue
  each other without a gap from `a` to the end of batch `m`. Of each batch taken, at least what comes from `a` on is not acknowledged.
* `Ordered`: the batches after `m` that were sent are in the FINAL queue, each behind the one before it. Repeated and redelivered batches are anywhere,
  and `seen` drops them. A session that fails puts its own batches back at the head, which does not change the order of any other session's.
* `Sent` or `Read`: either the client has what comes before `a`, and the batch is not sent or on its way; or it has read it, has what comes before the
  *next* batch, and exactly one acknowledgement is on its way back.

When the gateway has given the session up, the client may still read what was sent (`Ending`): that continues what it has, so a client can
even finish then. `Has` says what the files are for a place: the rows before it, once and in order, and the ends before it. By `EndIsLast`, all
ends mean all rows (`AllEndsAllRows`, `AllEnds`), which is why counting ends (`expectedQueryEOFs`) is enough. `AckedIsDelivered` follows from `Line`: of a batch with
nothing left to acknowledge no item comes after `a`. There is one lemma per action; each speaks of one session, and `Others` and `SessionStep` say once that
the remaining ones stay as they are.

What the client writes of a batch is a fold over its items. What a fold computes is here proved by an induction over the *set* of the lengths for which the
claim holds (`Induction`, from a least element), as the induction rules of the library cannot be instantiated.
TLC checked `DeliveryInv` on the instance of `gateway`, with two messages, before it was proved.

About `MicroTransactions`, for any number of replicas, batches, crashes and restarts of the fetcher:

| theorem | statement |
|---|---|
| `TypeCorrect` | `Spec => []TypeOK` |
| `AnswerStaysExact` | `Spec => []AnswerIsExact`, if `Windows = {}` |

The hypothesis excludes the crashes after which a replica consumes transactions although it has no rates, and those between a token or EOF that
is sent on and its checkpoint. With either the answer can be wrong ("other disagreements", section 3); all other crashes are in.
Without the hypothesis (`~Protected`) the invariant is only what the types need.
Five facts about one replica (`SelfAt`) and six about all together (`RingInv`) make the inductive invariant:

* `RatesAt`, `ReadyAt`: the EOF of the rates is never at a replica, nor has a replica opened its input, without the rates being there, or saved, or about to
  come again. A batch is therefore counted with the rates, and `CountAt` says that memory and checkpoint have counted what they have seen.
* `StateAt`, `HandlerAt`: the checkpoint never knows a batch, or a coordination message, that memory does not know, and both emit
  under the same SeqIDs; a replica with a tombstone has nothing left of the client.
* `TokenInv`: no token counts more than is kept by the replicas it has passed, where *kept* is what no crash takes back any more. `RoundInv`: the EOF or
  token of an open round is in one place. `ClosedInv`: from the closing token on every batch is kept everywhere and no round is open.
* `SeqInv`: the partial count of a replica has one SeqID, in its outbox, in the queue and at the aggregator. A replica that is killed between
  its emission and the tombstone emits again from the checkpoint, which `ClosedInv` says is complete, so the aggregator sees
  the same count under the same number and drops it.
* `OutputInv`, `ExactInv`: the count of a replica goes before its EOF, counts are exact, and the total of the aggregator is the number of transactions
  to count at the replicas it has added (`AddedMicro`). With the EOFs of all replicas these are all.

TLC checked the invariant with one and two replicas, with crashes in both unprotected moments and without, before it was proved.

About `SentinelCluster`, for any number of sentinels from 2 to 255, any containers and faults:

| theorem | statement |
|---|---|
| `TypeCorrect` | `Spec => []TypeOK` |
| `AgreementHolds` | `Spec => AgreementIsStable` |

`TypeCorrect` needs that a sentinel in the middle of sending has a peer left to send to (`Sending`). `AgreementHolds` goes through the
actions: when all is settled only a late OK can be delivered and a cooldown end, and neither touches what is agreed.

Only model-checked: all liveness properties (`AggregatedEOFEmitted`, `AbortForgetsClient`, the eventual part of `ImplementsPromise`, `ClientsFinish`,
`SessionsReclaimed`, `HighestLeads`, `DeadIsRevived`, `AnswerArrives`), as TLAPS does not prove liveness under fairness;
`AnnouncedAreSent` of `FilterQ3`, which sums over the replicas; and everything about `ScatterGather`, whose totals are sums over the workers as well.

## 5. What is not modelled, and the plan

Not modelled because there is nothing for a model checker to find: encodings of
messages, predicates and arithmetic on rows, logging, settings, the compose
generator. RabbitMQ itself is external and is modelled from how `common/middleware` uses it: it never loses
what it confirmed and redelivers what was not acknowledged.

In the order of their weight:

1. `WalLog`: records byte range by byte range, in place of the `torn` flag.
2. `EOFJoiner`, `final_joiner` and the remaining aggregators: the order in which results and ends of queries reach the gateway, which
   `GatewaySession` assumes (`EndIsLast`).
3. In `CheckpointedWorker`: a failing write of `meta.json`, and a tombstone that expires too early.
4. In `GatewaySession`: two clients at once, one of which does not acknowledge, and a failing
   write of `clients.json`.
5. Proofs: the sums over the replicas (`AnnouncedAreSent`, `TotalsAgree`), by the induction over a set that `GatewaySessionProofs` uses for folds.
