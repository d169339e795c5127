------------------------------ MODULE FilterQ3 ------------------------------
(***************************************************************************)
(* The N replicas of filter_q3, the strategy with two inputs: transactions *)
(* of the second period, sharded over the replicas and closed by the ring  *)
(* protocol, and the averages that aggregator_q3 sends to every replica.   *)
(* What comes before the averages is appended to a file and filtered when  *)
(* both inputs have ended; what comes later is filtered at once.  The file *)
(* is written before a batch is acknowledged and is not part of the        *)
(* checkpoint: a restart reconciles the two.                               *)
(*                                                                         *)
(* Abstractions.                                                           *)
(*  - One client.  A batch holds one transaction, and is in Passing if its *)
(*    amount is below the threshold that the averages give.                *)
(*  - The averages of a client are one batch.  They come before their EOF, *)
(*    as the queue keeps its order; apart from that, deliveries come in    *)
(*    any order.                                                           *)
(*  - final_joiner is what its deduplication lets in.  Nothing waits for   *)
(*    the confirms of what was published before the next checkpoint does:  *)
(*    a live row is accepted in a step of its own, and what the end of the *)
(*    client publishes one by one, after it.  A kill loses the rest.       *)
(*  - A record that a kill cuts short is truncated by the recovery, and is *)
(*    as if it had not been written.                                       *)
(*                                                                         *)
(* An operator Mut... is the next definition with a bug put in; no other   *)
(* definition uses it.                                                     *)
(***************************************************************************)
EXTENDS Integers, FiniteSets, Sequences, SequencesExt

CONSTANTS
  N,                \* N_REPLICAS
  Batch, home,      \* batches of the client, and the replica each is sharded to
  Passing,          \* those whose row passes the filter
  Windows,          \* which of the three unprotected moments a crash may hit, see Crash
  MaxEOFSeq,        \* bound: SeqID of the last retry of an EOF that meets missing data
  MaxCrashes,       \* bound: number of crashes
  MaxRedeliveries   \* bound: number of upstream re-publications

Replica == 0 .. N - 1
Window == {"beforeCheckpoint", "afterDrain", "forward"}

ASSUME ConstantsAssumption ==
  /\ N \in Nat \ {0}
  /\ IsFiniteSet(Batch)
  /\ home \in [Batch -> Replica]
  /\ Passing \subseteq Batch
  /\ Windows \subseteq Window
  /\ MaxEOFSeq \in Nat \ {0}
  /\ MaxCrashes \in Nat /\ MaxRedeliveries \in Nat

VARIABLES
  inbox,      \* per replica, what its three queues can deliver
  pending,    \* pendingAcks: delivered, handled, not acknowledged
  mem,        \* volatile state of the client
  disk,       \* its checkpoint
  file,       \* the buffer file: the batches of its records
  tomb,       \* replicas that hold a tombstone of the client
  unconfirmed,\* the live rows, by their batches, that are not accepted yet
  outbox,     \* what the handler in progress still has to do
  phase,      \* how the handler in progress ends
  out,        \* what final_joiner let in
  crashes, redeliveries

vars == <<inbox, pending, mem, disk, file, tomb, unconfirmed, outbox, phase, out, crashes, redeliveries>>

-----------------------------------------------------------------------------
(* Senders of the coordination messages: the replicas of the ring, the stage *)
(* of the transactions, aggregator_q3.                                       *)
Transactions == N
Aggregator == N + 1
Sender == 0 .. N + 1
Successor(r) == (r + 1) % N

BatchMsg(b) == [type |-> "batch", batch |-> b]
Averages == [type |-> "averages"]
EOFMsg(s, n) == [type |-> "eof", sender |-> s, seq |-> n]
Token(r, n, agg, closing) == [type |-> "token", sender |-> r, seq |-> n, agg |-> agg, closing |-> closing]

(* A row that keeps the SeqID of its batch (seq = 0), or has one of r.       *)
Row(r, n, b) == [type |-> "row", sender |-> r, seq |-> n, batch |-> b]
OutEOF(r, n, total) == [type |-> "outeof", sender |-> r, seq |-> n, total |-> total]
Removal == [type |-> "remove"]

NoEOF == [type |-> "none"]

(* seen: dedupSeen of the transactions; avg: the averages, and that they are *)
(* in dedupSeen; records: bufferCount; buffered: bufferedSeen; initiator:    *)
(* there is a ring state; cached: the one slot of upstreamEOFs.              *)
Fresh == [seen |-> {}, avg |-> FALSE, averagesEOF |-> FALSE, p2EOF |-> FALSE,
          p2Seen |-> 0, buffered |-> 0, records |-> 0,
          initiator |-> FALSE, cached |-> NoEOF,
          coord |-> [s \in Sender |-> 0], outSeq |-> 0]

NoCheckpoint == [exists |-> FALSE, state |-> Fresh]

Total == Cardinality(Batch)         \* what the EOF of the transactions announces

Arriving(r) == {BatchMsg(b) : b \in {c \in Batch : home[c] = r}}
                 \cup {Averages, EOFMsg(Aggregator, 1)}
                 \cup (IF r = 0 THEN {EOFMsg(Transactions, 1)} ELSE {})

Init ==
  /\ inbox = [r \in Replica |-> Arriving(r)]
  /\ pending = [r \in Replica |-> {}]
  /\ mem = [r \in Replica |-> Fresh]
  /\ disk = [r \in Replica |-> NoCheckpoint]
  /\ file = [r \in Replica |-> <<>>]
  /\ tomb = {}
  /\ unconfirmed = [r \in Replica |-> {}]
  /\ outbox = [r \in Replica |-> <<>>] /\ phase = [r \in Replica |-> "idle"]
  /\ out = {}
  /\ crashes = 0 /\ redeliveries = 0

-----------------------------------------------------------------------------
(* What final_joiner lets in: rows by their identifier, EOFs above the       *)
(* high-water mark of their sender.                                          *)
Known(m) ==
  IF m.type = "outeof"
    THEN \E o \in out : o.type = "outeof" /\ o.sender = m.sender /\ o.seq >= m.seq
    ELSE \E o \in out : /\ o.type = "row" /\ o.sender = m.sender /\ o.seq = m.seq
                        /\ m.seq = 0 => o.batch = m.batch

Accepted(m) == IF Known(m) THEN out ELSE out \cup {m}

-----------------------------------------------------------------------------
(* What a coordination message leads to: a new state, what is published, how *)
(* the handler ends.                                                         *)
Outcome(s, sends, end) == [state |-> s, sends |-> sends, end |-> end]

Passes(s, b) == s.avg /\ b \in Passing

(* The records of the file that pass, by their position. *)
PassingRecords(s, f) == {i \in 1 .. Len(f) : Passes(s, f[i])}

(* countQ3Rows reads the file even if this process never wrote to it. *)
CountRows(s, f) == Cardinality(PassingRecords(s, f))

(* The n-th of them, in the order of the file. *)
Nth(S, n) == CHOOSE i \in S : Cardinality({j \in S : j <= i}) = n

(* drainIterator: the file is removed when it has been read, and the last    *)
(* rows are still in the batch that publishEOFs flushes.                     *)
Drain(r, s, f) ==
  LET rows == [n \in 1 .. CountRows(s, f) |-> Row(r, s.outSeq + n, f[Nth(PassingRecords(s, f), n)])]
  IN IF s.records = 0 THEN <<>>
     ELSE IF rows = <<>> THEN <<Removal>>
     ELSE InsertAt(rows, Len(rows), Removal)

Rows(sends) == Cardinality({i \in 1 .. Len(sends) : sends[i].type = "row"})

(* The token that goes on, if there is one: tokens is <<>> or the sum in it. *)
Forward(r, n, sums, closing) == [i \in 1 .. Len(sums) |-> Token(r, n + i, sums[i], closing)]

(* Mutation: the total counts what went through the filter live as well. *)
MutFinalizeAndEmit(r, s, f, sums) ==
  LET drain == Drain(r, s, f)
      n == s.outSeq + Rows(drain) + 1
  IN Outcome([s EXCEPT !.outSeq = n + Len(sums), !.cached = NoEOF],
             drain \o <<OutEOF(r, n, s.p2Seen)>> \o Forward(r, n, sums, TRUE), "complete")

FinalizeAndEmit(r, s, f, sums) ==
  LET drain == Drain(r, s, f)
      n == s.outSeq + Rows(drain) + 1
  IN Outcome([s EXCEPT !.outSeq = n + Len(sums), !.cached = NoEOF],
             drain \o <<OutEOF(r, n, CountRows(s, f))>> \o Forward(r, n, sums, TRUE), "complete")

(* handleRingAction on ActionEmitEOFs and ActionEmitEOFsAndForwardToken *)
TransactionsEnd(r, s, f, sums) ==
  LET t == [s EXCEPT !.p2EOF = TRUE]
  IN IF s.averagesEOF THEN FinalizeAndEmit(r, t, f, sums)
     ELSE IF sums = <<>> THEN Outcome(t, <<>>, "checkpoint")
     ELSE Outcome([t EXCEPT !.outSeq = @ + 1], Forward(r, t.outSeq, sums, TRUE), "forward")

(* Mutation: the averages' EOF finalizes although the other input is open.   *)
MutAveragesEnd(r, s, f) ==
  IF ~s.avg \/ s.averagesEOF THEN Outcome(s, <<>>, "checkpoint")
  ELSE FinalizeAndEmit(r, [s EXCEPT !.averagesEOF = TRUE], f, <<>>)

(* OnUpstreamEOF for the averages: the JoinerAccumulateCoordinator waits for *)
(* one EOF and acts once.                                                    *)
AveragesEnd(r, s, f) ==
  IF ~s.avg \/ s.averagesEOF THEN Outcome(s, <<>>, "checkpoint")
  ELSE LET t == [s EXCEPT !.averagesEOF = TRUE]
       IN IF s.p2EOF THEN FinalizeAndEmit(r, t, f, <<>>) ELSE Outcome(t, <<>>, "checkpoint")

(* reenqueueUpstreamEOF: whatever EOF is in the slot. *)
RetrySeq(s) == IF s.coord[s.cached.sender] >= s.cached.seq + 1
                 THEN s.coord[s.cached.sender] + 1 ELSE s.cached.seq + 1
Retry(s) == EOFMsg(s.cached.sender, RetrySeq(s))

(* tryFinalize, at the initiator *)
TryFinalize(s, f, agg) ==
  IF agg # Total
    THEN Outcome([s EXCEPT !.initiator = FALSE, !.cached = NoEOF], <<Retry(s)>>, "forward")
  ELSE IF N > 1
    THEN Outcome([s EXCEPT !.outSeq = @ + 1], <<Token(0, s.outSeq + 1, agg, TRUE)>>, "forward")
  ELSE TransactionsEnd(0, [s EXCEPT !.initiator = FALSE], f, <<>>)

(* RingCoordinator.OnUpstreamEOF *)
TransactionsEOF(s, f) ==
  LET t == [s EXCEPT !.initiator = TRUE]
  IN IF N = 1 THEN TryFinalize(t, f, s.p2Seen)
     ELSE Outcome([t EXCEPT !.outSeq = @ + 1], <<Token(0, s.outSeq + 1, s.p2Seen, FALSE)>>, "forward")

(* RingCoordinator.OnRingToken *)
RingToken(r, s, f, t) ==
  IF r = 0
    THEN IF t.closing THEN TransactionsEnd(0, [s EXCEPT !.initiator = FALSE], f, <<>>)
         ELSE IF s.initiator THEN TryFinalize(s, f, t.agg)
         ELSE Outcome(s, <<>>, "checkpoint")
  ELSE IF t.closing THEN TransactionsEnd(r, s, f, <<t.agg>>)
  ELSE Outcome([s EXCEPT !.outSeq = @ + 1],
               <<Token(r, s.outSeq + 1, t.agg + s.p2Seen, FALSE)>>, "forward")

-----------------------------------------------------------------------------
(* The handlers of a replica, serialised by its stateMu *)

Deliverable(r, m) ==
  /\ phase[r] = "idle"
  /\ m \in inbox[r]
  /\ m.type = "eof" /\ m.sender = Aggregator => Averages \notin inbox[r]

Discarded(r, m) ==
  \/ r \in tomb
  \/ m.type = "batch" /\ m.batch \in mem[r].seen
  \/ m.type = "averages" /\ mem[r].avg
  \/ m.type \in {"eof", "token"} /\ m.seq <= mem[r].coord[m.sender]

Discard(r, m) ==
  /\ Deliverable(r, m)
  /\ Discarded(r, m)
  /\ inbox' = [inbox EXCEPT ![r] = @ \ {m}]
  /\ UNCHANGED <<pending, mem, disk, file, tomb, unconfirmed, outbox, phase, out, crashes, redeliveries>>

Accept(r, m, type) ==
  /\ Deliverable(r, m)
  /\ m.type = type
  /\ ~Discarded(r, m)
  /\ inbox' = [inbox EXCEPT ![r] = @ \ {m}]
  /\ pending' = [pending EXCEPT ![r] = @ \cup {m}]
  /\ UNCHANGED <<disk, tomb, out, crashes, redeliveries>>

Taken(s, b) == [s EXCEPT !.seen = @ \cup {b}, !.p2Seen = @ + 1]
Recorded(s) == [s EXCEPT !.buffered = @ + 1, !.records = @ + 1]

(* ProcessRawBatch before the averages: into the file. *)
BufferBatch(r, m) ==
  /\ Accept(r, m, "batch")
  /\ ~mem[r].averagesEOF
  /\ file' = [file EXCEPT ![r] = Append(@, m.batch)]
  /\ mem' = [mem EXCEPT ![r] = Recorded(Taken(@, m.batch))]
  /\ UNCHANGED <<unconfirmed, outbox, phase>>

(* ProcessRawBatch after the averages: through the filter. *)
FilterBatch(r, m) ==
  /\ Accept(r, m, "batch")
  /\ mem[r].averagesEOF
  /\ mem' = [mem EXCEPT ![r] = Taken(@, m.batch)]
  /\ unconfirmed' = [unconfirmed EXCEPT ![r] = IF Passes(mem[r], m.batch) THEN @ \cup {m.batch} ELSE @]
  /\ UNCHANGED <<file, outbox, phase>>

(* ProcessMessage *)
StoreAverages(r, m) ==
  /\ Accept(r, m, "averages")
  /\ mem' = [mem EXCEPT ![r].avg = TRUE]
  /\ UNCHANGED <<file, unconfirmed, outbox, phase>>

(* The bound on retries: the last one is made when the data is in. *)
WithinBound(m) == m.seq < MaxEOFSeq \/ \A b \in Batch : b \in mem[home[b]].seen

Apply(r, m, outcome) ==
  /\ mem' = [mem EXCEPT ![r] = [outcome.state EXCEPT !.coord[m.sender] = m.seq]]
  /\ outbox' = [outbox EXCEPT ![r] = outcome.sends]
  /\ phase' = [phase EXCEPT ![r] = outcome.end]
  /\ UNCHANGED <<file, unconfirmed>>

(* handleUpstreamEOF: the EOF is cached before the strategy sees it, and     *)
(* takes the place of the other input's.                                     *)
HandleEOF(r, m) ==
  LET s == [mem[r] EXCEPT !.cached = m]
  IN /\ Accept(r, m, "eof")
     /\ WithinBound(m)
     /\ Apply(r, m, IF m.sender = Aggregator THEN AveragesEnd(r, s, file[r])
                                            ELSE TransactionsEOF(s, file[r]))

(* Mutation: a token takes the slot of the EOF that a retry needs. *)
MutHandleToken(r, m) ==
  /\ Accept(r, m, "token")
  /\ Apply(r, m, RingToken(r, [mem[r] EXCEPT !.cached = m], file[r], m))

HandleToken(r, m) ==
  /\ Accept(r, m, "token")
  /\ Apply(r, m, RingToken(r, mem[r], file[r], m))

(* The connection to final_joiner keeps the order. *)
Confirm(r, b) ==
  /\ b \in unconfirmed[r]
  /\ out' = Accepted(Row(home[b], 0, b))
  /\ unconfirmed' = [unconfirmed EXCEPT ![r] = @ \ {b}]
  /\ UNCHANGED <<inbox, pending, mem, disk, file, tomb, outbox, phase, crashes, redeliveries>>

Send(r, m) ==
  CASE m.type = "token" -> /\ inbox' = [inbox EXCEPT ![Successor(r)] = @ \cup {m}]
                           /\ UNCHANGED <<file, out>>
    [] m.type = "eof" -> /\ inbox' = [inbox EXCEPT ![r] = @ \cup {m}]
                         /\ UNCHANGED <<file, out>>
    [] m.type = "remove" -> /\ file' = [file EXCEPT ![r] = <<>>]
                            /\ UNCHANGED <<inbox, out>>
    [] OTHER -> /\ unconfirmed[r] = {}
                /\ out' = Accepted(m)
                /\ UNCHANGED <<inbox, file>>

Publish(r) ==
  /\ outbox[r] # <<>>
  /\ Send(r, Head(outbox[r]))
  /\ outbox' = [outbox EXCEPT ![r] = Tail(@)]
  /\ UNCHANGED <<pending, mem, disk, tomb, unconfirmed, phase, crashes, redeliveries>>

(* Mutation: the batches are acknowledged before their rows are confirmed. *)
MutCheckpoint(r) ==
  /\ phase[r] \in {"idle", "checkpoint", "forward"} /\ outbox[r] = <<>> /\ pending[r] # {}
  /\ disk' = [disk EXCEPT ![r] = [exists |-> TRUE, state |-> mem[r]]]
  /\ pending' = [pending EXCEPT ![r] = {}]
  /\ phase' = [phase EXCEPT ![r] = "idle"]
  /\ UNCHANGED <<inbox, mem, file, tomb, unconfirmed, outbox, out, crashes, redeliveries>>

(* checkpointAndAck: MarshalClientState leaves the file where it is. *)
Checkpoint(r) ==
  /\ phase[r] \in {"idle", "checkpoint", "forward"} /\ pending[r] # {}
  /\ unconfirmed[r] = {} /\ outbox[r] = <<>>
  /\ disk' = [disk EXCEPT ![r] = [exists |-> TRUE, state |-> mem[r]]]
  /\ pending' = [pending EXCEPT ![r] = {}]
  /\ phase' = [phase EXCEPT ![r] = "idle"]
  /\ UNCHANGED <<inbox, mem, file, tomb, unconfirmed, outbox, out, crashes, redeliveries>>

(* completeClient and CleanupClient *)
Complete(r) ==
  /\ phase[r] = "complete" /\ unconfirmed[r] = {} /\ outbox[r] = <<>>
  /\ tomb' = tomb \cup {r}
  /\ mem' = [mem EXCEPT ![r] = Fresh]
  /\ disk' = [disk EXCEPT ![r] = NoCheckpoint]
  /\ pending' = [pending EXCEPT ![r] = {}]
  /\ phase' = [phase EXCEPT ![r] = "idle"]
  /\ UNCHANGED <<inbox, file, unconfirmed, outbox, out, crashes, redeliveries>>

-----------------------------------------------------------------------------
(* Faults *)

(* recoverBufferState: the headers of the records, and their items. *)
RecoveredBuffer(f) == [headers |-> ToSet(f), items |-> Len(f)]

(* What the file has beyond the checkpoint. *)
Beyond(s, f) == IF RecoveredBuffer(f).items > s.buffered THEN RecoveredBuffer(f).items - s.buffered ELSE 0

(* Mutation: the headers of the recovered records are not deduplicated. *)
MutRecovered(s, f) ==
  [s EXCEPT !.p2Seen = @ + Beyond(s, f),
            !.buffered = RecoveredBuffer(f).items,
            !.records = Len(f)]

(* Mutation: the recovered records are not counted. *)
MutUncounted(s, f) ==
  [s EXCEPT !.seen = @ \cup RecoveredBuffer(f).headers,
            !.buffered = RecoveredBuffer(f).items,
            !.records = Len(f)]

(* UnmarshalClientState, and loadCheckpoints on RecoveredDedupHeaders *)
Recovered(s, f) ==
  [s EXCEPT !.seen = @ \cup RecoveredBuffer(f).headers,
            !.p2Seen = @ + Beyond(s, f),
            !.buffered = RecoveredBuffer(f).items,
            !.records = Len(f)]

(* Without a checkpoint of the client nothing looks for its file. *)
Load(r) == IF disk[r].exists THEN Recovered(disk[r].state, file[r]) ELSE Fresh

(* The three moments in which nothing protects the rows or their counts: the *)
(* file has records but there is no checkpoint that leads to it; the file is *)
(* gone and its last rows are not confirmed; a token or EOF is being passed  *)
(* on, with a count of batches that are saved and acknowledged afterwards.   *)
BeforeCheckpoint(r) == ~disk[r].exists /\ file[r] # <<>>
AfterDrain(r) == phase[r] = "complete" /\ mem[r].records > 0 /\ file[r] = <<>>
Forwarding(r) == phase[r] = "forward"

Crash(r) ==
  /\ crashes < MaxCrashes
  /\ r \notin tomb
  /\ BeforeCheckpoint(r) => "beforeCheckpoint" \in Windows
  /\ AfterDrain(r) => "afterDrain" \in Windows
  /\ Forwarding(r) => "forward" \in Windows
  /\ crashes' = crashes + 1
  /\ mem' = [mem EXCEPT ![r] = Load(r)]
  /\ inbox' = [inbox EXCEPT ![r] = @ \cup pending[r]]
  /\ pending' = [pending EXCEPT ![r] = {}]
  /\ unconfirmed' = [unconfirmed EXCEPT ![r] = {}]
  /\ outbox' = [outbox EXCEPT ![r] = <<>>]
  /\ phase' = [phase EXCEPT ![r] = "idle"]
  /\ UNCHANGED <<disk, file, tomb, out, redeliveries>>

(* A replica of a stage before this one restarts and publishes again. *)
Redeliver(r, m) ==
  /\ redeliveries < MaxRedeliveries
  /\ redeliveries' = redeliveries + 1
  /\ m \in Arriving(r) \ inbox[r]
  /\ inbox' = [inbox EXCEPT ![r] = @ \cup {m}]
  /\ UNCHANGED <<pending, mem, disk, file, tomb, unconfirmed, outbox, phase, out, crashes>>

-----------------------------------------------------------------------------
Consume(r) == \E m \in inbox[r] :
                \/ Discard(r, m)
                \/ BufferBatch(r, m) \/ FilterBatch(r, m) \/ StoreAverages(r, m)
                \/ HandleEOF(r, m) \/ HandleToken(r, m)
Finish(r) == (\E b \in unconfirmed[r] : Confirm(r, b)) \/ Publish(r) \/ Checkpoint(r) \/ Complete(r)

Next == \E r \in Replica :
          \/ Consume(r) \/ Finish(r)
          \/ Crash(r)
          \/ \E m \in Arriving(r) : Redeliver(r, m)

(* The consumer goroutines of a replica get stateMu in the end, handlers     *)
(* finish, and the maintenance ticker fires.                                 *)
Fairness == \A r \in Replica : WF_vars(Consume(r)) /\ WF_vars(Finish(r))

Spec == Init /\ [][Next]_vars /\ Fairness
-----------------------------------------------------------------------------
(* Properties *)

EOFs == [type : {"eof"}, sender : Sender, seq : Nat]
Tokens == [type : {"token"}, sender : Replica, seq : Nat, agg : Nat, closing : BOOLEAN]
Coordination == EOFs \cup Tokens
Messages == [type : {"batch"}, batch : Batch] \cup {Averages} \cup Coordination
Outputs == [type : {"row"}, sender : Replica, seq : Nat, batch : Batch]
      \cup [type : {"outeof"}, sender : Replica, seq : Nat, total : Nat]

State == [seen : SUBSET Batch, avg : BOOLEAN, averagesEOF : BOOLEAN, p2EOF : BOOLEAN,
          p2Seen : Nat, buffered : Nat, records : Nat,
          initiator : BOOLEAN, cached : EOFs \cup {NoEOF},
          coord : [Sender -> Nat], outSeq : Nat]

(* Type invariant of the replicas, their files and queues (filter_q3.go:31). *)
TypeOK ==
  /\ inbox \in [Replica -> SUBSET Messages]
  /\ pending \in [Replica -> SUBSET Messages]
  /\ mem \in [Replica -> State]
  /\ disk \in [Replica -> [exists : BOOLEAN, state : State]]
  /\ file \in [Replica -> Seq(Batch)]
  /\ tomb \subseteq Replica
  /\ unconfirmed \in [Replica -> SUBSET Batch]
  /\ outbox \in [Replica -> Seq(Coordination \cup Outputs \cup {Removal})]
  /\ phase \in [Replica -> {"idle", "checkpoint", "forward", "complete"}]
  /\ out \subseteq Outputs
  /\ crashes \in Nat /\ redeliveries \in Nat

RowsOf(b) == {o \in out : o.type = "row" /\ o.batch = b}
EOFsOf(r) == {o \in out : o.type = "outeof" /\ o.sender = r}
Ended == \A r \in Replica : EOFsOf(r) # {}

(* What a replica adds to the token is the number of batches it has, also    *)
(* when the file of a killed process knew more than the checkpoint           *)
(* (UnmarshalClientState, filter_q3.go:505-538): a sum above the total is    *)
(* retried for ever, one below it as well.                                   *)
CountIsExact == \A r \in Replica : mem[r].p2Seen = Cardinality(mem[r].seen)

(* A row reaches the result once, although a batch can be buffered, killed,  *)
(* redelivered, drained again under the same SeqIDs, or filtered live.       *)
RowsOnce == \A b \in Batch : Cardinality(RowsOf(b)) <= 1

(* When every replica has announced the end, every row that passes is in     *)
(* (finalizeAndEmit, filter_q3.go:201-229).                                  *)
EndedIsComplete == Ended => \A b \in Passing : RowsOf(b) # {}

(* final_joiner waits until it forwarded the sum of the announced totals: a  *)
(* replica must not announce a row that nobody sends.                        *)
Announced(r) == LET e == CHOOSE o \in EOFsOf(r) : TRUE IN e.total
AnnouncedAreSent ==
  Ended => FoldFunction(+, 0, [r \in Replica |-> Announced(r)]) <= Cardinality({o \in out : o.type = "row"})

(* Every replica closes the client. *)
EveryReplicaCloses == \A r \in Replica : <>(r \in tomb)
=============================================================================
