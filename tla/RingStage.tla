----------------------------- MODULE RingStage -----------------------------
(***************************************************************************)
(* The N replicas of a stage that closes a client with the ring protocol   *)
(* (RingCoordinator), as the worker runtime drives them.  The upstream EOF *)
(* of a client always goes to the same replica, here 0.  It starts a       *)
(* collecting token that adds up what every replica has processed; if the  *)
(* sum is the announced total the client is closed, otherwise the EOF goes *)
(* back to the end of the replica's input queue and the round is repeated. *)
(* filter (Broadcast = FALSE) is closed by replica 0 alone.  Every other   *)
(* stage with a ring (Broadcast = TRUE) sends a closing token round it,    *)
(* and each replica sends its own EOF when the token passes; sharder_q4    *)
(* and filter_amount_lt_50 have passed their data on before (Forwards, as  *)
(* filter does), the stages that accumulate emit their result then.        *)
(*                                                                         *)
(* Abstractions.                                                           *)
(*  - One client: replicas keep nothing that clients share but the order   *)
(*    of their queues.                                                     *)
(*  - A batch holds one item, of which a stage that forwards makes one.    *)
(*  - A checkpoint and its acks are one step; their interleaving with a    *)
(*    crash is the subject of CheckpointedWorker.                          *)
(*  - Nothing waits for the confirms of what was published before the next *)
(*    checkpoint does.  Until then a message is accepted in a step of its  *)
(*    own, in order for each target and in no order between targets, and a *)
(*    crash loses those that were not.                                     *)
(*                                                                         *)
(* An operator Mut... is the next definition with a bug put in; no other   *)
(* definition uses it.                                                     *)
(***************************************************************************)
EXTENDS Integers, FiniteSets, Sequences, SequencesExt

CONSTANTS
  N,                \* N_REPLICAS
  Forwards,         \* what a batch leads to is sent on when it is handled
  Broadcast,        \* broadcastEOFOnClose
  Batch, home,      \* the batches of the client and the replica each is sharded to
  MaxEOFSeq,        \* bound: SeqID of the last retry of the EOF
  KillAfterSend,    \* may a crash fall between a token or retried EOF and its checkpoint?
  MaxCrashes,       \* bound: number of crashes
  MaxRedeliveries   \* bound: number of upstream re-publications

Replica == 0 .. N - 1

ASSUME ConstantsAssumption ==
  /\ N \in Nat \ {0}
  /\ Forwards \in BOOLEAN /\ Broadcast \in BOOLEAN /\ KillAfterSend \in BOOLEAN
  /\ IsFiniteSet(Batch)
  /\ home \in [Batch -> Replica]
  /\ MaxEOFSeq \in Nat \ {0}
  /\ MaxCrashes \in Nat /\ MaxRedeliveries \in Nat

VARIABLES
  inbox,      \* per replica, its two queues: input and ring
  taken,      \* per replica and queue, the delivered, unacknowledged messages at its head
  mem,        \* volatile state of the client at each replica
  disk,       \* its last checkpoint
  tomb,       \* replicas that hold a tombstone of the client
  outbox,     \* what was published and is not accepted by the broker yet, in order
  sent,       \* replicas whose handler has passed on its token or EOF and not saved yet
  phase,      \* how the handler in progress ends: checkpointAndAck or completeClient
  out,        \* what the next stages received
  crashes, redeliveries

vars == <<inbox, taken, mem, disk, tomb, outbox, sent, phase, out, crashes, redeliveries>>

-----------------------------------------------------------------------------
Ports == {"input", "ring"}
Upstream == N                       \* the sender of upstream EOFs
Sender == 0 .. N
Total == Cardinality(Batch)         \* the total the upstream EOF announces
Successor(r) == (r + 1) % N

BatchMsg(b) == [type |-> "batch", batch |-> b]
EOFMsg(n) == [type |-> "eof", sender |-> Upstream, seq |-> n]
Token(r, n, agg, closing) == [type |-> "token", sender |-> r, seq |-> n, agg |-> agg, closing |-> closing]

Data(r, b) == [type |-> "data", sender |-> r, batches |-> {b}]
Result(r, n, seen) == [type |-> "result", sender |-> r, seq |-> n, batches |-> seen]
OutEOF(r, n) == [type |-> "outeof", sender |-> r, seq |-> n, batches |-> {}]

(* seen: dedupSeen, whose size is processedItems; initiator: there is a ring *)
(* state with IsInitiator; cached: SeqID of the cached upstream EOF.         *)
Fresh == [seen |-> {}, initiator |-> FALSE, cached |-> 0,
          coord |-> [s \in Sender |-> 0], outSeq |-> 0]

Processed(s) == Cardinality(s.seen)

(* Messages of several upstream replicas interleave: the EOF may overtake    *)
(* data in its own queue, and always races with the data of the others.      *)
Arriving(r) == {BatchMsg(b) : b \in {c \in Batch : home[c] = r}}
                 \cup (IF r = 0 THEN {EOFMsg(1)} ELSE {})

Init ==
  /\ inbox \in [Replica -> [input : UNION {SetToSeqs(Arriving(r)) : r \in Replica}, ring : {<<>>}]]
  /\ \A r \in Replica : inbox[r].input \in SetToSeqs(Arriving(r))
  /\ taken = [r \in Replica |-> [p \in Ports |-> 0]]
  /\ mem = [r \in Replica |-> Fresh] /\ disk = [r \in Replica |-> Fresh]
  /\ tomb = {}
  /\ outbox = [r \in Replica |-> <<>>] /\ sent = {} /\ phase = [r \in Replica |-> "idle"]
  /\ out = {}
  /\ crashes = 0 /\ redeliveries = 0

-----------------------------------------------------------------------------
(* RingCoordinator: what a message leads to is a new state, the messages to  *)
(* publish, and whether the client is complete at this replica.              *)

Outcome(s, sends, end) == [state |-> s, sends |-> sends, end |-> end]

(* retryUpstreamEOFMessage *)
RetrySeq(s) == IF s.coord[Upstream] >= s.cached + 1 THEN s.coord[Upstream] + 1 ELSE s.cached + 1

(* The result of an accumulating stage, and the EOF. *)
Emission(r, s) ==
  IF Forwards THEN <<OutEOF(r, s.outSeq + 1)>>
              ELSE <<Result(r, s.outSeq + 1, s.seen), OutEOF(r, s.outSeq + 2)>>

Emit(r, s, sends) ==
  Outcome([s EXCEPT !.initiator = FALSE, !.cached = 0, !.outSeq = @ + Len(Emission(r, s)) + Len(sends)],
          Emission(r, s) \o sends, "complete")

(* Mutation: the client is closed although rows are missing. *)
MutIncomplete(agg) == agg < Total - 1

Incomplete(agg) == agg # Total

(* Mutation: the retry starts at once, and the EOF is re-enqueued as well. *)
MutTryFinalize(s, agg) ==
  IF Incomplete(agg)
    THEN Outcome([s EXCEPT !.outSeq = @ + 1],
                 <<EOFMsg(RetrySeq(s)), Token(0, s.outSeq + 1, Processed(s), FALSE)>>, "checkpoint")
  ELSE IF Broadcast /\ N > 1
    THEN Outcome([s EXCEPT !.outSeq = @ + 1], <<Token(0, s.outSeq + 1, agg, TRUE)>>, "checkpoint")
  ELSE Emit(0, s, <<>>)

(* tryFinalize, at the initiator *)
TryFinalize(s, agg) ==
  IF Incomplete(agg)
    THEN Outcome([s EXCEPT !.initiator = FALSE, !.cached = 0], <<EOFMsg(RetrySeq(s))>>, "checkpoint")
  ELSE IF Broadcast /\ N > 1
    THEN Outcome([s EXCEPT !.outSeq = @ + 1], <<Token(0, s.outSeq + 1, agg, TRUE)>>, "checkpoint")
  ELSE Emit(0, s, <<>>)

(* OnUpstreamEOF *)
UpstreamEOFOutcome(s) ==
  IF N = 1 THEN TryFinalize(s, Processed(s))
           ELSE Outcome([s EXCEPT !.outSeq = @ + 1],
                        <<Token(0, s.outSeq + 1, Processed(s), FALSE)>>, "checkpoint")

(* Mutation: replicas add their count to a closing token too. *)
MutTokenOutcome(r, s, t) ==
  IF r = 0
    THEN IF t.closing THEN Emit(0, s, <<>>)
         ELSE IF s.initiator THEN TryFinalize(s, t.agg)
         ELSE Outcome(s, <<>>, "checkpoint")
  ELSE IF t.closing
    THEN Emit(r, s, <<Token(r, s.outSeq + Len(Emission(r, s)) + 1, t.agg + Processed(s), TRUE)>>)
    ELSE Outcome([s EXCEPT !.outSeq = @ + 1],
                 <<Token(r, s.outSeq + 1, t.agg + Processed(s), FALSE)>>, "checkpoint")

(* Mutation: the initiator adds its own count again when the token is back. *)
MutCountTwice(r, s, t) ==
  IF r = 0
    THEN IF t.closing THEN Emit(0, s, <<>>)
         ELSE IF s.initiator THEN TryFinalize(s, t.agg + Processed(s))
         ELSE Outcome(s, <<>>, "checkpoint")
  ELSE IF t.closing
    THEN Emit(r, s, <<Token(r, s.outSeq + Len(Emission(r, s)) + 1, t.agg, TRUE)>>)
    ELSE Outcome([s EXCEPT !.outSeq = @ + 1],
                 <<Token(r, s.outSeq + 1, t.agg + Processed(s), FALSE)>>, "checkpoint")

(* OnRingToken and onClosingToken *)
TokenOutcome(r, s, t) ==
  IF r = 0
    THEN IF t.closing THEN Emit(0, s, <<>>)
         ELSE IF s.initiator THEN TryFinalize(s, t.agg)
         ELSE Outcome(s, <<>>, "checkpoint")
  ELSE IF t.closing
    THEN Emit(r, s, <<Token(r, s.outSeq + Len(Emission(r, s)) + 1, t.agg, TRUE)>>)
    ELSE Outcome([s EXCEPT !.outSeq = @ + 1],
                 <<Token(r, s.outSeq + 1, t.agg + Processed(s), FALSE)>>, "checkpoint")

-----------------------------------------------------------------------------
(* The handlers of a replica, serialised by its stateMu *)

Waiting(r, p) == phase[r] = "idle" /\ taken[r][p] < Len(inbox[r][p])
Message(r, p) == inbox[r][p][taken[r][p] + 1]

IsDuplicate(r, m) == IF m.type = "batch" THEN m.batch \in mem[r].seen
                                         ELSE m.seq <= mem[r].coord[m.sender]
Discarded(r, m) == r \in tomb \/ IsDuplicate(r, m)

Discard(r, p) ==
  /\ Waiting(r, p)
  /\ Discarded(r, Message(r, p))
  /\ inbox' = [inbox EXCEPT ![r][p] = RemoveAt(@, taken[r][p] + 1)]
  /\ UNCHANGED <<taken, mem, disk, tomb, outbox, sent, phase, out, crashes, redeliveries>>

Accept(r, p, type) ==
  /\ Waiting(r, p)
  /\ Message(r, p).type = type
  /\ ~Discarded(r, Message(r, p))
  /\ taken' = [taken EXCEPT ![r][p] = @ + 1]
  /\ UNCHANGED <<inbox, disk, tomb, sent, out, crashes, redeliveries>>

HandleBatch(r) ==
  LET b == Message(r, "input").batch
  IN /\ Accept(r, "input", "batch")
     /\ mem' = [mem EXCEPT ![r].seen = @ \cup {b}]
     /\ outbox' = IF Forwards THEN [outbox EXCEPT ![r] = Append(@, Data(r, b))] ELSE outbox
     /\ UNCHANGED phase

(* handleUpstreamEOF and handleRingToken apply the outcome and then record   *)
(* the SeqID in coordinationDedupSeen.                                       *)
Apply(r, m, outcome) ==
  /\ mem' = [mem EXCEPT ![r] = [outcome.state EXCEPT !.coord[m.sender] = m.seq]]
  /\ outbox' = [outbox EXCEPT ![r] = @ \o outcome.sends]
  /\ phase' = [phase EXCEPT ![r] = outcome.end]

(* The bound on retries: the last one is made when the data has drained. *)
WithinBound(m) == m.seq < MaxEOFSeq \/ \A b \in Batch : b \in mem[home[b]].seen

HandleEOF(r) ==
  LET m == Message(r, "input")
  IN /\ Accept(r, "input", "eof")
     /\ WithinBound(m)
     /\ Apply(r, m, UpstreamEOFOutcome([mem[r] EXCEPT !.initiator = TRUE, !.cached = m.seq]))

HandleToken(r) ==
  LET t == Message(r, "ring")
  IN /\ Accept(r, "ring", "token")
     /\ Apply(r, t, TokenOutcome(r, mem[r], t))

(* There is one connection to each target: the ring queue of the successor,  *)
(* the replica's own input queue, and the next stages.                       *)
Target(m) == IF m.type \in {"token", "eof"} THEN m.type ELSE "next"

Publish(r, i) ==
  LET m == outbox[r][i]
  IN /\ \A j \in 1 .. i - 1 : Target(outbox[r][j]) # Target(m)
     /\ inbox' = CASE Target(m) = "token" -> [inbox EXCEPT ![Successor(r)].ring = Append(@, m)]
                   [] Target(m) = "eof" -> [inbox EXCEPT ![r].input = Append(@, m)]
                   [] OTHER -> inbox
     /\ out' = IF Target(m) = "next" THEN out \cup {m} ELSE out
     /\ sent' = IF Target(m) = "next" THEN sent ELSE sent \cup {r}
     /\ outbox' = [outbox EXCEPT ![r] = RemoveAt(@, i)]
     /\ UNCHANGED <<taken, mem, disk, tomb, phase, crashes, redeliveries>>

(* What both queues of r hold once the deliveries at their heads are acked. *)
AckAll(r) == /\ inbox' = [inbox EXCEPT ![r] = [p \in Ports |-> SubSeq(@[p], taken[r][p] + 1, Len(@[p]))]]
             /\ taken' = [taken EXCEPT ![r] = [p \in Ports |-> 0]]

Unacked(r) == \E p \in Ports : taken[r][p] > 0

(* Mutation: the deliveries are acknowledged without waiting for confirms. *)
MutCheckpoint(r) ==
  /\ phase[r] \in {"idle", "checkpoint"} /\ Unacked(r)
  /\ disk' = [disk EXCEPT ![r] = mem[r]]
  /\ AckAll(r)
  /\ sent' = sent \ {r}
  /\ phase' = [phase EXCEPT ![r] = "idle"]
  /\ UNCHANGED <<mem, tomb, outbox, out, crashes, redeliveries>>

(* checkpointAndAck: at the end of a coordination handler, or because of     *)
(* CheckpointInterval or MaxPendingAckAge.                                   *)
Checkpoint(r) ==
  /\ phase[r] \in {"idle", "checkpoint"} /\ outbox[r] = <<>> /\ Unacked(r)
  /\ disk' = [disk EXCEPT ![r] = mem[r]]
  /\ AckAll(r)
  /\ sent' = sent \ {r}
  /\ phase' = [phase EXCEPT ![r] = "idle"]
  /\ UNCHANGED <<mem, tomb, outbox, out, crashes, redeliveries>>

(* completeClient *)
Complete(r) ==
  /\ phase[r] = "complete" /\ outbox[r] = <<>>
  /\ tomb' = tomb \cup {r}
  /\ mem' = [mem EXCEPT ![r] = Fresh]
  /\ disk' = [disk EXCEPT ![r] = Fresh]
  /\ AckAll(r)
  /\ sent' = sent \ {r}
  /\ phase' = [phase EXCEPT ![r] = "idle"]
  /\ UNCHANGED <<outbox, out, crashes, redeliveries>>

-----------------------------------------------------------------------------
(* Faults *)

(* The replica is killed and restarts from its checkpoint; the broker        *)
(* delivers again what was not acknowledged, in its old place.  If its token *)
(* has left, with a count that is not saved, the two no longer agree         *)
(* (ringLoss): an instance without KillAfterSend leaves that moment out.     *)
Crash(r) ==
  /\ crashes < MaxCrashes
  /\ r \in sent => KillAfterSend
  /\ crashes' = crashes + 1
  /\ mem' = [mem EXCEPT ![r] = disk[r]]
  /\ taken' = [taken EXCEPT ![r] = [p \in Ports |-> 0]]
  /\ outbox' = [outbox EXCEPT ![r] = <<>>]
  /\ sent' = sent \ {r}
  /\ phase' = [phase EXCEPT ![r] = "idle"]
  /\ UNCHANGED <<inbox, disk, tomb, out, redeliveries>>

(* An upstream replica restarts and publishes a batch or the EOF again. *)
Redeliver(r, m) ==
  /\ redeliveries < MaxRedeliveries
  /\ redeliveries' = redeliveries + 1
  /\ m \in Arriving(r)
  /\ inbox' = [inbox EXCEPT ![r].input = Append(@, m)]
  /\ UNCHANGED <<taken, mem, disk, tomb, outbox, sent, phase, out, crashes>>

-----------------------------------------------------------------------------
ConsumeInput(r) == Discard(r, "input") \/ HandleBatch(r) \/ HandleEOF(r)
ConsumeRing(r) == Discard(r, "ring") \/ HandleToken(r)
Finish(r) == (\E i \in 1 .. Len(outbox[r]) : Publish(r, i)) \/ Checkpoint(r) \/ Complete(r)

Next == \E r \in Replica :
          \/ ConsumeInput(r) \/ ConsumeRing(r) \/ Finish(r)
          \/ Crash(r)
          \/ \E m \in Arriving(r) : Redeliver(r, m)

(* Each consumer goroutine gets stateMu in the end, handlers finish, and the *)
(* maintenance ticker fires.                                                 *)
Fairness == \A r \in Replica : /\ WF_vars(ConsumeInput(r))
                               /\ WF_vars(ConsumeRing(r))
                               /\ WF_vars(Finish(r))

Spec == Init /\ [][Next]_vars /\ Fairness
-----------------------------------------------------------------------------
(* Properties *)

State == [seen : SUBSET Batch, initiator : BOOLEAN, cached : Nat,
          coord : [Sender -> Nat], outSeq : Nat]

Messages == [type : {"batch"}, batch : Batch]
       \cup [type : {"eof"}, sender : {Upstream}, seq : Nat]
       \cup [type : {"token"}, sender : Replica, seq : Nat, agg : 0 .. Total, closing : BOOLEAN]

Outputs == [type : {"data"}, sender : Replica, batches : SUBSET Batch]
      \cup [type : {"result", "outeof"}, sender : Replica, seq : Nat, batches : SUBSET Batch]

(* Type invariant of the replicas, their queues and files.  A token never    *)
(* carries more than the announced total, the case tryFinalize calls         *)
(* impossible (ring.go:104-109).                                             *)
TypeOK ==
  /\ inbox \in [Replica -> [Ports -> Seq(Messages)]]
  /\ taken \in [Replica -> [Ports -> Nat]]
  /\ mem \in [Replica -> State] /\ disk \in [Replica -> State]
  /\ tomb \subseteq Replica
  /\ outbox \in [Replica -> Seq(Messages \cup Outputs)]
  /\ sent \subseteq Replica
  /\ phase \in [Replica -> {"idle", "checkpoint", "complete"}]
  /\ out \subseteq Outputs
  /\ crashes \in Nat /\ redeliveries \in Nat

Delivered(b) == \E o \in out : b \in o.batches
Queued(b) == \E i \in 1 .. Len(inbox[home[b]].input) : inbox[home[b]].input[i] = BatchMsg(b)
HasClosed(r) == \E o \in out : o.type = "outeof" /\ o.sender = r

Closer == IF Broadcast THEN Replica ELSE {0}

(* No batch is lost: until it is part of what the next stages received, its  *)
(* replica can still produce it, from the queue or, if it accumulates, from  *)
(* the checkpoint, and has not discarded the client (flushPublishers and     *)
(* completeClient, runtime.go:1128-1161 and 1304-1325).                      *)
NoBatchLost ==
  \A b \in Batch : \/ Delivered(b)
                   \/ home[b] \notin tomb /\ (Queued(b) \/ (~Forwards /\ b \in disk[home[b]].seen))

(* What a restart of r does not take back, or, once the token that counts it *)
(* has left, may not take back.                                              *)
Saved(r) == IF r \in sent THEN mem[r].seen ELSE disk[r].seen

(* The end of the client is announced only when no batch is outstanding:     *)
(* each was delivered or is saved where it will be delivered from.  Tokens   *)
(* of rounds that a crash cut short must not add up to the total             *)
(* (tryFinalize, ring.go:101-116).                                           *)
Absorbed == {b \in Batch : Delivered(b) \/ b \in Saved(home[b])}
ClosedIsComplete == (\E r \in Replica : HasClosed(r)) => Absorbed = Batch

(* Only one round is under way: of the messages that are not handled yet, at *)
(* most one is an EOF or a token.  A second one would let two sums be        *)
(* compared with the same ring state.                                        *)
Places == Ports \cup {"outbox"}
Unhandled(r, p) == IF p = "outbox" THEN outbox[r]
                                   ELSE SubSeq(inbox[r][p], taken[r][p] + 1, Len(inbox[r][p]))
Coordination(q) == {i \in 1 .. Len(q) : q[i].type \in {"eof", "token"}}
OneRound ==
  \A r, s \in Replica, p, o \in Places :
    \A i \in Coordination(Unhandled(r, p)), j \in Coordination(Unhandled(s, o)) :
      r = s /\ p = o /\ i = j

(* The stage promises to the next ones what StageTermination says: no        *)
(* replica announces the end of the client before every batch of the client  *)
(* was absorbed by its replica, and all of them announce it in the end       *)
(* ("ningún componente posterior procese datos de un cliente hasta que todos *)
(* los workers hayan flusheado sus aportes", docs, section 5.1).             *)
Promise == INSTANCE StageTermination WITH absorbed <- Absorbed, closed <- {r \in Closer : HasClosed(r)}
ImplementsPromise == Promise!Spec

(* Every replica that has to announce the end of the client does.            *)
EveryCloserCloses == \A r \in Closer : <>HasClosed(r)
=============================================================================
