-------------------------- MODULE MicroTransactions --------------------------
(***************************************************************************)
(* Query 5: how many transactions are worth less than a threshold in US    *)
(* dollars.  The fetcher sends the conversion rates to every replica of    *)
(* micro_transaction_counter and exits.  A replica keeps its transactions  *)
(* input closed (DeferredInputs) until the EOF of the rates; then it       *)
(* counts, and the ring protocol closes the client.  aggregator_q5 adds    *)
(* the counts of the replicas.                                             *)
(*                                                                         *)
(* Rates belong to the worker and not to a client: they are written with   *)
(* every checkpoint, the one of the pseudo-client "q5_conversions" as      *)
(* well, and once more in a global file, which is read last.               *)
(*                                                                         *)
(* Abstractions.                                                           *)
(*  - One client.  A batch holds one transaction; it is Micro if its       *)
(*    amount is below the threshold, and Domestic if it is in US dollars   *)
(*    and needs no rate.  Rates are there or not.                          *)
(*  - A queue gives its messages in any order, but the fetcher's EOF comes *)
(*    after the rates, and the EOF of a replica after its partial count.   *)
(*  - aggregator_q5 acknowledges a message when it handled it;             *)
(*    CheckpointedWorker has the crash of such a worker, and the           *)
(*    transactions that come twice.                                        *)
(*                                                                         *)
(* An operator Mut... is the next definition with a bug put in; no other   *)
(* definition uses it.                                                     *)
(***************************************************************************)
EXTENDS Integers, FiniteSets, Sequences, SequencesExt

CONSTANTS
  N,                \* N_REPLICAS of micro_transaction_counter
  Batch, home,      \* batches of the client, and the replica each is sharded to
  Micro, Domestic,  \* those to count; those that need no rate
  Windows,          \* which of the two unprotected moments a crash may hit, see Crash
  MaxEOFSeq,        \* bound: SeqID of the last retry of the EOF that meets missing data
  MaxCrashes,       \* bound: number of crashes
  MaxRefetches      \* bound: number of times the fetcher is started again

Replica == 0 .. N - 1
Window == {"blind", "forward"}

ASSUME ConstantsAssumption ==
  /\ N \in Nat \ {0}
  /\ IsFiniteSet(Batch)
  /\ home \in [Batch -> Replica]
  /\ Micro \subseteq Batch /\ Domestic \subseteq Batch
  /\ Windows \subseteq Window
  /\ MaxEOFSeq \in Nat \ {0}
  /\ MaxCrashes \in Nat /\ MaxRefetches \in Nat

VARIABLES
  fetched,    \* how many messages the fetcher published
  inbox,      \* per replica, what its three queues can deliver
  pending,    \* pendingAcks: delivered, handled, not acknowledged
  mem,        \* volatile state
  disk,       \* the two checkpoints and the file of the global state
  tomb,       \* replicas that hold a tombstone of the client
  outbox,     \* what the handler in progress still has to publish
  handler,    \* whose checkpoint the handler in progress ends with, and how
  results,    \* what the queue of aggregator_q5 can deliver
  agg,        \* state of aggregator_q5
  answer,     \* the rows that it emitted
  crashes, refetches

replicaVars == <<inbox, pending, mem, disk, tomb, outbox, handler>>
aggregatorVars == <<results, agg, answer>>
vars == <<fetched, replicaVars, aggregatorVars, crashes, refetches>>

-----------------------------------------------------------------------------
(* Messages.  The senders of coordination messages are the replicas and the  *)
(* stage before them.                                                        *)
Transactions == N
Sender == 0 .. N
Successor(r) == (r + 1) % N
Total == Cardinality(Batch)         \* what the EOF of the transactions announces

BatchMsg(b) == [type |-> "batch", batch |-> b]
EOFMsg(n) == [type |-> "eof", sender |-> Transactions, seq |-> n]
Token(r, n, sum, closing) == [type |-> "token", sender |-> r, seq |-> n, sum |-> sum, closing |-> closing]
Rates == [type |-> "rates"]
RatesEOF == [type |-> "ratesEOF"]

Partial(r, n, count) == [type |-> "partial", sender |-> r, seq |-> n, count |-> count]
OutEOF(r, n, total) == [type |-> "outeof", sender |-> r, seq |-> n, total |-> total]

(* Whose state a message touches: the checkpoint and the acks go by client.  *)
Owners == {"client", "conversions"}
Owner(m) == IF m.type \in {"rates", "ratesEOF"} THEN "conversions" ELSE "client"

(* seen: dedupSeen, whose size is the strategy's seen; count: what matched;  *)
(* initiator: there is a ring state; cached: SeqID of the cached EOF.        *)
FreshClient == [seen |-> {}, count |-> 0, initiator |-> FALSE, cached |-> 0,
                coord |-> [s \in Sender |-> 0], outSeq |-> 0]

(* What deduplication knows of the fetcher's messages. *)
FreshConversions == [rates |-> FALSE, eof |-> FALSE]

(* started: the transactions input consumes. *)
Boot == [client |-> FreshClient, conversions |-> FreshConversions,
         rates |-> FALSE, ready |-> FALSE, started |-> FALSE]

NoFile == [exists |-> FALSE, state |-> Boot]
EmptyDisk == [client |-> NoFile, conversions |-> NoFile, global |-> "none"]

Idle == [end |-> "idle", owner |-> "client"]

Arriving(r) == {BatchMsg(b) : b \in {c \in Batch : home[c] = r}}
                 \cup (IF r = 0 THEN {EOFMsg(1)} ELSE {})

NothingReceived == [partials |-> {}, total |-> 0, eofs |-> {}, coord |-> [r \in Replica |-> 0],
                    closed |-> FALSE]

Init ==
  /\ fetched = 0
  /\ inbox = [r \in Replica |-> Arriving(r)]
  /\ pending = [r \in Replica |-> {}]
  /\ mem = [r \in Replica |-> Boot]
  /\ disk = [r \in Replica |-> EmptyDisk]
  /\ tomb = {}
  /\ outbox = [r \in Replica |-> <<>>] /\ handler = [r \in Replica |-> Idle]
  /\ results = {} /\ agg = NothingReceived /\ answer = <<>>
  /\ crashes = 0 /\ refetches = 0

-----------------------------------------------------------------------------
(* The fetcher: rates and EOF for one queue after the other.  Killed on the  *)
(* way and started again, it repeats them under the same identifiers.        *)

Fetch ==
  LET r == fetched \div 2
      m == IF fetched % 2 = 0 THEN Rates ELSE RatesEOF
  IN /\ fetched < 2 * N
     /\ fetched' = fetched + 1
     /\ inbox' = [inbox EXCEPT ![r] = @ \cup {m}]
     /\ UNCHANGED <<pending, mem, disk, tomb, outbox, handler, aggregatorVars, crashes, refetches>>

Refetch ==
  /\ refetches < MaxRefetches
  /\ fetched \in 1 .. 2 * N - 1
  /\ refetches' = refetches + 1
  /\ fetched' = 0
  /\ UNCHANGED <<replicaVars, aggregatorVars, crashes>>

-----------------------------------------------------------------------------
(* RingCoordinator, on the state of the client: a new state, what to         *)
(* publish, how the handler ends.                                            *)
Outcome(s, sends, end) == [state |-> s, sends |-> sends, end |-> end]

Seen(s) == Cardinality(s.seen)

RetrySeq(s) == IF s.coord[Transactions] >= s.cached + 1 THEN s.coord[Transactions] + 1 ELSE s.cached + 1

(* outcomeFor: no partial count if there is nothing to count. *)
Emission(r, s) ==
  IF s.count > 0 THEN <<Partial(r, s.outSeq + 1, s.count), OutEOF(r, s.outSeq + 2, 1)>>
                 ELSE <<OutEOF(r, s.outSeq + 1, 0)>>

Emit(r, s, sends) ==
  Outcome([s EXCEPT !.initiator = FALSE, !.cached = 0, !.outSeq = @ + Len(Emission(r, s)) + Len(sends)],
          Emission(r, s) \o sends, "complete")

(* tryFinalize, at the initiator *)
TryFinalize(s, sum) ==
  IF sum # Total
    THEN Outcome([s EXCEPT !.initiator = FALSE, !.cached = 0], <<EOFMsg(RetrySeq(s))>>, "forward")
  ELSE IF N > 1
    THEN Outcome([s EXCEPT !.outSeq = @ + 1], <<Token(0, s.outSeq + 1, sum, TRUE)>>, "forward")
  ELSE Emit(0, s, <<>>)

(* OnUpstreamEOF *)
UpstreamEOF(s) ==
  IF N = 1 THEN TryFinalize(s, Seen(s))
  ELSE Outcome([s EXCEPT !.outSeq = @ + 1], <<Token(0, s.outSeq + 1, Seen(s), FALSE)>>, "forward")

(* Mutation: a replica adds what it has seen to a closing token as well. *)
MutRingToken(r, s, t) ==
  IF r = 0
    THEN IF t.closing THEN Emit(0, s, <<>>)
         ELSE IF s.initiator THEN TryFinalize(s, t.sum)
         ELSE Outcome(s, <<>>, "checkpoint")
  ELSE IF t.closing
    THEN Emit(r, s, <<Token(r, s.outSeq + Len(Emission(r, s)) + 1, t.sum + Seen(s), TRUE)>>)
  ELSE Outcome([s EXCEPT !.outSeq = @ + 1],
               <<Token(r, s.outSeq + 1, t.sum + Seen(s), FALSE)>>, "forward")

(* OnRingToken and onClosingToken *)
RingToken(r, s, t) ==
  IF r = 0
    THEN IF t.closing THEN Emit(0, s, <<>>)
         ELSE IF s.initiator THEN TryFinalize(s, t.sum)
         ELSE Outcome(s, <<>>, "checkpoint")
  ELSE IF t.closing
    THEN Emit(r, s, <<Token(r, s.outSeq + Len(Emission(r, s)) + 1, t.sum, TRUE)>>)
  ELSE Outcome([s EXCEPT !.outSeq = @ + 1],
               <<Token(r, s.outSeq + 1, t.sum + Seen(s), FALSE)>>, "forward")

-----------------------------------------------------------------------------
(* The handlers of a replica, serialised by its stateMu.  The ring and the   *)
(* conversions are consumed from the start.                                  *)

Deliverable(r, m) ==
  /\ handler[r] = Idle
  /\ m \in inbox[r]
  /\ m.type \in {"batch", "eof"} => mem[r].started
  /\ m = RatesEOF => Rates \notin inbox[r]

Discarded(r, m) ==
  \/ Owner(m) = "client" /\ r \in tomb
  \/ m.type = "batch" /\ m.batch \in mem[r].client.seen
  \/ m.type \in {"eof", "token"} /\ m.seq <= mem[r].client.coord[m.sender]
  \/ m = Rates /\ mem[r].conversions.rates
  \/ m = RatesEOF /\ mem[r].conversions.eof

Discard(r, m) ==
  /\ Deliverable(r, m)
  /\ Discarded(r, m)
  /\ inbox' = [inbox EXCEPT ![r] = @ \ {m}]
  /\ UNCHANGED <<fetched, pending, mem, disk, tomb, outbox, handler, aggregatorVars, crashes, refetches>>

Accept(r, m, type) ==
  /\ Deliverable(r, m)
  /\ m.type = type
  /\ ~Discarded(r, m)
  /\ inbox' = [inbox EXCEPT ![r] = @ \ {m}]
  /\ pending' = [pending EXCEPT ![r] = @ \cup {m}]
  /\ UNCHANGED <<fetched, disk, tomb, aggregatorVars, crashes, refetches>>

(* convertToUSD, and the comparison with MAX_CONVERTED_AMOUNT_USD *)
Matches(r, b) == b \in Micro /\ (b \in Domestic \/ mem[r].rates)

HandleBatch(r, m) ==
  LET s == mem[r].client
      one == IF Matches(r, m.batch) THEN 1 ELSE 0
  IN /\ Accept(r, m, "batch")
     /\ mem' = [mem EXCEPT ![r].client = [s EXCEPT !.seen = s.seen \cup {m.batch}, !.count = s.count + one]]
     /\ UNCHANGED <<outbox, handler>>

(* mergeRates *)
HandleRates(r, m) ==
  /\ Accept(r, m, "rates")
  /\ mem' = [mem EXCEPT ![r] = [@ EXCEPT !.rates = TRUE, !.conversions.rates = TRUE]]
  /\ UNCHANGED <<outbox, handler>>

(* OnUpstreamEOF on the conversions opens the other input. *)
HandleRatesEOF(r, m) ==
  /\ Accept(r, m, "ratesEOF")
  /\ mem' = [mem EXCEPT ![r] = [@ EXCEPT !.ready = TRUE, !.started = TRUE, !.conversions.eof = TRUE]]
  /\ handler' = [handler EXCEPT ![r] = [end |-> "checkpoint", owner |-> "conversions"]]
  /\ UNCHANGED outbox

Apply(r, m, outcome) ==
  /\ mem' = [mem EXCEPT ![r].client = [outcome.state EXCEPT !.coord[m.sender] = m.seq]]
  /\ outbox' = [outbox EXCEPT ![r] = outcome.sends]
  /\ handler' = [handler EXCEPT ![r] = [end |-> outcome.end, owner |-> "client"]]

(* The bound on retries: the last one is made when the data is in. *)
WithinBound(m) == m.seq < MaxEOFSeq \/ \A b \in Batch : b \in mem[home[b]].client.seen

HandleEOF(r, m) ==
  /\ Accept(r, m, "eof")
  /\ WithinBound(m)
  /\ Apply(r, m, UpstreamEOF([mem[r].client EXCEPT !.initiator = TRUE, !.cached = m.seq]))

HandleToken(r, m) ==
  /\ Accept(r, m, "token")
  /\ Apply(r, m, RingToken(r, mem[r].client, m))

Send(r, m) ==
  CASE m.type = "token" -> inbox' = [inbox EXCEPT ![Successor(r)] = @ \cup {m}] /\ UNCHANGED results
    [] m.type = "eof" -> inbox' = [inbox EXCEPT ![r] = @ \cup {m}] /\ UNCHANGED results
    [] OTHER -> results' = results \cup {m} /\ UNCHANGED inbox

Publish(r) ==
  /\ outbox[r] # <<>>
  /\ Send(r, Head(outbox[r]))
  /\ outbox' = [outbox EXCEPT ![r] = Tail(@)]
  /\ UNCHANGED <<fetched, pending, mem, disk, tomb, handler, agg, answer, crashes, refetches>>

Unacked(r, o) == {m \in pending[r] : Owner(m) = o}

(* checkpointAndAck, first file: everything of the owner, the rates, ready. *)
Checkpoint(r, o) ==
  /\ outbox[r] = <<>> /\ Unacked(r, o) # {}
  /\ \/ handler[r] = Idle
     \/ handler[r].owner = o /\ handler[r].end \in {"checkpoint", "forward"}
  /\ disk' = [disk EXCEPT ![r][o] = [exists |-> TRUE, state |-> mem[r]]]
  /\ handler' = [handler EXCEPT ![r] = [end |-> "global", owner |-> o]]
  /\ UNCHANGED <<fetched, inbox, pending, mem, tomb, outbox, aggregatorVars, crashes, refetches>>

(* writeGlobalState *)
GlobalState(r) == IF mem[r].rates THEN "rates" ELSE "empty"

(* checkpointAndAck, second file, and ackAllPending *)
SaveGlobal(r) ==
  /\ handler[r].end = "global"
  /\ disk' = [disk EXCEPT ![r].global = GlobalState(r)]
  /\ pending' = [pending EXCEPT ![r] = @ \ Unacked(r, handler[r].owner)]
  /\ handler' = [handler EXCEPT ![r] = Idle]
  /\ UNCHANGED <<fetched, inbox, mem, tomb, outbox, aggregatorVars, crashes, refetches>>

(* completeClient and CleanupClient: rates and ready stay. *)
Complete(r) ==
  /\ handler[r].end = "complete" /\ outbox[r] = <<>>
  /\ tomb' = tomb \cup {r}
  /\ mem' = [mem EXCEPT ![r].client = FreshClient]
  /\ disk' = [disk EXCEPT ![r] = [@ EXCEPT !.client = NoFile, !.global = GlobalState(r)]]
  /\ pending' = [pending EXCEPT ![r] = @ \ Unacked(r, "client")]
  /\ handler' = [handler EXCEPT ![r] = Idle]
  /\ UNCHANGED <<fetched, inbox, outbox, aggregatorVars, crashes, refetches>>

-----------------------------------------------------------------------------
(* aggregator_q5 *)

(* What came from a replica comes in its order. *)
InOrder(m) == m.type = "outeof" => \A p \in results : p.type = "partial" => p.sender # m.sender

(* Mutation: a partial count that comes again is not recognised. *)
MutStale(m) == agg.closed \/ (m.type = "outeof" /\ m.seq <= agg.coord[m.sender])

Stale(m) ==
  \/ agg.closed
  \/ m.type = "partial" /\ <<m.sender, m.seq>> \in agg.partials
  \/ m.type = "outeof" /\ m.seq <= agg.coord[m.sender]

DropResult(m) ==
  /\ Stale(m)
  /\ results' = results \ {m}
  /\ UNCHANGED <<agg, answer>>

AddPartial(m) ==
  /\ ~Stale(m)
  /\ m.type = "partial"
  /\ results' = results \ {m}
  /\ agg' = [agg EXCEPT !.partials = @ \cup {<<m.sender, m.seq>>}, !.total = @ + m.count]
  /\ UNCHANGED answer

Announced(eofs) == FoldSet(LAMBDA e, n : e.total + n, 0, eofs)

(* OnUpstreamEOF of the JoinerAccumulateCoordinator over N_MICRO_TX_COUNTER  *)
(* senders; the retry of an EOF that came before its data.                   *)
AddEOF(m) ==
  LET eofs == agg.eofs \cup {[sender |-> m.sender, total |-> m.total]}
      received == [agg EXCEPT !.eofs = eofs, !.coord[m.sender] = m.seq]
  IN /\ ~Stale(m)
     /\ m.type = "outeof"
     /\ IF {e.sender : e \in eofs} # Replica
          THEN /\ agg' = received /\ results' = results \ {m} /\ UNCHANGED answer
        ELSE IF Cardinality(agg.partials) < Announced(eofs)
          THEN /\ agg' = received
               /\ results' = (results \ {m}) \cup {OutEOF(m.sender, m.seq + 1, m.total)}
               /\ UNCHANGED answer
        ELSE /\ agg' = [NothingReceived EXCEPT !.closed = TRUE, !.eofs = eofs]
             /\ answer' = Append(answer, agg.total)
             /\ results' = results \ {m}

Aggregate ==
  /\ \E m \in results : InOrder(m) /\ (DropResult(m) \/ AddPartial(m) \/ AddEOF(m))
  /\ UNCHANGED <<fetched, replicaVars, crashes, refetches>>

-----------------------------------------------------------------------------
(* Faults *)

(* Mutation: the input is deferred again, whatever was loaded. *)
MutLoad(d) ==
  LET files == {d[o] : o \in Owners}
      found == {f \in files : f.exists}
  IN [client |-> d.client.state.client,
      conversions |-> d.conversions.state.conversions,
      rates |-> IF d.global = "none" THEN \E f \in found : f.state.rates ELSE d.global = "rates",
      ready |-> \E f \in found : f.state.ready,
      started |-> FALSE]

(* loadCheckpoints: a checkpoint without rates changes nothing, the global   *)
(* file replaces what the checkpoints gave.  New: any checkpoint opens the   *)
(* transactions input.                                                       *)
Load(d) ==
  LET files == {d[o] : o \in Owners}
      found == {f \in files : f.exists}
  IN [client |-> d.client.state.client,
      conversions |-> d.conversions.state.conversions,
      rates |-> IF d.global = "none" THEN \E f \in found : f.state.rates ELSE d.global = "rates",
      ready |-> \E f \in found : f.state.ready,
      started |-> found # {}]

(* The two moments in which nothing protects the answer.  A restart opens    *)
(* the transactions input although the rates are not there (yet): a token    *)
(* came before them and left a checkpoint, or the kill falls between the     *)
(* checkpoint with the rates and a global file without them.  Or a token or  *)
(* EOF is being passed on, with a count of batches that are saved and        *)
(* acknowledged afterwards.                                                  *)
Blind(r) == Load(disk[r]).started /\ ~Load(disk[r]).rates
Forwarding(r) == handler[r].end = "forward"

Crash(r) ==
  /\ crashes < MaxCrashes
  /\ Blind(r) => "blind" \in Windows
  /\ Forwarding(r) => "forward" \in Windows
  /\ crashes' = crashes + 1
  /\ mem' = [mem EXCEPT ![r] = Load(disk[r])]
  /\ inbox' = [inbox EXCEPT ![r] = @ \cup pending[r]]
  /\ pending' = [pending EXCEPT ![r] = {}]
  /\ outbox' = [outbox EXCEPT ![r] = <<>>]
  /\ handler' = [handler EXCEPT ![r] = Idle]
  /\ UNCHANGED <<fetched, disk, tomb, aggregatorVars, refetches>>

-----------------------------------------------------------------------------
Consume(r) == \E m \in inbox[r] :
                \/ Discard(r, m)
                \/ HandleBatch(r, m) \/ HandleRates(r, m) \/ HandleRatesEOF(r, m)
                \/ HandleEOF(r, m) \/ HandleToken(r, m)
Finish(r) == \/ Publish(r) \/ SaveGlobal(r) \/ Complete(r)
             \/ \E o \in Owners : Checkpoint(r, o)

Next == \/ Fetch \/ Refetch \/ Aggregate
        \/ \E r \in Replica : Consume(r) \/ Finish(r) \/ Crash(r)

(* The fetcher is left to end, consumer goroutines get stateMu in the end,   *)
(* handlers finish, and the maintenance ticker fires.                        *)
Fairness == /\ WF_vars(Fetch) /\ WF_vars(Aggregate)
            /\ \A r \in Replica : WF_vars(Consume(r)) /\ WF_vars(Finish(r))

Spec == Init /\ [][Next]_vars /\ Fairness
-----------------------------------------------------------------------------
(* Properties *)

ClientMessages == [type : {"batch"}, batch : Batch]
             \cup [type : {"eof"}, sender : {Transactions}, seq : Nat]
             \cup [type : {"token"}, sender : Replica, seq : Nat, sum : 0 .. Total, closing : BOOLEAN]
Messages == ClientMessages \cup {Rates, RatesEOF}
Outputs == [type : {"partial"}, sender : Replica, seq : Nat, count : Nat]
      \cup [type : {"outeof"}, sender : Replica, seq : Nat, total : {0, 1}]

ClientState == [seen : SUBSET Batch, count : Nat, initiator : BOOLEAN, cached : Nat,
                coord : [Sender -> Nat], outSeq : Nat]
State == [client : ClientState, conversions : [rates : BOOLEAN, eof : BOOLEAN],
          rates : BOOLEAN, ready : BOOLEAN, started : BOOLEAN]
File == [exists : BOOLEAN, state : State]

(* Type invariant of the fetcher, the replicas with their files and queues,  *)
(* and the aggregator (micro_transaction_counter.go:51-65).                  *)
TypeOK ==
  /\ fetched \in 0 .. 2 * N
  /\ inbox \in [Replica -> SUBSET Messages] /\ pending \in [Replica -> SUBSET Messages]
  /\ mem \in [Replica -> State]
  /\ disk \in [Replica -> [client : File, conversions : File, global : {"none", "empty", "rates"}]]
  /\ tomb \subseteq Replica
  /\ outbox \in [Replica -> Seq(ClientMessages \cup Outputs)]
  /\ handler \in [Replica -> [end : {"idle", "checkpoint", "forward", "complete", "global"}, owner : Owners]]
  /\ results \subseteq Outputs
  /\ agg \in [partials : SUBSET (Replica \X Nat), total : Nat,
              eofs : SUBSET [sender : Replica, total : {0, 1}],
              coord : [Replica -> Nat], closed : BOOLEAN]
  /\ answer \in Seq(Nat)
  /\ crashes \in Nat /\ refetches \in Nat

(* The answer is the number of transactions below the threshold, although    *)
(* rates, transactions and tokens race to every replica, replicas restart    *)
(* from files of two owners, and messages come again ("recien comienza a     *)
(* procesar transacciones una vez recibido el EOF asociado a dicho flujo",   *)
(* docs, query 5).                                                           *)
AnswerIsExact == answer \in {<<>>, <<Cardinality(Micro)>>}

(* The query is answered: neither an input that stays deferred nor a round   *)
(* that nobody repeats keeps the client open.                                *)
AnswerArrives == <>(answer # <<>>)
=============================================================================
