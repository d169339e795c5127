--------------------------- MODULE GatewaySession ---------------------------
(***************************************************************************)
(* The gateway between its clients and the pipeline (gateway/), and the    *)
(* clients (client/): sessions over TCP, the file of the clients that are  *)
(* being served, delivery of results from the FINAL queue, and what both   *)
(* sides do when the other is gone.                                        *)
(*                                                                         *)
(* Abstractions.                                                           *)
(*  - A session is the ClientID that Accept draws; a client that comes     *)
(*    back gets another.  Sessions are numbered in that order.             *)
(*  - There is one gateway, and its results have one identifier space.     *)
(*  - The pipeline is what the gateway sees of it: it takes the messages   *)
(*    of a session, and puts the batches of Results on the FINAL queue, in *)
(*    order, those with the end of a query after all messages; nothing     *)
(*    after a ClientAborted.  A restarted final_joiner may repeat a batch. *)
(*  - A connection is two queues.  An end that was closed (clOpen, gwOpen) *)
(*    can be noticed by the other side at once or after what is queued.    *)
(*    gwOpen is also the context of the ClientState: Close ends both.      *)
(*  - A publish waits for its confirm under one handler and is one step    *)
(*    with it.  Broker and disk do not fail.  A client retries for ever.   *)
(*    Every item fits in a batch to the client.                            *)
(*  - SIGTERM leaves the same files and queues as a crash.                 *)
(*                                                                         *)
(* An operator Mut... is the next definition with a bug put in; no other   *)
(* definition uses it.                                                     *)
(***************************************************************************)
EXTENDS Integers, Sequences, FiniteSets, SequencesExt

CONSTANTS
  Client,
  Messages,     \* number of batches and end marks that a client sends
  Results,      \* the result batches of a client: sequences of [query, eof]
  QueueSize,    \* defaultResultQueueSize
  BatchLimit,   \* rows that fit in maxExternalBatchBytes
  Prefetch,     \* PrefetchCount
  MaxSessions,  \* bound: number of connections
  MaxFinal,     \* bound: batches that wait in the FINAL queue when another is sent
  MaxFaults     \* bound: crashes, broken connections, repeated batches; and a crash more
                \* while the gateway revives

Session == 1 .. MaxSessions
SeqID == 1 .. Len(Results)
Query == {item.query : item \in UNION {ToSet(Results[k]) : k \in SeqID}}

ASSUME ConstantsAssumption ==
  /\ IsFiniteSet(Client)
  /\ Messages \in Nat \ {0} /\ QueueSize \in Nat \ {0} /\ BatchLimit \in Nat \ {0}
  /\ Prefetch \in Nat \ {0} /\ MaxFinal \in Nat \ {0} /\ MaxSessions \in Nat /\ MaxFaults \in Nat

ASSUME ResultsAssumption ==
  /\ Results \in Seq(Seq([query : Nat, eof : BOOLEAN])) /\ Results # <<>>
  /\ \A k \in SeqID : Results[k] # <<>>

(* final_joiner sends the end of a query once, when it has forwarded all of  *)
(* its rows (OnUpstreamEOF).                                                 *)
ASSUME EndIsLast ==
  \A k, n \in SeqID : \A i \in 1 .. Len(Results[k]), j \in 1 .. Len(Results[n]) :
    Results[k][i].eof /\ Results[k][i].query = Results[n][j].query => n < k \/ (n = k /\ j <= i)

(* state.seen *)
Dedup == INSTANCE IntervalSet WITH MaxID <- Len(Results)

VARIABLES
  client,     \* the clients
  conn,       \* their connections
  gw,         \* phase; clients: the map of that name; registry; toAbort: what is left of
              \* abortPreviousClients; hand: the delivery that forwardFinalMessage works on
  sess,       \* the goroutines and the ClientState of each session
  file,       \* clients.json
  published,  \* number of messages of a session that the pipeline has
  aborted,    \* sessions whose ClientAborted the workers have
  produced,   \* number of result batches of a session that the pipeline has sent
  final,      \* the FINAL queue: pairs of session and SeqID
  left,       \* items not acknowledged of each unacknowledged delivery, otherwise 0
  opened, faults   \* counters

vars == <<client, conn, gw, sess, file, published, aborted, produced, final, left, opened, faults>>
pipeline == <<published, aborted, produced>>

-----------------------------------------------------------------------------
NoClient == [phase |-> "idle", sid |-> 0, sent |-> 0, rows |-> [q \in Query |-> <<>>],
             open |-> {}, eofs |-> {}]

(* NewClientState, and the two goroutines of the session. *)
NewSession == [reader |-> "none", out |-> "off", queue |-> <<>>, ackCh |-> FALSE, seen |-> <<>>,
               pending |-> <<>>, next |-> <<>>, eofsSent |-> 0]

Init ==
  /\ client = [c \in Client |-> NoClient]
  /\ conn = [s \in Session |-> [clOpen |-> FALSE, gwOpen |-> FALSE, toGateway |-> <<>>, toClient |-> <<>>]]
  /\ gw = [phase |-> "serving", clients |-> {}, registry |-> {}, toAbort |-> {}, hand |-> <<>>]
  /\ sess = [s \in Session |-> NewSession]
  /\ file = {}
  /\ published = [s \in Session |-> 0] /\ aborted = {} /\ produced = [s \in Session |-> 0]
  /\ final = <<>>
  /\ left = [s \in Session |-> [k \in SeqID |-> 0]]
  /\ opened = 0 /\ faults = 0

(* A result item is known by its batch and its place in it. *)
Item(d) == Results[d[1]][d[2]]
IsEOF(d) == Item(d).eof
ExpectedQueryEOFs == Cardinality(Query)

Unacked == {m \in Session \X SeqID : left[m[1]][m[2]] > 0}

HasRead(s, m) == conn[s].gwOpen /\ conn[s].toGateway # <<>> /\ Head(conn[s].toGateway) = m
Take(s) == [conn EXCEPT ![s].toGateway = Tail(@)]
Reply(s, m) == [Take(s) EXCEPT ![s].toClient = IF conn[s].clOpen THEN Append(@, [type |-> m]) ELSE @]

(* What was sent to an end is lost when it is closed. *)
GatewayCloses(s) == [conn EXCEPT ![s].gwOpen = FALSE, ![s].toGateway = <<>>]
ClientCloses(s) == [conn EXCEPT ![s].clOpen = FALSE, ![s].toClient = <<>>]

-----------------------------------------------------------------------------
(* The session's reader: Run, handleClientSession *)

Accept(c) ==
  LET s == opened + 1
  IN /\ gw.phase = "serving" /\ client[c].phase = "idle" /\ s \in Session
     /\ opened' = s
     /\ client' = [client EXCEPT ![c].phase = "connect", ![c].sid = s]
     /\ conn' = [conn EXCEPT ![s] = [clOpen |-> TRUE, gwOpen |-> TRUE,
                                     toGateway |-> <<"connect">>, toClient |-> <<>>]]
     /\ gw' = [gw EXCEPT !.registry = @ \cup {s}]
     /\ sess' = [sess EXCEPT ![s].reader = "handshake"]
     /\ UNCHANGED <<file, pipeline, final, left, faults>>

(* handleHandshake *)
Handshake(s) ==
  /\ sess[s].reader = "handshake" /\ HasRead(s, "connect")
  /\ sess' = [sess EXCEPT ![s].reader = "register"]
  /\ conn' = Reply(s, "connectAck")
  /\ UNCHANGED <<client, gw, file, pipeline, final, left, opened, faults>>

(* Mutation: the map is changed and not saved. *)
MutRegisterClient(s) ==
  /\ sess[s].reader = "register"
  /\ gw' = [gw EXCEPT !.clients = @ \cup {s}]
  /\ sess' = [sess EXCEPT ![s].reader = "read", ![s].out = "dequeue"]
  /\ UNCHANGED <<client, conn, file, pipeline, final, left, opened, faults>>

RegisterClient(s) ==
  /\ sess[s].reader = "register"
  /\ gw' = [gw EXCEPT !.clients = @ \cup {s}]
  /\ file' = gw'.clients
  /\ sess' = [sess EXCEPT ![s].reader = "read", ![s].out = "dequeue"]
  /\ UNCHANGED <<client, conn, pipeline, final, left, opened, faults>>

(* handleTransactionBatch, handleEndOfTransactions, and those of accounts. *)
Ingest(s) ==
  /\ sess[s].reader = "read" /\ HasRead(s, "data")
  /\ published' = [published EXCEPT ![s] = @ + 1]
  /\ conn' = Reply(s, "ingestAck")
  /\ UNCHANGED <<client, gw, sess, file, aborted, produced, final, left, opened, faults>>

(* NotifyResultBatchAck *)
NotifyAck(s) ==
  /\ sess[s].reader = "read" /\ HasRead(s, "resultAck")
  /\ conn' = Take(s)
  /\ sess' = [sess EXCEPT ![s].ackCh = TRUE]
  /\ UNCHANGED <<client, gw, file, pipeline, final, left, opened, faults>>

(* Mutation: a session that says nothing is given up. *)
MutReadFails(s) ==
  /\ sess[s].reader \in {"handshake", "read"}
  /\ ~conn[s].clOpen \/ ~conn[s].gwOpen \/ conn[s].toGateway = <<>>
  /\ sess' = [sess EXCEPT ![s].reader = "cleanup"]
  /\ UNCHANGED <<client, conn, gw, file, pipeline, final, left, opened, faults>>

ReadFails(s) ==
  /\ sess[s].reader \in {"handshake", "read"}
  /\ ~conn[s].clOpen \/ ~conn[s].gwOpen
  /\ sess' = [sess EXCEPT ![s].reader = "cleanup"]
  /\ UNCHANGED <<client, conn, gw, file, pipeline, final, left, opened, faults>>

(* cleanupClientSession, in three steps *)
PublishAborted(s) ==
  /\ sess[s].reader = "cleanup"
  /\ IF s \in gw.clients
       THEN /\ aborted' = aborted \cup {s}
            /\ sess' = [sess EXCEPT ![s].reader = "unregister"]
       ELSE /\ sess' = [sess EXCEPT ![s].reader = "remove"]
            /\ UNCHANGED aborted
  /\ UNCHANGED <<client, conn, gw, file, published, produced, final, left, opened, faults>>

UnregisterClient(s) ==
  /\ sess[s].reader = "unregister"
  /\ gw' = [gw EXCEPT !.clients = @ \ {s}]
  /\ file' = gw'.clients
  /\ sess' = [sess EXCEPT ![s].reader = "remove"]
  /\ UNCHANGED <<client, conn, pipeline, final, left, opened, faults>>

RemoveClient(s) ==
  /\ sess[s].reader = "remove"
  /\ gw' = [gw EXCEPT !.registry = @ \ {s}]
  /\ conn' = GatewayCloses(s)
  /\ sess' = [sess EXCEPT ![s].reader = "closed"]
  /\ UNCHANGED <<client, file, pipeline, final, left, opened, faults>>

-----------------------------------------------------------------------------
(* consumeFinalQueue: forwardFinalMessage *)

ForwardFinal ==
  LET m == Head(final)
      s == m[1]
      k == m[2]
  IN /\ gw.phase # "down" /\ gw.hand = <<>>
     /\ final # <<>> /\ Cardinality(Unacked) < Prefetch
     /\ final' = Tail(final)
     /\ IF s \notin gw.registry \/ Dedup!Contains(sess[s].seen, k)
          THEN UNCHANGED <<gw, sess, left>>     \* acknowledged at once
          ELSE /\ gw' = [gw EXCEPT !.hand = <<s, k, 1>>]
               /\ sess' = [sess EXCEPT ![s].seen = Dedup!Add(@, k)]
               /\ left' = [left EXCEPT ![s][k] = Len(Results[k])]
     /\ UNCHANGED <<client, conn, file, pipeline, opened, faults>>

(* Mutation: the delivery is acknowledged when its rows are in the queue. *)
MutEnqueueResult(s, k, j) ==
  /\ gw.hand = <<s, k, j>>
  /\ Len(sess[s].queue) < QueueSize
  /\ sess' = [sess EXCEPT ![s].queue = Append(@, <<k, j>>)]
  /\ gw' = [gw EXCEPT !.hand = IF j < Len(Results[k]) THEN <<s, k, j + 1>> ELSE <<>>]
  /\ left' = IF j < Len(Results[k]) THEN left ELSE [left EXCEPT ![s][k] = 0]
  /\ UNCHANGED <<client, conn, file, pipeline, final, opened, faults>>

(* EnqueueResult of item j blocks while the queue is full.  When the session *)
(* is over as well, select takes either case.                                *)
EnqueueResult(s, k, j) ==
  /\ gw.hand = <<s, k, j>>
  /\ Len(sess[s].queue) < QueueSize
  /\ sess' = [sess EXCEPT ![s].queue = Append(@, <<k, j>>)]
  /\ gw' = [gw EXCEPT !.hand = IF j < Len(Results[k]) THEN <<s, k, j + 1>> ELSE <<>>]
  /\ UNCHANGED <<client, conn, file, pipeline, final, left, opened, faults>>

EnqueueFails(s, k, j) ==
  /\ gw.hand = <<s, k, j>> /\ ~conn[s].gwOpen
  /\ left' = [left EXCEPT ![s][k] = 0]
  /\ gw' = [gw EXCEPT !.hand = <<>>]
  /\ UNCHANGED <<client, conn, sess, file, pipeline, final, opened, faults>>

Consume == \/ ForwardFinal
           \/ \E s \in Session, k \in SeqID : \E j \in 1 .. Len(Results[k]) :
                EnqueueResult(s, k, j) \/ EnqueueFails(s, k, j)

-----------------------------------------------------------------------------
(* handleClientResultOutput and resultBatchBuilder *)

(* Flush now, or first dequeue what else is there. *)
AfterAppend(d, queue) == IF IsEOF(d) \/ queue = <<>> THEN "flush" ELSE "dequeue"

(* Mutation: off by one. *)
MutDequeueResult(s) ==
  LET d     == Head(sess[s].queue)
      queue == Tail(sess[s].queue)
  IN /\ sess[s].out = "dequeue" /\ sess[s].queue # <<>>
     /\ IF Len(sess[s].pending) <= BatchLimit
          THEN sess' = [sess EXCEPT ![s].queue = queue, ![s].pending = Append(@, d),
                                    ![s].out = AfterAppend(d, queue)]
          ELSE sess' = [sess EXCEPT ![s].queue = queue, ![s].next = <<d>>, ![s].out = "flush"]
     /\ UNCHANGED <<client, conn, gw, file, pipeline, final, left, opened, faults>>

DequeueResult(s) ==
  LET d     == Head(sess[s].queue)
      queue == Tail(sess[s].queue)
  IN /\ sess[s].out = "dequeue" /\ sess[s].queue # <<>>
     /\ IF Len(sess[s].pending) < BatchLimit
          THEN sess' = [sess EXCEPT ![s].queue = queue, ![s].pending = Append(@, d),
                                    ![s].out = AfterAppend(d, queue)]
          ELSE sess' = [sess EXCEPT ![s].queue = queue, ![s].next = <<d>>, ![s].out = "flush"]
     /\ UNCHANGED <<client, conn, gw, file, pipeline, final, left, opened, faults>>

Flush(s) ==
  /\ sess[s].out = "flush" /\ conn[s].gwOpen /\ conn[s].clOpen
  /\ conn' = [conn EXCEPT ![s].toClient = Append(@, [type |-> "results", items |-> sess[s].pending])]
  /\ sess' = [sess EXCEPT ![s].out = "wait"]
  /\ UNCHANGED <<client, gw, file, pipeline, final, left, opened, faults>>

(* nackPending, of the item as well that append was called with, and         *)
(* RemoveAndClose: flush could not write, or its wait was cut short.         *)
(* What is nacked belongs to a session that is over, and is dropped when it   *)
(* comes again, so its order does not matter.                                *)
OutputFails(s) ==
  LET ks      == {d[1] : d \in ToSet(sess[s].pending \o sess[s].next)}
      nacked  == SetToSeq({<<s, k>> : k \in ks} \cap Unacked)
  IN /\ \/ sess[s].out = "flush" /\ ~(conn[s].gwOpen /\ conn[s].clOpen)
        \/ sess[s].out = "wait" /\ ~conn[s].gwOpen
     /\ final' = nacked \o final
     /\ left' = [left EXCEPT ![s] = [k \in SeqID |-> IF k \in ks THEN 0 ELSE @[k]]]
     /\ gw' = [gw EXCEPT !.registry = @ \ {s}]
     /\ conn' = GatewayCloses(s)
     /\ sess' = [sess EXCEPT ![s].out = "done", ![s].pending = <<>>, ![s].next = <<>>]
     /\ UNCHANGED <<client, file, pipeline, opened, faults>>

(* Each item counts down its delivery. *)
AckItems(s) ==
  left' = [left EXCEPT ![s] = [k \in SeqID |->
             LET n == Cardinality({i \in DOMAIN sess[s].pending : sess[s].pending[i][1] = k})
             IN IF @[k] > n THEN @[k] - n ELSE 0]]

(* Mutation: the item that did not fit is lost. *)
MutAckedFirst(s) ==
  /\ sess[s].out = "wait" /\ sess[s].ackCh /\ sess[s].next # <<>>
  /\ AckItems(s)
  /\ sess' = [sess EXCEPT ![s].ackCh = FALSE, ![s].pending = <<>>, ![s].next = <<>>, ![s].out = "dequeue"]
  /\ UNCHANGED <<client, conn, gw, file, pipeline, final, opened, faults>>

(* WaitForResultBatchAck in the flush of append: the item that did not fit   *)
(* begins the next batch.                                                    *)
AckedFirst(s) ==
  LET d == Head(sess[s].next)
  IN /\ sess[s].out = "wait" /\ sess[s].ackCh /\ sess[s].next # <<>>
     /\ AckItems(s)
     /\ sess' = [sess EXCEPT ![s].ackCh = FALSE, ![s].pending = <<d>>, ![s].next = <<>>,
                             ![s].out = AfterAppend(d, sess[s].queue)]
     /\ UNCHANGED <<client, conn, gw, file, pipeline, final, opened, faults>>

Acked(s) ==
  LET n == sess[s].eofsSent + Cardinality({i \in DOMAIN sess[s].pending : IsEOF(sess[s].pending[i])})
      all == n >= ExpectedQueryEOFs
  IN /\ sess[s].out = "wait" /\ sess[s].ackCh /\ sess[s].next = <<>>
     /\ AckItems(s)
     /\ gw' = IF all THEN [gw EXCEPT !.registry = @ \ {s}] ELSE gw
     /\ conn' = IF all THEN GatewayCloses(s) ELSE conn
     /\ sess' = [sess EXCEPT ![s].ackCh = FALSE, ![s].pending = <<>>, ![s].eofsSent = n,
                             ![s].out = IF all THEN "done" ELSE "dequeue"]
     /\ UNCHANGED <<client, file, pipeline, final, opened, faults>>

DequeueFails(s) ==
  /\ sess[s].out = "dequeue" /\ sess[s].queue = <<>> /\ ~conn[s].gwOpen
  /\ sess' = [sess EXCEPT ![s].out = "done"]
  /\ UNCHANGED <<client, conn, gw, file, pipeline, final, left, opened, faults>>

-----------------------------------------------------------------------------
(* The gateway dies and comes back: NewGateway, abortPreviousClients *)

GatewayCrash ==
  /\ gw.phase # "down" /\ faults < MaxFaults + (IF gw.phase = "reviving" THEN 1 ELSE 0)
  /\ faults' = faults + 1
  /\ gw' = [phase |-> "down", clients |-> {}, registry |-> {}, toAbort |-> {}, hand |-> <<>>]
  /\ sess' = [s \in Session |-> NewSession]
  /\ conn' = [s \in Session |-> GatewayCloses(s)[s]]
  /\ final' = SetToSeq(Unacked) \o final
  /\ left' = [s \in Session |-> [k \in SeqID |-> 0]]
  /\ UNCHANGED <<client, file, pipeline, opened>>

Start ==
  /\ gw.phase = "down"
  /\ gw' = [gw EXCEPT !.phase = "reviving", !.clients = file, !.toAbort = file]
  /\ UNCHANGED <<client, conn, sess, file, pipeline, final, left, opened, faults>>

AbortPrevious(s) ==
  /\ s \in gw.toAbort
  /\ gw' = [gw EXCEPT !.toAbort = @ \ {s}]
  /\ aborted' = aborted \cup {s}
  /\ UNCHANGED <<client, conn, sess, file, published, produced, final, left, opened, faults>>

(* Mutation: the file is emptied first. *)
MutRevived ==
  /\ gw.phase = "reviving"
  /\ file' = {}
  /\ gw' = [gw EXCEPT !.phase = IF gw.toAbort = {} THEN "serving" ELSE @,
                      !.clients = {}]
  /\ UNCHANGED <<client, conn, sess, pipeline, final, left, opened, faults>>

Revived ==
  /\ gw.phase = "reviving" /\ gw.toAbort = {}
  /\ file' = {}
  /\ gw' = [gw EXCEPT !.phase = "serving", !.clients = {}]
  /\ UNCHANGED <<client, conn, sess, pipeline, final, left, opened, faults>>

-----------------------------------------------------------------------------
(* The client: runSession, runIngest, readerLoop *)

HasReply(c, m) ==
  LET s == client[c].sid
  IN s # 0 /\ conn[s].clOpen /\ conn[s].toClient # <<>> /\ Head(conn[s].toClient).type = m

TakeReply(s) == [conn EXCEPT ![s].toClient = Tail(@)]

Connected(c) ==
  /\ client[c].phase = "connect" /\ HasReply(c, "connectAck")
  /\ client' = [client EXCEPT ![c].phase = "send"]
  /\ conn' = TakeReply(client[c].sid)
  /\ UNCHANGED <<gw, sess, file, pipeline, final, left, opened, faults>>

SendMessage(c) ==
  LET s == client[c].sid
  IN /\ client[c].phase = "send" /\ conn[s].clOpen
     /\ client' = [client EXCEPT ![c].phase = "wait", ![c].sent = @ + 1]
     /\ conn' = [conn EXCEPT ![s].toGateway = IF conn[s].gwOpen THEN Append(@, "data") ELSE @]
     /\ UNCHANGED <<gw, sess, file, pipeline, final, left, opened, faults>>

IngestAcked(c) ==
  /\ client[c].phase = "wait" /\ HasReply(c, "ingestAck")
  /\ client' = [client EXCEPT ![c].phase = IF client[c].sent < Messages THEN "send" ELSE "results"]
  /\ conn' = TakeReply(client[c].sid)
  /\ UNCHANGED <<gw, sess, file, pipeline, final, left, opened, faults>>

(* consumeQueryResult: a file that is not open is created, which empties it. *)
Written(cl, d) ==
  LET q    == Item(d).query
      rows == IF q \in cl.open THEN cl.rows[q] ELSE <<>>
  IN IF IsEOF(d) THEN [cl EXCEPT !.rows[q] = rows, !.open = @ \ {q}, !.eofs = @ \cup {q}]
     ELSE [cl EXCEPT !.rows[q] = Append(rows, d), !.open = @ \cup {q}]

(* ResultBatch: consumeResultBatch, the ResultBatchAck, and the end of the   *)
(* session with the last query.                                              *)
ReceiveResults(c) ==
  LET s    == client[c].sid
      cl   == FoldLeft(Written, client[c], Head(conn[s].toClient).items)
      done == Cardinality(cl.eofs) >= ExpectedQueryEOFs
  IN /\ client[c].phase \in {"send", "wait", "results"} /\ HasReply(c, "results")
     /\ client' = [client EXCEPT ![c] = IF done THEN [cl EXCEPT !.phase = "done"] ELSE cl]
     /\ conn' = [IF done THEN ClientCloses(s) ELSE TakeReply(s)
                   EXCEPT ![s].toGateway = IF conn[s].gwOpen THEN Append(@, "resultAck") ELSE @]
     /\ UNCHANGED <<gw, sess, file, pipeline, final, left, opened, faults>>

(* Mutation: the next session goes on with the files of this one. *)
MutLoseSession(c) ==
  LET s == client[c].sid
  IN /\ client[c].phase \notin {"idle", "done"} /\ (~conn[s].clOpen \/ ~conn[s].gwOpen)
     /\ client' = [client EXCEPT ![c] = [NoClient EXCEPT !.rows = client[c].rows, !.open = client[c].open]]
     /\ conn' = ClientCloses(s)
     /\ UNCHANGED <<gw, sess, file, pipeline, final, left, opened, faults>>

(* sessionDropped, or a handshake that failed: partial results are removed   *)
(* and the client connects again.                                            *)
LoseSession(c) ==
  LET s == client[c].sid
  IN /\ client[c].phase \notin {"idle", "done"} /\ (~conn[s].clOpen \/ ~conn[s].gwOpen)
     /\ client' = [client EXCEPT ![c] = NoClient]
     /\ conn' = ClientCloses(s)
     /\ UNCHANGED <<gw, sess, file, pipeline, final, left, opened, faults>>

(* The network, or a time-out of the handshake, breaks a connection. *)
Break(s) ==
  /\ conn[s].clOpen /\ conn[s].gwOpen /\ faults < MaxFaults
  /\ faults' = faults + 1
  /\ conn' = ClientCloses(s)
  /\ UNCHANGED <<client, gw, sess, file, pipeline, final, left, opened>>

-----------------------------------------------------------------------------
(* The pipeline *)

Produce(s) ==
  LET k == produced[s] + 1
  IN /\ k \in SeqID /\ s \notin aborted /\ Len(final) < MaxFinal
     /\ published[s] >= IF \E item \in ToSet(Results[k]) : item.eof THEN Messages ELSE 1
     /\ produced' = [produced EXCEPT ![s] = k]
     /\ final' = Append(final, <<s, k>>)
     /\ UNCHANGED <<client, conn, gw, sess, file, published, aborted, left, opened, faults>>

Repeat(s, k) ==
  /\ k <= produced[s] /\ faults < MaxFaults
  /\ faults' = faults + 1
  /\ final' = Append(final, <<s, k>>)
  /\ UNCHANGED <<client, conn, gw, sess, file, pipeline, left, opened>>

-----------------------------------------------------------------------------
Reader(s) == \/ Handshake(s) \/ RegisterClient(s) \/ Ingest(s) \/ NotifyAck(s) \/ ReadFails(s)
             \/ PublishAborted(s) \/ UnregisterClient(s) \/ RemoveClient(s)

Output(s) == \/ DequeueResult(s) \/ Flush(s) \/ OutputFails(s) \/ AckedFirst(s) \/ Acked(s)
             \/ DequeueFails(s)

Revive == Start \/ Revived \/ \E s \in Session : AbortPrevious(s)

ClientStep(c) == \/ Connected(c) \/ SendMessage(c) \/ IngestAcked(c)
                 \/ ReceiveResults(c) \/ LoseSession(c)

Next ==
  \/ \E c \in Client : Accept(c) \/ ClientStep(c)
  \/ \E s \in Session : Reader(s) \/ Output(s) \/ Produce(s) \/ Break(s)
  \/ \E s \in Session, k \in SeqID : Repeat(s, k)
  \/ Consume \/ Revive \/ GatewayCrash

(* Each process goes on as long as it can, whichever of its goroutines does. *)
Fairness ==
  /\ WF_vars(\E s \in Session : Reader(s) \/ Output(s)) /\ WF_vars(Consume) /\ WF_vars(Revive)
  /\ \A c \in Client : WF_vars(Accept(c) \/ ClientStep(c))
  /\ WF_vars(\E s \in Session : Produce(s))

Spec == Init /\ [][Next]_vars /\ Fairness
-----------------------------------------------------------------------------
(* Properties *)

(* Type invariant. *)
TypeOK ==
  /\ client \in [Client -> [phase : {"idle", "connect", "send", "wait", "results", "done"},
                            sid : Session \cup {0}, sent : 0 .. Messages,
                            rows : [Query -> Seq(SeqID \X Nat)],
                            open : SUBSET Query, eofs : SUBSET Query]]
  /\ \A s \in Session :
       /\ sess[s].reader \in {"none", "handshake", "register", "read", "cleanup", "unregister",
                              "remove", "closed"}
       /\ sess[s].out \in {"off", "dequeue", "flush", "wait", "done"}
       /\ Len(sess[s].queue) <= QueueSize /\ Len(sess[s].pending) <= BatchLimit
       /\ Dedup!Canonical(sess[s].seen)
       /\ sess[s].out = "flush" => sess[s].pending # <<>>
  /\ gw.registry \subseteq 1 .. opened /\ gw.toAbort \subseteq gw.clients
  /\ file \subseteq 1 .. opened
  /\ \A s \in Session, k \in SeqID : left[s][k] \in 0 .. Len(Results[k])
  /\ opened \in 0 .. MaxSessions /\ faults \in 0 .. MaxFaults + 1

(* What the pipeline has of a client can be given up after a restart: until  *)
(* its ClientAborted is published the client is in clients.json              *)
(* (registerClient before the first batch, unregisterClient after the abort, *)
(* abortPreviousClients before the file is emptied).                         *)
PublishedIsRegistered ==
  \A s \in Session : published[s] > 0 /\ s \notin aborted => s \in file

Live(c) == /\ client[c].phase \notin {"idle", "done"}
           /\ conn[client[c].sid].clOpen /\ conn[client[c].sid].gwOpen

(* The state of a client is given up only when its session is over           *)
(* (cleanupClientSession, abortPreviousClients).                             *)
AbortedIsOver == \A c \in Client : client[c].sid \in aborted => ~Live(c)

(* The items of all batches, in the order final_joiner sends them. *)
Items == UNION {{k} \X (1 .. Len(Results[k])) : k \in SeqID}
Before(d, e) == d[1] < e[1] \/ (d[1] = e[1] /\ d[2] < e[2])

RowsOf(q) == {d \in Items : Item(d).query = q /\ ~IsEOF(d)}
InOrder(rows) == \A i, j \in 1 .. Len(rows) : i < j => Before(rows[i], rows[j])

(* A client that finishes has every row of every query once and in order,    *)
(* whatever was repeated, cut off and begun again (forwardFinalMessage,      *)
(* cleanupPartialResults).                                                   *)
ResultsAreExact ==
  \A c \in Client : client[c].phase = "done" =>
    \A q \in Query : ToSet(client[c].rows[q]) = RowsOf(q) /\ InOrder(client[c].rows[q])

(* "the AMQP ack fires only when all items in this batch have been           *)
(* individually acked by the client" (gateway.go:285): as long as a session  *)
(* lives, a batch that left the broker is in the client's files.             *)
AckedIsDelivered ==
  \A c \in Client : Live(c) =>
    LET s == client[c].sid
    IN \A k \in 1 .. produced[s] :
         \/ <<s, k>> \in ToSet(final) \cup Unacked
         \/ \A j \in 1 .. Len(Results[k]) :
              IF IsEOF(<<k, j>>) THEN Results[k][j].query \in client[c].eofs
              ELSE <<k, j>> \in ToSet(client[c].rows[Results[k][j].query])

(* Every client gets its results in the end (client Run: "retrying from      *)
(* scratch").                                                                *)
ClientsFinish == <>(\A c \in Client : client[c].phase = "done")

(* Whatever the pipeline took in for a session it is told to give up in the  *)
(* end (cleanupClientSession, abortPreviousClients), once however the        *)
(* session ended.                                                            *)
SessionsReclaimed == <>[](\A s \in Session : published[s] > 0 => s \in aborted)

(* "If any item fails (e.g. client disconnects mid-flush), the whole AMQP    *)
(* message is nacked" (gateway.go:287): no delivery stays unacknowledged.    *)
DeliveriesSettled == <>[](Unacked = {})
=============================================================================
