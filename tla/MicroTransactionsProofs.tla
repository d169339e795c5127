------------------------ MODULE MicroTransactionsProofs ------------------------
(* Theorems about MicroTransactions, for all values of its constants: the     *)
(* types, and, when no kill falls in an unprotected moment, that the answer   *)
(* is exact.                                                                  *)
EXTENDS MicroTransactions, FiniteSetTheorems, SequenceTheorems, TLAPS

-----------------------------------------------------------------------------
(* The inductive invariant *)

(* A kill never falls in a moment that nothing protects.  The counts and the  *)
(* rounds are spoken of in this case only, and the types in every case.       *)
Protected == Windows = {}

HomeOf(r) == {b \in Batch : home[b] = r}

(* What a replica gets, or gets again after a crash. *)
Coming(r) == inbox[r] \cup pending[r]

(* What no crash takes from a replica that is protected. *)
Saved(r) == IF handler[r].end = "forward" THEN mem[r].client ELSE disk[r].client.state.client

(* What a token may count: without protection, anything that is there.        *)
Kept(r) == IF ~Protected \/ r \in tomb THEN HomeOf(r) ELSE Saved(r).seen

(* The kept batches of the replicas that a token from r has passed. *)
KeptBy(r) == {b \in Batch : home[b] <= r /\ b \in Kept(home[b])}

(* A batch that is counted has been converted (Matches). *)
Counted(r, s) == s.count = Cardinality(s.seen \cap Micro)

(* The rates have come, or come again. *)
RatesCame(r) == Rates \in Coming(r) \/ disk[r].conversions.exists

RatesAt(r) ==
  /\ RatesEOF \in Coming(r) => RatesCame(r)
  /\ mem[r].conversions.rates => Rates \in pending[r] \/ disk[r].conversions.exists
  /\ ~disk[r].conversions.exists => ~disk[r].conversions.state.conversions.rates
  /\ handler[r].end = "global" => disk[r][handler[r].owner].exists
  /\ fetched = 2 * r + 1 => RatesCame(r)

(* No replica counts without the rates. *)
ReadyAt(r) ==
  Protected =>
    /\ mem[r].started => mem[r].rates
    /\ Rates \in pending[r] \/ RatesEOF \in pending[r] \/ disk[r].conversions.exists => mem[r].rates

(* The handlers, and what a client leaves that was completed. *)
HandlerAt(r) ==
  /\ handler[r].end \in {"forward", "complete"} => handler[r].owner = "client"
  /\ handler[r].end \notin {"forward", "complete"} => outbox[r] = <<>>
  /\ handler[r].end = "forward" => Len(outbox[r]) <= 1
  /\ r \in tomb => /\ handler[r].end \notin {"forward", "complete"}
                   /\ mem[r].client = FreshClient /\ disk[r].client = NoFile
                   /\ Unacked(r, "client") = {}
                   /\ handler[r].end \in {"checkpoint", "global"} => handler[r].owner = "conversions"

(* Memory is never behind the checkpoint, and emits under the same SeqIDs.    *)
StateAt(r) ==
  /\ mem[r].client.seen \subseteq HomeOf(r)
  /\ disk[r].client.state.client.seen \subseteq mem[r].client.seen
  /\ handler[r].end # "complete" => mem[r].client.outSeq = Saved(r).outSeq
  /\ \A s \in Sender : Saved(r).coord[s] <= mem[r].client.coord[s]
  /\ Protected /\ N = 1 => Saved(r).outSeq = 0

CountAt(r) ==
  Protected => Counted(r, mem[r].client) /\ Counted(r, disk[r].client.state.client)

(* What holds of a replica on its own. *)
SelfAt(r) == RatesAt(r) /\ ReadyAt(r) /\ HandlerAt(r) /\ StateAt(r) /\ CountAt(r)

(* Messages of the rounds.  A round is open until its closing token.          *)
IsOpen(m) == m.type = "eof" \/ (m.type = "token" /\ ~m.closing)
IsClosing(m) == m.type = "token" /\ m.closing

(* A token never counts more than is kept. *)
TokenOK(m) == N > 1 /\ (~m.closing => m.sum <= Cardinality(KeptBy(m.sender)))

TokenInv ==
  \A r \in Replica :
    /\ \A m \in Coming(r) : /\ m.type = "batch" => m.batch \in HomeOf(r)
                            /\ m.type = "eof" => r = 0
                            /\ m.type = "token" => r = Successor(m.sender) /\ TokenOK(m)
    /\ \A i \in 1 .. Len(outbox[r]) :
         LET m == outbox[r][i]
         IN /\ m.type # "batch"
            /\ m.type = "eof" => r = 0
            /\ m.type # "eof" => m.sender = r
            /\ m.type = "token" => TokenOK(m)

(* The messages of an open round that have not been handled for good.         *)
Waiting(r) == {m \in Coming(r) : /\ m.type \in {"eof", "token"} /\ IsOpen(m)
                                 /\ r \notin tomb /\ m.seq > Saved(r).coord[m.sender]}
Sending(r) == {i \in 1 .. Len(outbox[r]) : IsOpen(outbox[r][i])}

RoundInv ==
  Protected => \A r, s \in Replica :
    /\ \A m \in Waiting(r), n \in Waiting(s) : r = s /\ m = n
    /\ \A i \in Sending(r), j \in Sending(s) : r = s /\ i = j
    /\ Waiting(r) = {} \/ Sending(s) = {}

Partials(r) == {p \in results : p.type = "partial" /\ p.sender = r}

(* The SeqIDs under which the partial count of a replica is known.            *)
SentSeqs(r) == {p.seq : p \in Partials(r)}
                 \cup {p[2] : p \in {q \in agg.partials : q[1] = r}}
                 \cup {outbox[r][i].seq : i \in {j \in 1 .. Len(outbox[r]) : outbox[r][j].type = "partial"}}

Ending == \E r \in Replica : \/ r \in tomb \/ handler[r].end = "complete"
                             \/ \E m \in Coming(r) : IsClosing(m)
                             \/ \E i \in 1 .. Len(outbox[r]) : IsClosing(outbox[r][i])
                             \/ SentSeqs(r) # {}

(* The closing token says that every batch is kept, and that no round is open. *)
ClosedInv ==
  Protected /\ N > 1 /\ Ending => \A r \in Replica : HomeOf(r) \subseteq Kept(r) /\ Waiting(r) = {} /\ Sending(r) = {}

MicroOf(r) == HomeOf(r) \cap Micro

Added(r) == \E p \in agg.partials : p[1] = r
AddedMicro == {b \in Micro : Added(home[b])}
Given(r) == agg.closed \/ MicroOf(r) = {} \/ Partials(r) # {} \/ Added(r)

(* A replica emits its count under one SeqID, whatever is killed. *)
SeqInv ==
  Protected => \A r \in Replica :
    /\ r \notin tomb => SentSeqs(r) \subseteq {Saved(r).outSeq + 1}
    /\ \A a, b \in SentSeqs(r) : a = b

(* The count of a replica comes before its EOF. *)
OutputInv ==
  Protected =>
    /\ \A m \in results : m.type = "outeof" => Given(m.sender)
    /\ \A r \in Replica : \A i \in 1 .. Len(outbox[r]) :
         outbox[r][i].type = "outeof" =>
           Given(r) \/ \E j \in 1 .. i - 1 : outbox[r][j].type = "partial"

ExactInv ==
  Protected =>
    /\ \A m \in results : m.type = "partial" => m.count = Cardinality(MicroOf(m.sender))
    /\ \A r \in Replica : \A i \in 1 .. Len(outbox[r]) :
         outbox[r][i].type = "partial" => outbox[r][i].count = Cardinality(MicroOf(r))
    /\ ~agg.closed =>
         /\ answer = <<>>
         /\ agg.total = Cardinality(AddedMicro)
         /\ \A e \in agg.eofs : MicroOf(e.sender) = {} \/ Added(e.sender)
    /\ agg.closed => answer = <<Cardinality(Micro)>>

(* What holds of the replicas, the queues and the aggregator together. *)
RingInv == TokenInv /\ RoundInv /\ ClosedInv /\ SeqInv /\ OutputInv /\ ExactInv

IndInv == TypeOK /\ (\A r \in Replica : SelfAt(r)) /\ RingInv
-----------------------------------------------------------------------------
(* Replicas *)

(* The ring: replicas are numbered from 0, the stage before them follows. *)
LEMMA ReplicaFacts ==
  /\ N \in Nat /\ N >= 1 /\ Replica \subseteq Nat /\ 0 \in Replica /\ N - 1 \in Replica
  /\ Replica \subseteq Sender /\ Transactions \in Sender /\ Transactions \notin Replica
  /\ \A b \in Batch : home[b] \in Replica
  BY ConstantsAssumption DEF Replica, Sender, Transactions

LEMMA SuccessorIs ==
  ASSUME NEW r \in Replica
  PROVE  Successor(r) = (IF r = N - 1 THEN 0 ELSE r + 1) /\ Successor(r) \in Replica
<1>1. r \in 0 .. N - 1 /\ N \in Nat \ {0}
  BY ConstantsAssumption DEF Replica
<1>2. CASE r = N - 1
  BY <1>1, <1>2 DEF Successor, Replica
<1>3. CASE r # N - 1
  BY <1>1, <1>3 DEF Successor, Replica
<1> QED
  BY <1>2, <1>3

(* Batches are finitely many. *)
LEMMA FiniteBatches ==
  ASSUME NEW S \in SUBSET Batch
  PROVE  /\ IsFiniteSet(S) /\ Cardinality(S) \in Nat /\ Cardinality(S) <= Total
         /\ IsFiniteSet(Batch) /\ Total \in Nat
  BY ConstantsAssumption, FS_Subset, FS_CardinalityType DEF Total

LEMMA MoreBatches ==
  ASSUME NEW S \in SUBSET Batch, NEW T \in SUBSET S
  PROVE  Cardinality(T) <= Cardinality(S)
  BY FiniteBatches, FS_Subset

LEMMA DisjointBatches ==
  ASSUME NEW S \in SUBSET Batch, NEW T \in SUBSET Batch, S \cap T = {}
  PROVE  Cardinality(S \cup T) = Cardinality(S) + Cardinality(T)
<1>1. Cardinality(S \cap T) = 0
  BY FS_EmptySet
<1>2. Cardinality(S \cup T) = Cardinality(S) + Cardinality(T) - Cardinality(S \cap T)
  BY FiniteBatches, FS_Union
<1>3. Cardinality(S) \in Nat /\ Cardinality(T) \in Nat
  BY FiniteBatches
<1> QED
  BY <1>1, <1>2, <1>3

(* A count that reaches the total is the count of everything. *)
LEMMA TotalIsAll ==
  ASSUME NEW S \in SUBSET Batch, Cardinality(S) >= Total
  PROVE  S = Batch
<1>1. Cardinality(S) = Cardinality(Batch)
  BY FiniteBatches DEF Total
<1> QED
  BY <1>1, FiniteBatches, FS_Subset

-----------------------------------------------------------------------------
(* Types *)

OutMessages == ClientMessages \cup Outputs

FileSet == [client : File, conversions : File, global : {"none", "empty", "rates"}]
Handlers == [end : {"idle", "checkpoint", "forward", "complete", "global"}, owner : Owners]
AggState == [partials : SUBSET (Replica \X Nat), total : Nat,
             eofs : SUBSET [sender : Replica, total : {0, 1}],
             coord : [Replica -> Nat], closed : BOOLEAN]

(* What a message is, by its type (the message formats of ring and results). *)
LEMMA MessageIs ==
  ASSUME NEW m \in Messages \cup Outputs
  PROVE  /\ m.type \in {"batch", "eof", "token", "rates", "ratesEOF", "partial", "outeof"}
         /\ m.type = "batch" => m.batch \in Batch /\ m = BatchMsg(m.batch)
         /\ m.type = "eof" => m.sender = Transactions /\ m.seq \in Nat
         /\ m.type = "token" => /\ m.sender \in Replica /\ m.seq \in Nat
                                /\ m.sum \in 0 .. Total /\ m.closing \in BOOLEAN
         /\ m.type \in {"batch", "eof", "token"} <=> m \in ClientMessages
         /\ m.type = "rates" <=> m = Rates
         /\ m.type = "ratesEOF" <=> m = RatesEOF
         /\ m.type = "partial" => m.sender \in Replica /\ m.seq \in Nat /\ m.count \in Nat
         /\ m.type = "outeof" => m.sender \in Replica /\ m.seq \in Nat /\ m.total \in {0, 1}
         /\ m.type \in {"partial", "outeof"} <=> m \in Outputs
         /\ Owner(m) = (IF m.type \in {"rates", "ratesEOF"} THEN "conversions" ELSE "client")
<1>1. CASE m \in [type : {"batch"}, batch : Batch]
  BY <1>1 DEF Owner, BatchMsg, ClientMessages, Outputs, Rates, RatesEOF
<1>2. CASE m \in [type : {"eof"}, sender : {Transactions}, seq : Nat]
  BY <1>2 DEF Owner, ClientMessages, Outputs, Rates, RatesEOF
<1>3. CASE m \in [type : {"token"}, sender : Replica, seq : Nat, sum : 0 .. Total, closing : BOOLEAN]
  BY <1>3 DEF Owner, ClientMessages, Outputs, Rates, RatesEOF
<1>4. CASE m \in {Rates, RatesEOF}
  BY <1>4 DEF Owner, ClientMessages, Outputs, Rates, RatesEOF
<1>5. CASE m \in Outputs
  BY <1>5 DEF Owner, ClientMessages, Outputs, Rates, RatesEOF
<1> QED
  BY <1>1, <1>2, <1>3, <1>4, <1>5 DEF Messages, ClientMessages

(* The messages that are sent are messages. *)
LEMMA MessagesSent ==
  /\ \A n \in Nat : EOFMsg(n) \in ClientMessages /\ EOFMsg(n).type = "eof"
  /\ \A r \in Replica, n \in Nat, sum \in 0 .. Total, c \in BOOLEAN :
       /\ Token(r, n, sum, c) \in ClientMessages
       /\ Token(r, n, sum, c).type = "token" /\ Token(r, n, sum, c).sender = r
       /\ Token(r, n, sum, c).sum = sum /\ Token(r, n, sum, c).closing = c
  /\ \A r \in Replica, n \in Nat, k \in Nat :
       /\ Partial(r, n, k) \in Outputs /\ Partial(r, n, k).type = "partial"
       /\ Partial(r, n, k).sender = r /\ Partial(r, n, k).seq = n /\ Partial(r, n, k).count = k
  /\ \A r \in Replica, n \in Nat, k \in {0, 1} :
       /\ OutEOF(r, n, k) \in Outputs /\ OutEOF(r, n, k).type = "outeof"
       /\ OutEOF(r, n, k).sender = r /\ OutEOF(r, n, k).seq = n /\ OutEOF(r, n, k).total = k
  /\ \A b \in Batch : BatchMsg(b) \in ClientMessages /\ BatchMsg(b).type = "batch"
  /\ Rates \in Messages /\ RatesEOF \in Messages /\ Rates.type = "rates" /\ RatesEOF.type = "ratesEOF"
  /\ ClientMessages \subseteq Messages
<1>1. \A n \in Nat : EOFMsg(n) \in ClientMessages /\ EOFMsg(n).type = "eof"
  BY DEF EOFMsg, ClientMessages
<1>2. \A r \in Replica, n \in Nat, sum \in 0 .. Total, c \in BOOLEAN :
        /\ Token(r, n, sum, c) \in ClientMessages
        /\ Token(r, n, sum, c).type = "token" /\ Token(r, n, sum, c).sender = r
        /\ Token(r, n, sum, c).sum = sum /\ Token(r, n, sum, c).closing = c
  BY DEF Token, ClientMessages
<1>3. \A r \in Replica, n \in Nat, k \in Nat :
        /\ Partial(r, n, k) \in Outputs /\ Partial(r, n, k).type = "partial"
        /\ Partial(r, n, k).sender = r /\ Partial(r, n, k).seq = n /\ Partial(r, n, k).count = k
  BY DEF Partial, Outputs
<1>4. \A r \in Replica, n \in Nat, k \in {0, 1} :
        /\ OutEOF(r, n, k) \in Outputs /\ OutEOF(r, n, k).type = "outeof"
        /\ OutEOF(r, n, k).sender = r /\ OutEOF(r, n, k).seq = n /\ OutEOF(r, n, k).total = k
  BY DEF OutEOF, Outputs
<1>5. \A b \in Batch : BatchMsg(b) \in ClientMessages /\ BatchMsg(b).type = "batch"
  BY DEF BatchMsg, ClientMessages
<1>6. /\ Rates \in Messages /\ RatesEOF \in Messages /\ Rates.type = "rates" /\ RatesEOF.type = "ratesEOF"
      /\ ClientMessages \subseteq Messages
  BY DEF Messages, Rates, RatesEOF
<1> QED
  BY <1>1, <1>2, <1>3, <1>4, <1>5, <1>6

(* The fresh states. *)
LEMMA FreshTypes ==
  /\ FreshClient \in ClientState /\ Boot \in State /\ NoFile \in File /\ EmptyDisk \in FileSet
  /\ Idle \in Handlers /\ NothingReceived \in AggState
<1>1. FreshClient \in ClientState
  BY DEF FreshClient, ClientState
<1>2. Boot \in State
  BY <1>1 DEF Boot, State, FreshConversions
<1>3. NoFile \in File /\ EmptyDisk \in FileSet
  BY <1>2 DEF NoFile, File, EmptyDisk, FileSet
<1>4. Idle \in Handlers /\ NothingReceived \in AggState
  BY DEF Idle, Handlers, Owners, NothingReceived, AggState
<1> QED
  BY <1>1, <1>2, <1>3, <1>4

(* The types, component by component. *)
LEMMA TypesAre ==
  ASSUME TypeOK, NEW r \in Replica
  PROVE  /\ inbox[r] \subseteq Messages /\ pending[r] \subseteq Messages
         /\ mem[r] \in State /\ mem[r].client \in ClientState
         /\ disk[r] \in FileSet /\ disk[r].client \in File /\ disk[r].conversions \in File
         /\ disk[r].client.state \in State /\ disk[r].client.state.client \in ClientState
         /\ disk[r].conversions.state \in State
         /\ outbox[r] \in Seq(OutMessages) /\ handler[r] \in Handlers
         /\ Saved(r) \in ClientState
         /\ Coming(r) \subseteq Messages
<1>1. /\ inbox[r] \subseteq Messages /\ pending[r] \subseteq Messages
      /\ mem[r] \in State /\ disk[r] \in FileSet
      /\ outbox[r] \in Seq(OutMessages) /\ handler[r] \in Handlers
  BY DEF TypeOK, FileSet, OutMessages, Handlers
<1>2. mem[r].client \in ClientState
  BY <1>1 DEF State
<1>3. disk[r].client \in File /\ disk[r].conversions \in File
  BY <1>1 DEF FileSet
<1>4. disk[r].client.state \in State /\ disk[r].conversions.state \in State
  BY <1>3 DEF File
<1>5. disk[r].client.state.client \in ClientState
  BY <1>4 DEF State
<1> QED
  BY <1>1, <1>2, <1>3, <1>4, <1>5 DEF Saved, Coming
-----------------------------------------------------------------------------
(* RingCoordinator: what an outcome does to the client, and what it sends.    *)

Passed(r) == {b \in Batch : home[b] < r /\ b \in Kept(home[b])}
AllKept == \A b \in Batch : b \in Kept(home[b])

(* The emission of a replica that ends the client (outcomeFor). *)
CountOf(r, s) == Partial(r, s.outSeq + 1, s.count)

Ends(r, s, q) ==
  /\ q \in Seq(OutMessages)
  /\ \A i \in 1 .. Len(q) :
       \/ s.count > 0 /\ q[i] = CountOf(r, s)
       \/ /\ q[i].type = "outeof" /\ q[i].sender = r
          /\ s.count = 0 \/ (i = 2 /\ q[1].type = "partial")
       \/ IsClosing(q[i]) /\ q[i].sender = r /\ N > 1

(* A token that goes on, or the EOF that is put back. *)
Forwards(r, s, q) ==
  \E x \in ClientMessages :
    /\ q = <<x>>
    /\ \/ x.type = "eof" /\ r = 0
       \/ /\ x.type = "token" /\ x.sender = r /\ N > 1
          /\ ~x.closing => x.sum <= Cardinality(Passed(r) \cup s.seen)
          /\ x.closing => AllKept

OutcomeOK(r, m, s, o) ==
  /\ o.state \in ClientState
  /\ o.state.seen = s.seen /\ o.state.count = s.count /\ o.state.coord = s.coord
  /\ \/ o.end = "checkpoint" /\ o.sends = <<>> /\ o.state.outSeq = s.outSeq
     \/ /\ o.end = "forward" /\ IsOpen(m) /\ Forwards(r, s, o.sends)
        /\ N = 1 => o.state.outSeq = s.outSeq
     \/ /\ o.end = "complete" /\ Ends(r, s, o.sends)
        /\ IF N > 1 THEN IsClosing(m) ELSE s.seen = Batch

(* The fields of the state of a client, and what the handlers do with it.     *)
LEMMA ClientFields ==
  ASSUME NEW s \in ClientState
  PROVE  /\ s.seen \in SUBSET Batch /\ s.count \in Nat /\ s.cached \in Nat /\ s.outSeq \in Nat
         /\ s.outSeq + 1 \in Nat
         /\ s.coord \in [Sender -> Nat] /\ \A x \in Sender : s.coord[x] \in Nat
         /\ Seen(s) \in Nat /\ Seen(s) <= Total /\ Seen(s) \in 0 .. Total /\ RetrySeq(s) \in Nat
<1>1. s.seen \in SUBSET Batch /\ s.count \in Nat /\ s.cached \in Nat /\ s.outSeq \in Nat
  BY DEF ClientState
<1>2. s.coord \in [Sender -> Nat]
  BY DEF ClientState
<1>3. Seen(s) \in Nat /\ Seen(s) <= Total /\ Total \in Nat
  BY <1>1, FiniteBatches DEF Seen
<1>4. RetrySeq(s) \in Nat
  BY <1>1, <1>2, ReplicaFacts DEF RetrySeq
<1> QED
  BY <1>1, <1>2, <1>3, <1>4

LEMMA ClientUpdates ==
  ASSUME NEW s \in ClientState
  PROVE  /\ \A i \in BOOLEAN, c \in Nat : [s EXCEPT !.initiator = i, !.cached = c] \in ClientState
         /\ \A n \in Nat : [s EXCEPT !.outSeq = n] \in ClientState
         /\ \A i \in BOOLEAN, c \in Nat, n \in Nat :
              [s EXCEPT !.initiator = i, !.cached = c, !.outSeq = n] \in ClientState
         /\ \A A \in SUBSET Batch, n \in Nat : [s EXCEPT !.seen = A, !.count = n] \in ClientState
         /\ \A x \in Sender, n \in Nat : [s EXCEPT !.coord[x] = n] \in ClientState
<1>1. s.coord \in [Sender -> Nat]
  BY ClientFields
<1>2. /\ \A i \in BOOLEAN, c \in Nat : [s EXCEPT !.initiator = i, !.cached = c] \in ClientState
      /\ \A n \in Nat : [s EXCEPT !.outSeq = n] \in ClientState
      /\ \A i \in BOOLEAN, c \in Nat, n \in Nat :
           [s EXCEPT !.initiator = i, !.cached = c, !.outSeq = n] \in ClientState
      /\ \A A \in SUBSET Batch, n \in Nat : [s EXCEPT !.seen = A, !.count = n] \in ClientState
  BY DEF ClientState
<1>3. ASSUME NEW x \in Sender, NEW n \in Nat
      PROVE  [s EXCEPT !.coord[x] = n] \in ClientState
  <2> DEFINE marks == [s.coord EXCEPT ![x] = n]
  <2>1. marks \in [Sender -> Nat]
    BY <1>1
  <2>2. [s EXCEPT !.coord = marks] \in ClientState
    <3> HIDE DEF marks
    <3> QED
      BY <2>1 DEF ClientState
  <2> QED
    BY <2>2
<1> QED
  BY <1>2, <1>3

(* What goes out with the end of the client at a replica (outcomeFor).        *)
LEMMA EmissionEnds ==
  ASSUME NEW r \in Replica, NEW s \in ClientState
  PROVE  /\ Ends(r, s, Emission(r, s)) /\ Emission(r, s) \in Seq(OutMessages)
         /\ \A n \in Nat, sum \in 0 .. Total :
              N > 1 => Ends(r, s, Emission(r, s) \o <<Token(r, n, sum, TRUE)>>)
<1>1. s.count \in Nat /\ s.outSeq \in Nat
  BY ClientFields
<1> DEFINE p == CountOf(r, s)
           e == OutEOF(r, s.outSeq + 2, 1)
           f == OutEOF(r, s.outSeq + 1, 0)
<1>2. /\ p \in OutMessages /\ p.type = "partial"
      /\ e \in OutMessages /\ e.type = "outeof" /\ e.sender = r
      /\ f \in OutMessages /\ f.type = "outeof" /\ f.sender = r
  BY <1>1, MessagesSent DEF OutMessages, CountOf
<1>3. Emission(r, s) = IF s.count > 0 THEN <<p, e>> ELSE <<f>>
  BY DEF Emission, CountOf
<1>4. Ends(r, s, Emission(r, s)) /\ Emission(r, s) \in Seq(OutMessages)
  <2>1. CASE s.count > 0
    <3>1. Emission(r, s) = <<p, e>>
      BY <1>3, <2>1
    <3>2. CountOf(r, s) = p
      OBVIOUS
    <3> HIDE DEF p, e
    <3>3. <<p, e>> \in Seq(OutMessages)
      BY <1>2
    <3>4. ASSUME NEW i \in 1 .. Len(<<p, e>>)
          PROVE  \/ s.count > 0 /\ <<p, e>>[i] = p
                 \/ /\ <<p, e>>[i].type = "outeof" /\ <<p, e>>[i].sender = r
                    /\ s.count = 0 \/ (i = 2 /\ <<p, e>>[1].type = "partial")
      <4>1. i = 1 \/ i = 2
        OBVIOUS
      <4> QED
        BY <1>2, <2>1, <4>1
    <3> QED
      BY <3>1, <3>2, <3>3, <3>4 DEF Ends
  <2>2. CASE ~(s.count > 0)
    <3>1. Emission(r, s) = <<f>> /\ s.count = 0
      BY <1>1, <1>3, <2>2
    <3> HIDE DEF f
    <3>3. <<f>> \in Seq(OutMessages)
      BY <1>2
    <3>4. ASSUME NEW i \in 1 .. Len(<<f>>)
          PROVE  <<f>>[i].type = "outeof" /\ <<f>>[i].sender = r
      <4>1. i = 1
        OBVIOUS
      <4> QED
        BY <1>2, <4>1
    <3> QED
      BY <3>1, <3>3, <3>4 DEF Ends
  <2> QED
    BY <2>1, <2>2
<1>5. ASSUME NEW n \in Nat, NEW sum \in 0 .. Total, N > 1
      PROVE  Ends(r, s, Emission(r, s) \o <<Token(r, n, sum, TRUE)>>)
  <2> DEFINE t == Token(r, n, sum, TRUE)
             q == Emission(r, s)
  <2>1. t \in OutMessages /\ IsClosing(t) /\ t.sender = r
    <3>1. t \in ClientMessages
      BY MessagesSent
    <3> QED
      BY <3>1 DEF OutMessages, IsClosing, Token
  <2> HIDE DEF t, q
  <2>2. q \in Seq(OutMessages) /\ <<t>> \in Seq(OutMessages) /\ Len(<<t>>) = 1 /\ <<t>>[1] = t
    BY <1>4, <2>1 DEF q
  <2>3. /\ q \o <<t>> \in Seq(OutMessages)
        /\ Len(q \o <<t>>) = Len(q) + 1
        /\ \A i \in 1 .. Len(q) + 1 : (q \o <<t>>)[i] = IF i <= Len(q) THEN q[i] ELSE <<t>>[i - Len(q)]
    BY <2>2, ConcatProperties
  <2>4. Len(q) \in Nat /\ Ends(r, s, q)
    BY <1>4, <2>2 DEF q
  <2>5. ASSUME NEW i \in 1 .. Len(q) + 1
        PROVE  \/ i \in 1 .. Len(q) /\ (q \o <<t>>)[i] = q[i] /\ (q \o <<t>>)[1] = q[1]
               \/ (q \o <<t>>)[i] = t
    <3>1. CASE i <= Len(q)
      BY <2>3, <2>4, <3>1
    <3>2. CASE ~(i <= Len(q))
      <4>1. i = Len(q) + 1 /\ i - Len(q) = 1
        BY <2>4, <3>2
      <4> QED
        BY <2>2, <2>3, <3>2, <4>1
    <3> QED
      BY <3>1, <3>2
  <2>6. Ends(r, s, q \o <<t>>)
    BY <1>5, <2>1, <2>3, <2>4, <2>5 DEF Ends
  <2> QED
    BY <2>6 DEF q, t
<1> QED
  BY <1>4, <1>5

(* Emit completes the client of the replica. *)
LEMMA EmitOutcome ==
  ASSUME NEW r \in Replica, NEW m, NEW s \in ClientState,
         IF N > 1 THEN IsClosing(m) ELSE s.seen = Batch
  PROVE  /\ OutcomeOK(r, m, s, Emit(r, s, <<>>))
         /\ \A n \in Nat, sum \in 0 .. Total :
              N > 1 => OutcomeOK(r, m, s, Emit(r, s, <<Token(r, n, sum, TRUE)>>))
<1>1. ASSUME NEW q, Len(q) \in Nat, Ends(r, s, Emission(r, s) \o q)
      PROVE  OutcomeOK(r, m, s, Emit(r, s, q))
  <2> DEFINE n == s.outSeq + Len(Emission(r, s)) + Len(q)
             t == [s EXCEPT !.initiator = FALSE, !.cached = 0, !.outSeq = n]
  <2>1. n \in Nat
    <3>1. s.outSeq \in Nat
      BY ClientFields
    <3>2. Len(Emission(r, s)) \in Nat
      <4>1. Emission(r, s) \in Seq(OutMessages)
        BY EmissionEnds
      <4> QED
        BY <4>1
    <3> QED
      BY <1>1, <3>1, <3>2
  <2>2. Emit(r, s, q) = [state |-> t, sends |-> Emission(r, s) \o q, end |-> "complete"]
    BY DEF Emit, Outcome
  <2> HIDE DEF n
  <2>3. t \in ClientState /\ t.seen = s.seen /\ t.count = s.count /\ t.coord = s.coord
    BY <2>1, ClientUpdates DEF ClientState
  <2> HIDE DEF t
  <2> QED
    BY <1>1, <2>2, <2>3 DEF OutcomeOK
<1>2. Emission(r, s) \o <<>> = Emission(r, s)
  BY EmissionEnds DEF Ends
<1>3. OutcomeOK(r, m, s, Emit(r, s, <<>>))
  BY <1>1, <1>2, EmissionEnds
<1>4. ASSUME NEW n \in Nat, NEW sum \in 0 .. Total, N > 1
      PROVE  OutcomeOK(r, m, s, Emit(r, s, <<Token(r, n, sum, TRUE)>>))
  BY <1>1, <1>4, EmissionEnds
<1> QED
  BY <1>3, <1>4
(* A token counts what is kept on its way, and the total is everything.       *)
LEMMA PassedCount ==
  ASSUME NEW r \in Replica, NEW seen \in SUBSET HomeOf(r)
  PROVE  /\ Passed(r) \in SUBSET Batch /\ Passed(r) \cup seen \in SUBSET Batch
         /\ Cardinality(Passed(r) \cup seen) = Cardinality(Passed(r)) + Cardinality(seen)
         /\ Cardinality(Passed(r)) \in Nat /\ Cardinality(seen) \in Nat
         /\ Cardinality(Passed(r)) + Cardinality(seen) <= Total
         /\ r # 0 => KeptBy(r - 1) = Passed(r)
         /\ \A x \in Replica : KeptBy(x) \in SUBSET Batch
<1>1. Passed(r) \in SUBSET Batch /\ seen \in SUBSET Batch /\ Passed(r) \cap seen = {}
  BY ReplicaFacts DEF Passed, HomeOf
<1>2. Cardinality(Passed(r) \cup seen) = Cardinality(Passed(r)) + Cardinality(seen)
  BY <1>1, DisjointBatches
<1>3. Cardinality(Passed(r)) \in Nat /\ Cardinality(seen) \in Nat /\ Cardinality(Passed(r) \cup seen) <= Total
  BY <1>1, FiniteBatches
<1>4. r # 0 => KeptBy(r - 1) = Passed(r)
  <2>1. \A b \in Batch : home[b] \in Nat /\ r \in Nat
    BY ReplicaFacts
  <2>2. \A b \in Batch : home[b] <= r - 1 <=> home[b] < r
    BY <2>1
  <2> QED
    BY <2>2 DEF KeptBy, Passed
<1> QED
  BY <1>1, <1>2, <1>3, <1>4 DEF KeptBy

LEMMA AllIsKept ==
  ASSUME Cardinality(KeptBy(N - 1)) >= Total
  PROVE  AllKept
<1>1. KeptBy(N - 1) \in SUBSET Batch
  BY DEF KeptBy
<1>2. KeptBy(N - 1) = Batch
  BY <1>1, TotalIsAll
<1> QED
  BY <1>2 DEF KeptBy, AllKept

(* The outcomes that go on: a token, or the EOF again. *)
LEMMA ForwardOutcome ==
  ASSUME NEW r \in Replica, NEW m, IsOpen(m), NEW s \in ClientState, NEW t \in ClientState,
         t.seen = s.seen, t.count = s.count, t.coord = s.coord
  PROVE  /\ \A n \in Nat : r = 0 /\ t.outSeq = s.outSeq => OutcomeOK(r, m, s, Outcome(t, <<EOFMsg(n)>>, "forward"))
         /\ \A n \in Nat, sum \in 0 .. Total :
              N > 1 /\ sum <= Cardinality(Passed(r) \cup s.seen)
                => OutcomeOK(r, m, s, Outcome(t, <<Token(r, n, sum, FALSE)>>, "forward"))
         /\ \A n \in Nat, sum \in 0 .. Total :
              N > 1 /\ AllKept => OutcomeOK(r, m, s, Outcome(t, <<Token(r, n, sum, TRUE)>>, "forward"))
<1>1. ASSUME NEW x \in ClientMessages, NEW q, q = <<x>>, Forwards(r, s, q), N = 1 => t.outSeq = s.outSeq
      PROVE  OutcomeOK(r, m, s, Outcome(t, q, "forward"))
  BY <1>1 DEF OutcomeOK, Outcome
<1>2. ASSUME NEW n \in Nat, r = 0, t.outSeq = s.outSeq
      PROVE  OutcomeOK(r, m, s, Outcome(t, <<EOFMsg(n)>>, "forward"))
  <2>1. EOFMsg(n) \in ClientMessages /\ EOFMsg(n).type = "eof"
    BY MessagesSent
  <2>2. Forwards(r, s, <<EOFMsg(n)>>)
    BY <1>2, <2>1 DEF Forwards
  <2> QED
    BY <1>1, <1>2, <2>1, <2>2
<1>3. ASSUME NEW n \in Nat, NEW sum \in 0 .. Total, NEW c \in BOOLEAN, N > 1,
             c => AllKept, ~c => sum <= Cardinality(Passed(r) \cup s.seen)
      PROVE  OutcomeOK(r, m, s, Outcome(t, <<Token(r, n, sum, c)>>, "forward"))
  <2> DEFINE x == Token(r, n, sum, c)
  <2>1. x \in ClientMessages /\ x.type = "token" /\ x.sender = r /\ x.sum = sum /\ x.closing = c
    BY MessagesSent
  <2> HIDE DEF x
  <2>2. Forwards(r, s, <<x>>)
    BY <1>3, <2>1 DEF Forwards
  <2>3. OutcomeOK(r, m, s, Outcome(t, <<x>>, "forward"))
    BY <1>1, <1>3, <2>1, <2>2
  <2> QED
    BY <2>3 DEF x
<1>4. TRUE \in BOOLEAN /\ FALSE \in BOOLEAN
  OBVIOUS
<1>5. ASSUME NEW n \in Nat, NEW sum \in 0 .. Total, N > 1, sum <= Cardinality(Passed(r) \cup s.seen)
      PROVE  OutcomeOK(r, m, s, Outcome(t, <<Token(r, n, sum, FALSE)>>, "forward"))
  BY <1>3, <1>4, <1>5
<1>6. ASSUME NEW n \in Nat, NEW sum \in 0 .. Total, N > 1, AllKept
      PROVE  OutcomeOK(r, m, s, Outcome(t, <<Token(r, n, sum, TRUE)>>, "forward"))
  BY <1>3, <1>4, <1>6
<1> QED
  BY <1>2, <1>5, <1>6

(* tryFinalize: at the total everything is kept. *)
LEMMA TryFinalizeOutcome ==
  ASSUME NEW m, IsOpen(m), NEW s \in ClientState, s.seen \subseteq HomeOf(0), NEW sum \in 0 .. Total,
         N > 1 => sum <= Cardinality(KeptBy(N - 1)), N = 1 => sum = Seen(s)
  PROVE  OutcomeOK(0, m, s, TryFinalize(s, sum))
<1>1. 0 \in Replica /\ N \in Nat /\ N >= 1 /\ Total \in Nat
  BY ReplicaFacts, FiniteBatches
<1>2. s.outSeq \in Nat /\ s.outSeq + 1 \in Nat /\ RetrySeq(s) \in Nat /\ s.seen \in SUBSET Batch
  BY ClientFields
<1>3. CASE sum # Total
  <2> DEFINE t == [s EXCEPT !.initiator = FALSE, !.cached = 0]
  <2>1. t \in ClientState /\ t.seen = s.seen /\ t.count = s.count /\ t.coord = s.coord /\ t.outSeq = s.outSeq
    BY ClientUpdates DEF ClientState
  <2>2. TryFinalize(s, sum) = Outcome(t, <<EOFMsg(RetrySeq(s))>>, "forward")
    BY <1>3 DEF TryFinalize
  <2> HIDE DEF t
  <2> QED
    BY <1>1, <1>2, <2>1, <2>2, ForwardOutcome
<1>4. CASE sum = Total /\ N > 1
  <2> DEFINE n == s.outSeq + 1
             t == [s EXCEPT !.outSeq = n]
  <2>1. t \in ClientState /\ t.seen = s.seen /\ t.count = s.count /\ t.coord = s.coord
    BY <1>2, ClientUpdates DEF ClientState
  <2>2. TryFinalize(s, sum) = Outcome(t, <<Token(0, n, sum, TRUE)>>, "forward")
    BY <1>4 DEF TryFinalize
  <2>3. AllKept
    <3>1. N - 1 \in Replica /\ KeptBy(N - 1) \in SUBSET Batch
      BY ReplicaFacts DEF KeptBy
    <3>2. Cardinality(KeptBy(N - 1)) \in Nat
      BY <3>1, FiniteBatches
    <3> QED
      BY <1>1, <1>4, <3>2, AllIsKept
  <2>4. n \in Nat
    BY <1>2
  <2> HIDE DEF t, n
  <2> QED
    BY <1>1, <1>4, <2>1, <2>2, <2>3, <2>4, ForwardOutcome
<1>5. CASE sum = Total /\ ~(N > 1)
  <2>1. N = 1
    BY <1>1, <1>5
  <2>2. s.seen = Batch
    BY <1>2, <1>5, <2>1, TotalIsAll, FiniteBatches DEF Seen
  <2>3. TryFinalize(s, sum) = Emit(0, s, <<>>)
    BY <1>5 DEF TryFinalize
  <2> QED
    BY <1>1, <1>5, <2>2, <2>3, EmitOutcome
<1> QED
  BY <1>3, <1>4, <1>5

(* OnUpstreamEOF *)
LEMMA UpstreamEOFOutcome ==
  ASSUME NEW m, IsOpen(m), NEW s \in ClientState, s.seen \subseteq HomeOf(0)
  PROVE  OutcomeOK(0, m, s, UpstreamEOF(s))
<1>1. 0 \in Replica /\ N \in Nat /\ N >= 1 /\ Seen(s) \in 0 .. Total
  BY ReplicaFacts, ClientFields
<1>2. CASE N = 1
  BY <1>1, <1>2, TryFinalizeOutcome DEF UpstreamEOF
<1>3. CASE N # 1
  <2> DEFINE n == s.outSeq + 1
             t == [s EXCEPT !.outSeq = n]
  <2>1. n \in Nat
    BY ClientFields
  <2>2. t \in ClientState /\ t.seen = s.seen /\ t.count = s.count /\ t.coord = s.coord
    BY <2>1, ClientUpdates DEF ClientState
  <2>3. UpstreamEOF(s) = Outcome(t, <<Token(0, n, Seen(s), FALSE)>>, "forward")
    BY <1>3 DEF UpstreamEOF
  <2>4. Seen(s) <= Cardinality(Passed(0) \cup s.seen)
    BY <1>1, PassedCount DEF Seen
  <2>5. N > 1
    BY <1>1, <1>3
  <2> DEFINE sum == Seen(s)
  <2>6. sum \in 0 .. Total
    BY <1>1
  <2> HIDE DEF t, n, sum
  <2>7. OutcomeOK(0, m, s, Outcome(t, <<Token(0, n, sum, FALSE)>>, "forward"))
    <3>1. sum <= Cardinality(Passed(0) \cup s.seen)
      BY <2>4 DEF sum
    <3> QED
      BY <1>1, <2>1, <2>2, <2>5, <2>6, <3>1, ForwardOutcome
  <2> QED
    BY <2>3, <2>7 DEF sum
<1> QED
  BY <1>2, <1>3

(* OnRingToken and onClosingToken *)
LEMMA RingTokenOutcome ==
  ASSUME NEW r \in Replica, NEW m \in ClientMessages, m.type = "token", r = Successor(m.sender), TokenOK(m),
         NEW s \in ClientState, s.seen \subseteq HomeOf(r)
  PROVE  OutcomeOK(r, m, s, RingToken(r, s, m))
<1>1. /\ N \in Nat /\ N > 1 /\ N - 1 \in Replica /\ 0 \in Replica /\ Total \in Nat
      /\ m.sender \in Replica /\ m.sum \in 0 .. Total /\ m.closing \in BOOLEAN
      /\ IsOpen(m) <=> ~m.closing
      /\ IsClosing(m) <=> m.closing
  <2>1. m \in Messages
    BY MessagesSent
  <2> QED
    BY <2>1, ReplicaFacts, MessageIs, FiniteBatches DEF TokenOK, IsOpen, IsClosing
<1>2. /\ r = 0 => m.sender = N - 1
      /\ r # 0 => m.sender = r - 1
  BY <1>1, SuccessorIs, ReplicaFacts DEF Replica
<1>3. /\ Seen(s) \in Nat /\ s.outSeq \in Nat
      /\ Passed(r) \in SUBSET Batch /\ Cardinality(Passed(r)) \in Nat
      /\ Cardinality(Passed(r) \cup s.seen) = Cardinality(Passed(r)) + Seen(s)
      /\ Cardinality(Passed(r)) + Seen(s) <= Total
  BY PassedCount, ClientFields DEF Seen
<1>4. CASE m.closing
  <2>1. CASE r = 0
    BY <1>1, <1>4, <2>1, EmitOutcome DEF RingToken
  <2>2. CASE r # 0
    <3> DEFINE n == s.outSeq + Len(Emission(r, s)) + 1
    <3>1. n \in Nat
      <4>1. Emission(r, s) \in Seq(OutMessages)
        BY EmissionEnds
      <4>2. Len(Emission(r, s)) \in Nat
        BY <4>1
      <4> QED
        BY <1>3, <4>2
    <3>2. RingToken(r, s, m) = Emit(r, s, <<Token(r, n, m.sum, TRUE)>>)
      BY <1>4, <2>2 DEF RingToken
    <3> HIDE DEF n
    <3> QED
      BY <1>1, <1>4, <3>1, <3>2, EmitOutcome
  <2> QED
    BY <2>1, <2>2
<1>5. CASE ~m.closing
  <2>1. CASE r = 0 /\ s.initiator
    <3>1. RingToken(r, s, m) = TryFinalize(s, m.sum)
      BY <1>5, <2>1 DEF RingToken
    <3>2. m.sum <= Cardinality(KeptBy(N - 1))
      BY <1>2, <1>5, <2>1 DEF TokenOK
    <3> QED
      BY <1>1, <1>5, <2>1, <3>1, <3>2, TryFinalizeOutcome
  <2>2. CASE r = 0 /\ ~s.initiator
    <3>1. RingToken(r, s, m) = Outcome(s, <<>>, "checkpoint")
      BY <1>5, <2>2 DEF RingToken
    <3> QED
      BY <3>1 DEF OutcomeOK, Outcome
  <2>3. CASE r # 0
    <3> DEFINE n == s.outSeq + 1
               t == [s EXCEPT !.outSeq = n]
               sum == m.sum + Seen(s)
    <3>1. n \in Nat
      BY <1>3
    <3>2. t \in ClientState /\ t.seen = s.seen /\ t.count = s.count /\ t.coord = s.coord
      BY <3>1, ClientUpdates DEF ClientState
    <3>3. RingToken(r, s, m) = Outcome(t, <<Token(r, n, sum, FALSE)>>, "forward")
      BY <1>5, <2>3 DEF RingToken
    <3>4. m.sum <= Cardinality(Passed(r))
      BY <1>2, <1>5, <2>3, PassedCount DEF TokenOK
    <3>5. sum \in 0 .. Total /\ sum <= Cardinality(Passed(r) \cup s.seen)
      BY <1>1, <1>3, <3>4
    <3> HIDE DEF t, n, sum
    <3> QED
      BY <1>1, <1>5, <3>1, <3>2, <3>3, <3>5, ForwardOutcome
  <2> QED
    BY <2>1, <2>2, <2>3
<1> QED
  BY <1>1, <1>4, <1>5
-----------------------------------------------------------------------------
(* A step of one replica leaves the others alone. *)

Same(s) ==
  /\ inbox'[s] = inbox[s] /\ pending'[s] = pending[s] /\ mem'[s] = mem[s] /\ disk'[s] = disk[s]
  /\ outbox'[s] = outbox[s] /\ handler'[s] = handler[s] /\ (s \in tomb' <=> s \in tomb)

Elsewhere(r) == \A s \in Replica : s # r => Same(s)

(* A step that sends nothing, and puts no end to a client: it forgets         *)
(* messages and keeps what was saved.                                         *)
QuietAt(s) ==
  /\ \A m \in Coming(s)' : m.type \in {"batch", "eof", "token"} => m \in Coming(s)
  /\ outbox'[s] \in {outbox[s], <<>>}
  /\ handler'[s].end = "complete" => handler[s].end = "complete"
  /\ s \in tomb => s \in tomb'
  /\ s \in tomb' => s \in tomb \/ handler[s].end = "complete"
  /\ Protected /\ s \notin tomb' =>
                       /\ Saved(s).seen \subseteq Saved(s)'.seen
                       /\ Saved(s)'.outSeq = Saved(s).outSeq
                       /\ \A x \in Sender : Saved(s).coord[x] <= Saved(s)'.coord[x]

LEMMA SameIsKept ==
  ASSUME TypeOK, NEW s \in Replica, SelfAt(s), Same(s), fetched' = 2 * s + 1 => fetched = 2 * s + 1
  PROVE  SelfAt(s)' /\ QuietAt(s)
<1>1. RatesAt(s)'
  BY DEF SelfAt, RatesAt, Same, Coming, RatesCame
<1>2. ReadyAt(s)'
  BY DEF SelfAt, ReadyAt, Same
<1>3. HandlerAt(s)'
  BY DEF SelfAt, HandlerAt, Same, Unacked
<1>4. StateAt(s)'
  BY DEF SelfAt, StateAt, Same, Saved
<1>5. CountAt(s)'
  BY DEF SelfAt, CountAt, Same, Counted
<1>6. QuietAt(s)
  <2>1. Saved(s)' = Saved(s) /\ Coming(s)' = Coming(s)
    BY DEF Same, Saved, Coming
  <2>2. Saved(s) \in ClientState
    BY TypesAre
  <2>3. \A x \in Sender : Saved(s).coord[x] \in Nat
    BY <2>2, ClientFields
  <2> QED
    BY <2>1, <2>3 DEF Same, QuietAt
<1> QED
  BY <1>1, <1>2, <1>3, <1>4, <1>5, <1>6 DEF SelfAt

(* The fields of a worker's state and files, and their updates.               *)
LEMMA StateFields ==
  ASSUME NEW s \in State
  PROVE  /\ s.client \in ClientState /\ s.conversions.rates \in BOOLEAN /\ s.conversions.eof \in BOOLEAN
         /\ s.rates \in BOOLEAN /\ s.ready \in BOOLEAN /\ s.started \in BOOLEAN
         /\ s.conversions \in [rates : BOOLEAN, eof : BOOLEAN]
  BY DEF State

LEMMA ClientFieldsUpdated ==
  ASSUME NEW s \in ClientState
  PROVE  /\ \A A, n : LET t == [s EXCEPT !.seen = A, !.count = n]
                     IN /\ t.seen = A /\ t.count = n /\ t.outSeq = s.outSeq /\ t.coord = s.coord
         /\ \A x \in Sender : \A n :
              LET t == [s EXCEPT !.coord[x] = n]
              IN /\ t.seen = s.seen /\ t.count = s.count /\ t.outSeq = s.outSeq
                 /\ t.coord = [s.coord EXCEPT ![x] = n]
         /\ \A i, k : LET t == [s EXCEPT !.initiator = i, !.cached = k]
                     IN t.seen = s.seen /\ t.count = s.count /\ t.outSeq = s.outSeq /\ t.coord = s.coord
  BY DEF ClientState

LEMMA StateUpdates ==
  ASSUME NEW s \in State
  PROVE  /\ \A c \in ClientState : /\ [s EXCEPT !.client = c] \in State
                                   /\ [s EXCEPT !.client = c].client = c
                                   /\ [s EXCEPT !.client = c].conversions = s.conversions
                                   /\ [s EXCEPT !.client = c].rates = s.rates
                                   /\ [s EXCEPT !.client = c].started = s.started
         /\ LET t == [s EXCEPT !.rates = TRUE, !.conversions.rates = TRUE]
            IN t \in State /\ t.client = s.client /\ t.rates /\ t.started = s.started /\ t.conversions.rates
         /\ LET t == [s EXCEPT !.ready = TRUE, !.started = TRUE, !.conversions.eof = TRUE]
            IN /\ t \in State /\ t.client = s.client /\ t.rates = s.rates /\ t.started
               /\ t.conversions.rates = s.conversions.rates
<1>1. \A c \in ClientState : /\ [s EXCEPT !.client = c] \in State
                             /\ [s EXCEPT !.client = c].client = c
                             /\ [s EXCEPT !.client = c].conversions = s.conversions
                             /\ [s EXCEPT !.client = c].rates = s.rates
                             /\ [s EXCEPT !.client = c].started = s.started
  BY DEF State
<1>2. LET t == [s EXCEPT !.rates = TRUE, !.conversions.rates = TRUE]
      IN t \in State /\ t.client = s.client /\ t.rates /\ t.started = s.started /\ t.conversions.rates
  BY DEF State
<1>3. LET t == [s EXCEPT !.ready = TRUE, !.started = TRUE, !.conversions.eof = TRUE]
      IN /\ t \in State /\ t.client = s.client /\ t.rates = s.rates /\ t.started
         /\ t.conversions.rates = s.conversions.rates
  BY DEF State
<1> QED
  BY <1>1, <1>2, <1>3

WithCheckpoint(d, o, s) == [d EXCEPT ![o] = [exists |-> TRUE, state |-> s]]
WithGlobal(d, r) == [d EXCEPT !.global = GlobalState(r)]
Completed(d, r) == [d EXCEPT !.client = NoFile, !.global = GlobalState(r)]

LEMMA CheckpointFile ==
  ASSUME NEW d \in FileSet, NEW o \in Owners, NEW s \in State
  PROVE  /\ WithCheckpoint(d, o, s) \in FileSet
         /\ WithCheckpoint(d, o, s)[o].exists /\ WithCheckpoint(d, o, s)[o].state = s
         /\ \A p \in Owners : p # o => WithCheckpoint(d, o, s)[p] = d[p]
<1> DEFINE x == [exists |-> TRUE, state |-> s]
           f == WithCheckpoint(d, o, s)
<1>1. x \in File /\ x.exists /\ x.state = s
  BY DEF File
<1>2. f = [d EXCEPT ![o] = x]
  BY DEF WithCheckpoint
<1> HIDE DEF x, f
<1>5. f \in FileSet /\ f[o].exists /\ f[o].state = s /\ \A p \in Owners : p # o => f[p] = d[p]
  <2>1. CASE o = "client"
    BY <1>1, <1>2, <2>1 DEF FileSet, Owners
  <2>2. CASE o = "conversions"
    BY <1>1, <1>2, <2>2 DEF FileSet, Owners
  <2> QED
    BY <2>1, <2>2 DEF Owners
<1> QED
  BY <1>5 DEF f

LEMMA GlobalFile ==
  ASSUME NEW d \in FileSet, NEW r
  PROVE  /\ WithGlobal(d, r) \in FileSet
         /\ WithGlobal(d, r).client = d.client /\ WithGlobal(d, r).conversions = d.conversions
         /\ Completed(d, r) \in FileSet
         /\ Completed(d, r).client = NoFile /\ Completed(d, r).conversions = d.conversions
<1>1. GlobalState(r) \in {"none", "empty", "rates"} /\ NoFile \in File
  BY FreshTypes DEF GlobalState
<1>2. /\ WithGlobal(d, r) \in FileSet
      /\ WithGlobal(d, r).client = d.client /\ WithGlobal(d, r).conversions = d.conversions
  BY <1>1 DEF FileSet, WithGlobal
<1>3. /\ Completed(d, r) \in FileSet
      /\ Completed(d, r).client = NoFile /\ Completed(d, r).conversions = d.conversions
  BY <1>1 DEF FileSet, Completed
<1> QED
  BY <1>2, <1>3

LEMMA LoadIs ==
  ASSUME NEW d \in FileSet
  PROVE  /\ Load(d) \in State
         /\ Load(d).client = d.client.state.client /\ Load(d).conversions = d.conversions.state.conversions
         /\ d.conversions.exists => Load(d).started
<1>1. d.client.state \in State /\ d.conversions.state \in State
  BY DEF FileSet, File
<1>2. d.client.state.client \in ClientState /\ d.conversions.state.conversions \in [rates : BOOLEAN, eof : BOOLEAN]
  BY <1>1, StateFields
<1>3. Load(d) \in State
  BY <1>2 DEF Load, State
<1>4. /\ Load(d).client = d.client.state.client /\ Load(d).conversions = d.conversions.state.conversions
      /\ d.conversions.exists => Load(d).started
  BY DEF Load, Owners
<1> QED
  BY <1>3, <1>4
-----------------------------------------------------------------------------
(* The handlers of a replica that send nothing *)

StepOf(r) ==
  /\ TypeOK' /\ Elsewhere(r)
  /\ fetched' = fetched /\ results' = results /\ agg' = agg /\ answer' = answer

LEMMA DiscardStep ==
  ASSUME TypeOK, NEW r \in Replica, NEW m \in inbox[r], SelfAt(r), Discard(r, m)
  PROVE  StepOf(r) /\ SelfAt(r)' /\ QuietAt(r)
<1>1. /\ inbox' = [inbox EXCEPT ![r] = @ \ {m}] /\ handler[r] = Idle
      /\ m = RatesEOF => Rates \notin inbox[r]
      /\ m = Rates => Discarded(r, m)
      /\ UNCHANGED <<fetched, pending, mem, disk, tomb, outbox, handler, aggregatorVars, crashes, refetches>>
  BY DEF Discard, Deliverable
<1>2. UNCHANGED <<results, agg, answer>>
  BY <1>1 DEF aggregatorVars
<1>3. StepOf(r)
  <2>1. inbox' \in [Replica -> SUBSET Messages]
    BY <1>1 DEF TypeOK
  <2>2. TypeOK'
    BY <1>1, <1>2, <2>1 DEF TypeOK
  <2>3. Elsewhere(r)
    BY <1>1 DEF TypeOK, Elsewhere, Same
  <2> QED
    BY <1>1, <1>2, <2>2, <2>3 DEF StepOf
<1>4. inbox'[r] = inbox[r] \ {m}
  BY <1>1 DEF TypeOK
<1>5. m = Rates => mem[r].conversions.rates
  <2>1. Rates # RatesEOF /\ Owner(Rates) # "client" /\ Rates.type \notin {"batch", "eof", "token"}
    BY DEF Rates, RatesEOF, Owner
  <2> QED
    BY <1>1, <2>1 DEF Discarded
<1>6. RatesAt(r)'
  <2>1. Coming(r)' = Coming(r) \/ Coming(r)' = Coming(r) \ {m}
    BY <1>1, <1>4 DEF Coming
  <2>2. RatesCame(r) => RatesCame(r)'
    BY <1>1, <1>4, <1>5 DEF SelfAt, RatesAt, RatesCame, Coming
  <2> QED
    BY <1>1, <2>1, <2>2 DEF SelfAt, RatesAt
<1>7. ReadyAt(r)' /\ HandlerAt(r)' /\ StateAt(r)' /\ CountAt(r)'
  BY <1>1 DEF SelfAt, ReadyAt, HandlerAt, StateAt, CountAt, Saved, Unacked, Counted
<1>8. QuietAt(r)
  <2>1. Saved(r)' = Saved(r)
    BY <1>1 DEF Saved
  <2>2. \A x \in Sender : Saved(r).coord[x] \in Nat
    BY TypesAre, ClientFields
  <2> QED
    BY <1>1, <1>4, <2>1, <2>2 DEF QuietAt, Coming
<1> QED
  BY <1>3, <1>6, <1>7, <1>8 DEF SelfAt

(* A message that is accepted is kept until the checkpoint acknowledges it.   *)
LEMMA AcceptFacts ==
  ASSUME TypeOK, NEW r \in Replica, NEW m \in inbox[r], NEW type, Accept(r, m, type)
  PROVE  /\ m \in Messages /\ m.type = type /\ handler[r] = Idle /\ ~Discarded(r, m)
         /\ m.type \in {"batch", "eof"} => mem[r].started
         /\ m = RatesEOF => Rates \notin inbox[r]
         /\ inbox' \in [Replica -> SUBSET Messages] /\ pending' \in [Replica -> SUBSET Messages]
         /\ inbox'[r] = inbox[r] \ {m} /\ pending'[r] = pending[r] \cup {m}
         /\ Coming(r)' = Coming(r) /\ m \in Coming(r)
         /\ \A s \in Replica : s # r => inbox'[s] = inbox[s] /\ pending'[s] = pending[s]
         /\ UNCHANGED <<fetched, disk, tomb, results, agg, answer, crashes, refetches>>
<1>1. m \in Messages
  BY TypesAre
<1>2. /\ m.type = type /\ handler[r] = Idle /\ ~Discarded(r, m)
      /\ m.type \in {"batch", "eof"} => mem[r].started
      /\ m = RatesEOF => Rates \notin inbox[r]
      /\ UNCHANGED <<fetched, disk, tomb, results, agg, answer, crashes, refetches>>
  BY DEF Accept, Deliverable, aggregatorVars
<1>3. /\ inbox' = [inbox EXCEPT ![r] = @ \ {m}] /\ pending' = [pending EXCEPT ![r] = @ \cup {m}]
  BY DEF Accept
<1>4. inbox' \in [Replica -> SUBSET Messages] /\ pending' \in [Replica -> SUBSET Messages]
  BY <1>1, <1>3 DEF TypeOK
<1>5. /\ inbox'[r] = inbox[r] \ {m} /\ pending'[r] = pending[r] \cup {m}
      /\ \A s \in Replica : s # r => inbox'[s] = inbox[s] /\ pending'[s] = pending[s]
  BY <1>3 DEF TypeOK
<1>6. Coming(r)' = Coming(r) /\ m \in Coming(r)
  BY <1>5 DEF Coming
<1> QED
  BY <1>1, <1>2, <1>4, <1>5, <1>6

LEMMA HandleBatchStep ==
  ASSUME TypeOK, NEW r \in Replica, NEW m \in inbox[r], SelfAt(r), HandleBatch(r, m),
         m.batch \in HomeOf(r)
  PROVE  StepOf(r) /\ SelfAt(r)' /\ QuietAt(r)
<1>1. Accept(r, m, "batch") /\ UNCHANGED <<outbox, handler>>
  BY DEF HandleBatch
<1> DEFINE c == mem[r].client
           k == c.count + (IF Matches(r, m.batch) THEN 1 ELSE 0)
           d == [c EXCEPT !.seen = c.seen \cup {m.batch}, !.count = k]
<1>2. c \in ClientState /\ c.seen \in SUBSET Batch /\ c.count \in Nat /\ mem[r] \in State
  BY TypesAre, ClientFields
<1>3. m.batch \in Batch /\ home[m.batch] = r /\ m.batch \notin c.seen /\ r \notin tomb /\ mem[r].started
  BY <1>1, AcceptFacts, MessageIs DEF HomeOf, Discarded
<1>4. k \in Nat
  BY <1>2
<1>5. /\ d \in ClientState /\ d.seen = c.seen \cup {m.batch} /\ d.count = k
      /\ d.outSeq = c.outSeq /\ d.coord = c.coord
  <2> DEFINE A == c.seen \cup {m.batch}
  <2>1. A \in SUBSET Batch
    BY <1>2, <1>3
  <2>2. d = [c EXCEPT !.seen = A, !.count = k]
    OBVIOUS
  <2> HIDE DEF k, A, c, d
  <2>3. d \in ClientState
    BY <1>2, <1>4, <2>1, <2>2, ClientUpdates
  <2>4. d.seen = A /\ d.count = k /\ d.outSeq = c.outSeq /\ d.coord = c.coord
    BY <1>2, <2>2, ClientFieldsUpdated
  <2> QED
    BY <2>3, <2>4 DEF A
<1>6. mem' = [mem EXCEPT ![r] = [mem[r] EXCEPT !.client = d]]
  BY DEF HandleBatch
<1> HIDE DEF d
<1>7. mem' \in [Replica -> State] /\ mem'[r].client = d /\ mem'[r].conversions = mem[r].conversions
      /\ mem'[r].rates = mem[r].rates /\ mem'[r].started = mem[r].started
      /\ \A s \in Replica : s # r => mem'[s] = mem[s]
  <2>1. [mem[r] EXCEPT !.client = d] \in State
    BY <1>2, <1>5, StateUpdates
  <2>2. mem' \in [Replica -> State] /\ mem'[r] = [mem[r] EXCEPT !.client = d]
        /\ \A s \in Replica : s # r => mem'[s] = mem[s]
    BY <1>6, <2>1 DEF TypeOK
  <2>3. LET t == [mem[r] EXCEPT !.client = d]
        IN t.client = d /\ t.conversions = mem[r].conversions /\ t.rates = mem[r].rates /\ t.started = mem[r].started
    BY <1>2, <1>5, StateUpdates
  <2> QED
    BY <2>2, <2>3
<1>8. StepOf(r)
  <2>1. TypeOK'
    BY <1>1, <1>7, AcceptFacts DEF TypeOK
  <2>2. Elsewhere(r)
    BY <1>1, <1>7, AcceptFacts DEF Elsewhere, Same
  <2> QED
    BY <1>1, <2>1, <2>2, AcceptFacts DEF StepOf
<1>9. /\ Coming(r)' = Coming(r) /\ disk'[r] = disk[r] /\ handler'[r] = Idle /\ handler[r] = Idle
      /\ outbox'[r] = outbox[r] /\ (r \in tomb' <=> r \in tomb) /\ fetched' = fetched
      /\ pending'[r] = pending[r] \cup {m} /\ m # Rates /\ m # RatesEOF /\ outbox[r] = <<>>
  <2>1. m # Rates /\ m # RatesEOF
    BY <1>1, AcceptFacts DEF Rates, RatesEOF
  <2>2. outbox[r] = <<>>
    BY <1>1, AcceptFacts DEF SelfAt, HandlerAt, Idle
  <2> QED
    BY <1>1, <2>1, <2>2, AcceptFacts
<1>10. Saved(r)' = Saved(r)
  BY <1>9 DEF Saved, Idle
<1>11. RatesAt(r)'
  BY <1>7, <1>9 DEF SelfAt, RatesAt, RatesCame
<1>12. ReadyAt(r)'
  BY <1>7, <1>9 DEF SelfAt, ReadyAt
<1>13. HandlerAt(r)'
  BY <1>3, <1>9 DEF HandlerAt, Idle
<1>14. StateAt(r)'
  BY <1>3, <1>5, <1>7, <1>9, <1>10 DEF SelfAt, StateAt, Idle, HomeOf
<1>15. CountAt(r)'
  <2> SUFFICES ASSUME Protected
               PROVE  Counted(r, d)
    BY <1>7, <1>9 DEF SelfAt, CountAt, Counted
  <2>1. Matches(r, m.batch) <=> m.batch \in Micro
    BY <1>3 DEF SelfAt, ReadyAt, Matches
  <2>2. c.count = Cardinality(c.seen \cap Micro)
    BY DEF SelfAt, CountAt, Counted
  <2>3. CASE m.batch \in Micro
    <3>1. d.seen \cap Micro = (c.seen \cap Micro) \cup {m.batch} /\ m.batch \notin c.seen \cap Micro
      BY <1>3, <1>5, <2>3
    <3>2. IsFiniteSet(c.seen \cap Micro)
      BY <1>2, FiniteBatches
    <3>3. Cardinality(d.seen \cap Micro) = Cardinality(c.seen \cap Micro) + 1
      BY <3>1, <3>2, FS_AddElement
    <3> QED
      BY <1>5, <2>1, <2>2, <2>3, <3>3 DEF Counted
  <2>4. CASE m.batch \notin Micro
    <3>1. d.seen \cap Micro = c.seen \cap Micro
      BY <1>5, <2>4
    <3>2. k = c.count
      BY <1>2, <2>1, <2>4
    <3> QED
      BY <1>5, <2>2, <3>1, <3>2 DEF Counted
  <2> QED
    BY <2>3, <2>4
<1>16. QuietAt(r)
  <2>1. \A x \in Sender : Saved(r).coord[x] \in Nat
    BY TypesAre, ClientFields
  <2> QED
    BY <1>9, <1>10, <2>1 DEF QuietAt
<1> QED
  BY <1>8, <1>11, <1>12, <1>13, <1>14, <1>15, <1>16 DEF SelfAt

LEMMA HandleRatesStep ==
  ASSUME TypeOK, NEW r \in Replica, NEW m \in inbox[r], SelfAt(r), HandleRates(r, m)
  PROVE  StepOf(r) /\ SelfAt(r)' /\ QuietAt(r)
<1>1. Accept(r, m, "rates") /\ UNCHANGED <<outbox, handler>>
  BY DEF HandleRates
<1> DEFINE t == [mem[r] EXCEPT !.rates = TRUE, !.conversions.rates = TRUE]
<1>2. mem[r] \in State
  BY TypesAre
<1>3. t \in State /\ t.client = mem[r].client /\ t.rates /\ t.started = mem[r].started /\ t.conversions.rates
  BY <1>2, StateUpdates
<1>4. mem' = [mem EXCEPT ![r] = t]
  BY DEF HandleRates
<1> HIDE DEF t
<1>5. mem' \in [Replica -> State] /\ mem'[r] = t /\ \A s \in Replica : s # r => mem'[s] = mem[s]
  BY <1>3, <1>4 DEF TypeOK
<1>6. StepOf(r)
  <2>1. TypeOK'
    BY <1>1, <1>5, AcceptFacts DEF TypeOK
  <2>2. Elsewhere(r)
    BY <1>1, <1>5, AcceptFacts DEF Elsewhere, Same
  <2> QED
    BY <1>1, <2>1, <2>2, AcceptFacts DEF StepOf
<1>7. /\ Coming(r)' = Coming(r) /\ disk'[r] = disk[r] /\ handler'[r] = Idle /\ handler[r] = Idle
      /\ outbox'[r] = outbox[r] /\ (r \in tomb' <=> r \in tomb) /\ fetched' = fetched
      /\ pending'[r] = pending[r] \cup {m} /\ m = Rates /\ Owner(m) = "conversions" /\ outbox[r] = <<>>
  <2>1. m = Rates /\ Owner(m) = "conversions"
    BY <1>1, AcceptFacts, MessageIs
  <2>2. outbox[r] = <<>>
    BY <1>1, AcceptFacts DEF SelfAt, HandlerAt, Idle
  <2> QED
    BY <1>1, <2>1, <2>2, AcceptFacts
<1>8. Saved(r)' = Saved(r)
  BY <1>7 DEF Saved, Idle
<1>9. RatesAt(r)'
  BY <1>3, <1>5, <1>7 DEF SelfAt, RatesAt, RatesCame, Idle
<1>10. ReadyAt(r)'
  BY <1>3, <1>5 DEF ReadyAt
<1>11. HandlerAt(r)'
  <2>1. Unacked(r, "client")' = Unacked(r, "client")
    BY <1>7 DEF Unacked
  <2> QED
    BY <1>3, <1>5, <1>7, <2>1 DEF SelfAt, HandlerAt, Idle
<1>12. StateAt(r)'
  BY <1>3, <1>5, <1>7, <1>8 DEF SelfAt, StateAt
<1>13. CountAt(r)'
  BY <1>3, <1>5, <1>7 DEF SelfAt, CountAt, Counted
<1>14. QuietAt(r)
  <2>1. \A x \in Sender : Saved(r).coord[x] \in Nat
    BY TypesAre, ClientFields
  <2> QED
    BY <1>7, <1>8, <2>1 DEF QuietAt
<1> QED
  BY <1>6, <1>9, <1>10, <1>11, <1>12, <1>13, <1>14 DEF SelfAt

LEMMA HandleRatesEOFStep ==
  ASSUME TypeOK, NEW r \in Replica, NEW m \in inbox[r], SelfAt(r), HandleRatesEOF(r, m)
  PROVE  StepOf(r) /\ SelfAt(r)' /\ QuietAt(r)
<1>1. /\ Accept(r, m, "ratesEOF") /\ UNCHANGED outbox
      /\ handler' = [handler EXCEPT ![r] = [end |-> "checkpoint", owner |-> "conversions"]]
  BY DEF HandleRatesEOF
<1> DEFINE t == [mem[r] EXCEPT !.ready = TRUE, !.started = TRUE, !.conversions.eof = TRUE]
<1>2. mem[r] \in State
  BY TypesAre
<1>3. /\ t \in State /\ t.client = mem[r].client /\ t.rates = mem[r].rates /\ t.started
      /\ t.conversions.rates = mem[r].conversions.rates
  BY <1>2, StateUpdates
<1>4. mem' = [mem EXCEPT ![r] = t]
  BY DEF HandleRatesEOF
<1> HIDE DEF t
<1>5. mem' \in [Replica -> State] /\ mem'[r] = t /\ \A s \in Replica : s # r => mem'[s] = mem[s]
  BY <1>3, <1>4 DEF TypeOK
<1> DEFINE h == [end |-> "checkpoint", owner |-> "conversions"]
<1>6. h \in Handlers /\ h.end = "checkpoint" /\ h.owner = "conversions"
  BY DEF Handlers, Owners
<1> HIDE DEF h
<1>7. handler' \in [Replica -> Handlers] /\ handler'[r] = h /\ \A s \in Replica : s # r => handler'[s] = handler[s]
  <2>1. handler' = [handler EXCEPT ![r] = h]
    BY <1>1 DEF h
  <2>2. handler \in [Replica -> Handlers]
    BY DEF TypeOK, Handlers
  <2> QED
    BY <1>6, <2>1, <2>2
<1>8. StepOf(r)
  <2>0. handler' \in [Replica -> [end : {"idle", "checkpoint", "forward", "complete", "global"}, owner : Owners]]
    BY <1>7 DEF Handlers
  <2>1. TypeOK'
    BY <1>1, <1>5, <2>0, AcceptFacts DEF TypeOK
  <2>2. Elsewhere(r)
    BY <1>1, <1>5, <1>7, AcceptFacts DEF Elsewhere, Same
  <2> QED
    BY <1>1, <2>1, <2>2, AcceptFacts DEF StepOf
<1>9. /\ Coming(r)' = Coming(r) /\ disk'[r] = disk[r] /\ handler[r] = Idle
      /\ outbox'[r] = outbox[r] /\ (r \in tomb' <=> r \in tomb) /\ fetched' = fetched
      /\ pending'[r] = pending[r] \cup {m} /\ m = RatesEOF /\ Owner(m) = "conversions" /\ outbox[r] = <<>>
      /\ Rates \notin inbox[r] /\ m \in Coming(r)
  <2>1. m = RatesEOF /\ Owner(m) = "conversions"
    BY <1>1, AcceptFacts, MessageIs
  <2>2. outbox[r] = <<>>
    BY <1>1, AcceptFacts DEF SelfAt, HandlerAt, Idle
  <2> QED
    BY <1>1, <2>1, <2>2, AcceptFacts
<1>10. Saved(r)' = Saved(r)
  BY <1>6, <1>7, <1>9 DEF Saved, Idle
<1>11. RatesAt(r)'
  BY <1>3, <1>5, <1>6, <1>7, <1>9 DEF SelfAt, RatesAt, RatesCame
<1>12. ReadyAt(r)'
  <2>1. Rates \in pending[r] \/ disk[r].conversions.exists
    BY <1>9 DEF SelfAt, RatesAt, RatesCame, Coming
  <2>2. Protected => mem[r].rates
    BY <2>1 DEF SelfAt, ReadyAt
  <2> QED
    BY <1>3, <1>5, <2>2 DEF ReadyAt
<1>13. HandlerAt(r)'
  <2>1. Unacked(r, "client")' = Unacked(r, "client")
    BY <1>9 DEF Unacked
  <2> QED
    BY <1>3, <1>5, <1>6, <1>7, <1>9, <2>1 DEF SelfAt, HandlerAt
<1>14. StateAt(r)'
  BY <1>3, <1>5, <1>6, <1>7, <1>9, <1>10 DEF SelfAt, StateAt, Idle
<1>15. CountAt(r)'
  BY <1>3, <1>5, <1>9 DEF SelfAt, CountAt, Counted
<1>16. QuietAt(r)
  <2>1. \A x \in Sender : Saved(r).coord[x] \in Nat
    BY TypesAre, ClientFields
  <2> QED
    BY <1>6, <1>7, <1>9, <1>10, <2>1 DEF QuietAt
<1> QED
  BY <1>8, <1>11, <1>12, <1>13, <1>14, <1>15, <1>16 DEF SelfAt
-----------------------------------------------------------------------------
(* Files: checkpoint, completion, restart *)

LEMMA HandlerUpdates ==
  ASSUME TypeOK, NEW r \in Replica, NEW h \in Handlers, handler' = [handler EXCEPT ![r] = h]
  PROVE  /\ handler' \in [Replica -> [end : {"idle", "checkpoint", "forward", "complete", "global"}, owner : Owners]]
         /\ handler'[r] = h /\ \A s \in Replica : s # r => handler'[s] = handler[s]
  BY DEF TypeOK, Handlers

LEMMA FilesUpdated ==
  ASSUME TypeOK, NEW r \in Replica, NEW f \in FileSet, disk' = [disk EXCEPT ![r] = f]
  PROVE  /\ disk' \in [Replica -> [client : File, conversions : File, global : {"none", "empty", "rates"}]]
         /\ disk'[r] = f /\ \A s \in Replica : s # r => disk'[s] = disk[s]
  BY DEF TypeOK, FileSet

LEMMA CheckpointStep ==
  ASSUME TypeOK, NEW r \in Replica, NEW o \in Owners, SelfAt(r), Checkpoint(r, o)
  PROVE  StepOf(r) /\ SelfAt(r)' /\ QuietAt(r)
<1> DEFINE h == [end |-> "global", owner |-> o]
           f == WithCheckpoint(disk[r], o, mem[r])
<1>1. /\ outbox[r] = <<>> /\ Unacked(r, o) # {}
      /\ handler[r] = Idle \/ (handler[r].owner = o /\ handler[r].end \in {"checkpoint", "forward"})
      /\ UNCHANGED <<fetched, inbox, pending, mem, tomb, outbox, results, agg, answer, crashes, refetches>>
  BY DEF Checkpoint, aggregatorVars
<1>2. handler' = [handler EXCEPT ![r] = h] /\ disk' = [disk EXCEPT ![r] = f]
  BY DEF Checkpoint, WithCheckpoint
<1>3. h \in Handlers /\ h.end = "global" /\ h.owner = o
  BY DEF Handlers
<1>4. mem[r] \in State /\ disk[r] \in FileSet
  BY TypesAre
<1>5. /\ f \in FileSet /\ f[o].exists /\ f[o].state = mem[r]
      /\ \A p \in Owners : p # o => f[p] = disk[r][p]
  BY <1>4, CheckpointFile
<1> HIDE DEF h, f
<1>6. TypeOK' /\ disk'[r] = f /\ handler'[r] = h
  <2>1. /\ handler' \in [Replica -> [end : {"idle", "checkpoint", "forward", "complete", "global"}, owner : Owners]]
        /\ handler'[r] = h
    BY <1>1, <1>2, <1>3, HandlerUpdates
  <2>2. /\ disk' \in [Replica -> [client : File, conversions : File, global : {"none", "empty", "rates"}]]
        /\ disk'[r] = f
    BY <1>2, <1>5, FilesUpdated
  <2> QED
    BY <1>1, <1>2, <1>3, <1>5, <2>1, <2>2 DEF TypeOK
<1>7. StepOf(r)
  <2>1. Elsewhere(r)
    BY <1>1, <1>2, <1>3, <1>5, HandlerUpdates, FilesUpdated DEF Elsewhere, Same
  <2> QED
    BY <1>1, <1>6, <2>1 DEF StepOf
<1>8. o = "client" => r \notin tomb
  BY <1>1 DEF SelfAt, HandlerAt
<1>9. Saved(r)' = (IF o = "client" THEN mem[r].client ELSE Saved(r))
  <2>1. CASE o = "client"
    BY <1>3, <1>5, <1>6, <2>1 DEF Saved
  <2>2. CASE o # "client"
    <3>1. handler[r].end # "forward"
      BY <1>1, <2>2 DEF SelfAt, HandlerAt, Idle
    <3>2. f.client = disk[r].client
      BY <1>5, <2>2 DEF Owners
    <3> QED
      BY <1>3, <1>6, <2>2, <3>1, <3>2 DEF Saved
  <2> QED
    BY <2>1, <2>2
<1>10. /\ handler[r].end # "complete"
  BY <1>1 DEF Idle
<1>11. RatesAt(r)'
  <2>1. /\ disk[r].conversions.exists => f.conversions.exists
        /\ ~f.conversions.exists => f.conversions = disk[r].conversions
        /\ f[o].exists
    BY <1>5 DEF Owners
  <2> QED
    BY <1>1, <1>3, <1>6, <2>1 DEF SelfAt, RatesAt, RatesCame, Coming
<1>12. ReadyAt(r)'
  <2>1. CASE o = "conversions"
    <3>1. Rates \in pending[r] \/ RatesEOF \in pending[r]
      <4>1. PICK m \in pending[r] : Owner(m) = "conversions"
        BY <1>1, <2>1 DEF Unacked
      <4>2. m \in Messages
        BY TypesAre
      <4> QED
        BY <4>1, <4>2, MessageIs
    <3> QED
      BY <1>1, <1>6, <3>1 DEF SelfAt, ReadyAt
  <2>2. CASE o = "client"
    <3>1. f.conversions = disk[r].conversions
      BY <1>5, <2>2 DEF Owners
    <3> QED
      BY <1>1, <1>6, <3>1 DEF SelfAt, ReadyAt
  <2> QED
    BY <2>1, <2>2 DEF Owners
<1>13. HandlerAt(r)'
  <2>1. o # "client" => f.client = disk[r].client
    BY <1>5 DEF Owners
  <2>2. Unacked(r, "client")' = Unacked(r, "client")
    BY <1>1 DEF Unacked
  <2>3. r \in tomb => o = "conversions"
    BY <1>8 DEF Owners
  <2> QED
    BY <1>1, <1>3, <1>6, <2>1, <2>2, <2>3, <1>8 DEF SelfAt, HandlerAt
<1>14. mem[r].client \in ClientState /\ \A x \in Sender : mem[r].client.coord[x] \in Nat /\ Saved(r).coord[x] \in Nat
  BY TypesAre, ClientFields
<1>15. StateAt(r)'
  <2>1. f.client.state = mem[r] \/ f.client = disk[r].client
    BY <1>5 DEF Owners
  <2> QED
    BY <1>1, <1>3, <1>6, <1>9, <1>10, <1>14, <2>1 DEF SelfAt, StateAt
<1>16. CountAt(r)'
  <2>1. f.client.state = mem[r] \/ f.client = disk[r].client
    BY <1>5 DEF Owners
  <2> QED
    BY <1>1, <1>6, <2>1 DEF SelfAt, CountAt, Counted
<1>17. QuietAt(r)
  <2>1. Saved(r).seen \subseteq mem[r].client.seen
    BY DEF SelfAt, StateAt, Saved
  <2> QED
    BY <1>1, <1>3, <1>6, <1>9, <1>10, <1>14, <2>1 DEF QuietAt, SelfAt, StateAt, Coming
<1> QED
  BY <1>7, <1>11, <1>12, <1>13, <1>15, <1>16, <1>17 DEF SelfAt

LEMMA SaveGlobalStep ==
  ASSUME TypeOK, NEW r \in Replica, SelfAt(r), SaveGlobal(r)
  PROVE  StepOf(r) /\ SelfAt(r)' /\ QuietAt(r)
<1> DEFINE f == WithGlobal(disk[r], r)
           o == handler[r].owner
<1>1. /\ handler[r].end = "global"
      /\ UNCHANGED <<fetched, inbox, mem, tomb, outbox, results, agg, answer, crashes, refetches>>
      /\ pending' = [pending EXCEPT ![r] = @ \ Unacked(r, o)]
      /\ handler' = [handler EXCEPT ![r] = Idle]
  BY DEF SaveGlobal, aggregatorVars
<1>2. disk' = [disk EXCEPT ![r] = f]
  BY DEF SaveGlobal, WithGlobal
<1>3. Idle \in Handlers /\ Idle.end = "idle" /\ Idle.owner = "client" /\ o \in Owners
  <2>1. handler[r] \in Handlers
    BY TypesAre
  <2> QED
    BY <2>1, FreshTypes DEF Idle, Handlers
<1>4. f \in FileSet /\ f.client = disk[r].client /\ f.conversions = disk[r].conversions
  BY TypesAre, GlobalFile
<1> HIDE DEF f
<1>5. /\ pending' \in [Replica -> SUBSET Messages] /\ pending'[r] = pending[r] \ Unacked(r, o)
      /\ \A s \in Replica : s # r => pending'[s] = pending[s]
  BY <1>1 DEF TypeOK
<1>6. TypeOK' /\ disk'[r] = f /\ handler'[r] = Idle
  <2>1. /\ handler' \in [Replica -> [end : {"idle", "checkpoint", "forward", "complete", "global"}, owner : Owners]]
        /\ handler'[r] = Idle
    BY <1>1, <1>2, <1>3, HandlerUpdates
  <2>2. /\ disk' \in [Replica -> [client : File, conversions : File, global : {"none", "empty", "rates"}]]
        /\ disk'[r] = f
    BY <1>2, <1>4, FilesUpdated
  <2> QED
    BY <1>1, <1>2, <1>3, <1>4, <1>5, <2>1, <2>2 DEF TypeOK
<1>7. StepOf(r)
  <2>1. Elsewhere(r)
    BY <1>1, <1>2, <1>3, <1>4, <1>5, HandlerUpdates, FilesUpdated DEF Elsewhere, Same
  <2> QED
    BY <1>1, <1>6, <2>1 DEF StepOf
<1>8. Saved(r)' = Saved(r)
  BY <1>1, <1>3, <1>4, <1>6 DEF Saved
<1>9. /\ Rates \in pending[r] => Rates \in pending'[r] \/ disk[r].conversions.exists
      /\ RatesEOF \in pending[r] => RatesEOF \in pending'[r] \/ disk[r].conversions.exists
  <2>1. o = "conversions" => disk[r].conversions.exists
    BY <1>1 DEF SelfAt, RatesAt
  <2>2. Owner(Rates) = "conversions" /\ Owner(RatesEOF) = "conversions"
    BY DEF Owner, Rates, RatesEOF
  <2> QED
    BY <1>5, <2>1, <2>2 DEF Unacked
<1>10. RatesAt(r)'
  BY <1>1, <1>3, <1>4, <1>5, <1>6, <1>9 DEF SelfAt, RatesAt, RatesCame, Coming
<1>11. ReadyAt(r)'
  BY <1>1, <1>4, <1>5, <1>6 DEF SelfAt, ReadyAt
<1>12. HandlerAt(r)'
  BY <1>1, <1>3, <1>4, <1>5, <1>6 DEF SelfAt, HandlerAt, Unacked
<1>13. StateAt(r)'
  BY <1>1, <1>3, <1>4, <1>6, <1>8 DEF SelfAt, StateAt
<1>14. CountAt(r)'
  BY <1>1, <1>4, <1>6 DEF SelfAt, CountAt, Counted
<1>15. QuietAt(r)
  <2>1. \A x \in Sender : Saved(r).coord[x] \in Nat
    BY TypesAre, ClientFields
  <2> QED
    BY <1>1, <1>3, <1>5, <1>6, <1>8, <2>1 DEF QuietAt, Coming
<1> QED
  BY <1>7, <1>10, <1>11, <1>12, <1>13, <1>14, <1>15 DEF SelfAt

(* A client that was completed has a fresh state. *)
LEMMA FreshCounts ==
  /\ FreshClient.seen = {} /\ FreshClient.outSeq = 0 /\ \A x \in Sender : FreshClient.coord[x] = 0
  /\ Counted(0, FreshClient)
  /\ ~NoFile.exists /\ NoFile.state.client = FreshClient
<1>1. /\ FreshClient.seen = {} /\ FreshClient.outSeq = 0 /\ \A x \in Sender : FreshClient.coord[x] = 0
      /\ FreshClient.count = 0
  BY DEF FreshClient
<1>2. Cardinality({} \cap Micro) = 0
  <2>1. {} \cap Micro = {}
    OBVIOUS
  <2> QED
    BY <2>1, FS_EmptySet
<1>3. Counted(0, FreshClient)
  BY <1>1, <1>2 DEF Counted
<1> QED
  BY <1>1, <1>3 DEF NoFile, Boot

LEMMA CompleteStep ==
  ASSUME TypeOK, NEW r \in Replica, SelfAt(r), Complete(r)
  PROVE  StepOf(r) /\ SelfAt(r)' /\ QuietAt(r)
<1> DEFINE f == Completed(disk[r], r)
           t == [mem[r] EXCEPT !.client = FreshClient]
<1>1. /\ handler[r].end = "complete" /\ outbox[r] = <<>> /\ tomb' = tomb \cup {r}
      /\ UNCHANGED <<fetched, inbox, outbox, results, agg, answer, crashes, refetches>>
      /\ pending' = [pending EXCEPT ![r] = @ \ Unacked(r, "client")]
      /\ handler' = [handler EXCEPT ![r] = Idle]
  BY DEF Complete, aggregatorVars
<1>2. disk' = [disk EXCEPT ![r] = f] /\ mem' = [mem EXCEPT ![r] = t]
  BY DEF Complete, Completed
<1>3. Idle \in Handlers /\ Idle.end = "idle" /\ Idle.owner = "client"
  BY FreshTypes DEF Idle
<1>4. f \in FileSet /\ f.client = NoFile /\ f.conversions = disk[r].conversions
  BY TypesAre, GlobalFile
<1>5. /\ t \in State /\ t.client = FreshClient /\ t.conversions = mem[r].conversions
      /\ t.rates = mem[r].rates /\ t.started = mem[r].started
  <2>1. mem[r] \in State /\ FreshClient \in ClientState
    BY TypesAre, FreshTypes
  <2> QED
    BY <2>1, StateUpdates
<1> HIDE DEF f, t
<1>6. /\ pending' \in [Replica -> SUBSET Messages] /\ pending'[r] = pending[r] \ Unacked(r, "client")
      /\ \A s \in Replica : s # r => pending'[s] = pending[s]
  BY <1>1 DEF TypeOK
<1>7. mem' \in [Replica -> State] /\ mem'[r] = t /\ \A s \in Replica : s # r => mem'[s] = mem[s]
  BY <1>2, <1>5 DEF TypeOK
<1>8. TypeOK' /\ disk'[r] = f /\ handler'[r] = Idle
  <2>1. /\ handler' \in [Replica -> [end : {"idle", "checkpoint", "forward", "complete", "global"}, owner : Owners]]
        /\ handler'[r] = Idle
    BY <1>1, <1>2, <1>3, HandlerUpdates
  <2>2. /\ disk' \in [Replica -> [client : File, conversions : File, global : {"none", "empty", "rates"}]]
        /\ disk'[r] = f
    BY <1>2, <1>4, FilesUpdated
  <2> QED
    BY <1>1, <1>2, <1>3, <1>4, <1>6, <1>7, <2>1, <2>2 DEF TypeOK
<1>9. StepOf(r)
  <2>1. Elsewhere(r)
    BY <1>1, <1>2, <1>3, <1>4, <1>6, <1>7, HandlerUpdates, FilesUpdated DEF Elsewhere, Same
  <2> QED
    BY <1>1, <1>8, <2>1 DEF StepOf
<1>10. Saved(r)' = FreshClient
  BY <1>3, <1>4, <1>8, FreshCounts DEF Saved
<1>11. /\ Rates \in pending[r] <=> Rates \in pending'[r]
       /\ RatesEOF \in pending[r] <=> RatesEOF \in pending'[r]
       /\ Unacked(r, "client")' = {}
  <2>1. Owner(Rates) = "conversions" /\ Owner(RatesEOF) = "conversions"
    BY DEF Owner, Rates, RatesEOF
  <2> QED
    BY <1>6, <2>1 DEF Unacked
<1>12. RatesAt(r)'
  BY <1>1, <1>3, <1>4, <1>5, <1>6, <1>7, <1>8, <1>11 DEF SelfAt, RatesAt, RatesCame, Coming
<1>13. ReadyAt(r)'
  BY <1>1, <1>4, <1>5, <1>7, <1>8, <1>11 DEF SelfAt, ReadyAt
<1>14. HandlerAt(r)'
  BY <1>1, <1>3, <1>4, <1>5, <1>7, <1>8, <1>11 DEF HandlerAt
<1>15. StateAt(r)'
  <2>1. \A x \in Sender : FreshClient.coord[x] <= FreshClient.coord[x]
    BY FreshCounts
  <2> QED
    BY <1>3, <1>4, <1>5, <1>7, <1>8, <1>10, <2>1, FreshCounts DEF StateAt, HomeOf
<1>16. CountAt(r)'
  BY <1>4, <1>5, <1>7, <1>8, FreshCounts DEF CountAt, Counted
<1>17. QuietAt(r)
  BY <1>1, <1>3, <1>6, <1>8 DEF QuietAt, Coming
<1> QED
  BY <1>9, <1>12, <1>13, <1>14, <1>15, <1>16, <1>17 DEF SelfAt

LEMMA CrashStep ==
  ASSUME TypeOK, NEW r \in Replica, SelfAt(r), Crash(r)
  PROVE  StepOf(r) /\ SelfAt(r)' /\ QuietAt(r)
<1> DEFINE t == Load(disk[r])
<1>1. /\ Protected => handler[r].end # "forward" /\ ~(t.started /\ ~t.rates)
      /\ crashes' = crashes + 1
      /\ inbox' = [inbox EXCEPT ![r] = @ \cup pending[r]]
      /\ pending' = [pending EXCEPT ![r] = {}]
      /\ outbox' = [outbox EXCEPT ![r] = <<>>]
      /\ handler' = [handler EXCEPT ![r] = Idle]
      /\ UNCHANGED <<fetched, disk, tomb, results, agg, answer, refetches>>
      /\ mem' = [mem EXCEPT ![r] = t]
  BY DEF Crash, Blind, Forwarding, Protected, aggregatorVars
<1>2. /\ t \in State /\ t.client = disk[r].client.state.client
      /\ t.conversions = disk[r].conversions.state.conversions
      /\ disk[r].conversions.exists => t.started
  BY TypesAre, LoadIs
<1>3. Idle \in Handlers /\ Idle.end = "idle" /\ Idle.owner = "client"
  BY FreshTypes DEF Idle
<1> HIDE DEF t
<1>4. /\ inbox' \in [Replica -> SUBSET Messages] /\ pending' \in [Replica -> SUBSET Messages]
      /\ mem' \in [Replica -> State] /\ outbox' \in [Replica -> Seq(OutMessages)]
      /\ crashes' \in Nat
  BY <1>1, <1>2 DEF TypeOK, OutMessages
<1>5. /\ inbox'[r] = inbox[r] \cup pending[r] /\ pending'[r] = {} /\ mem'[r] = t /\ outbox'[r] = <<>>
      /\ \A s \in Replica : s # r => inbox'[s] = inbox[s] /\ pending'[s] = pending[s]
                                     /\ mem'[s] = mem[s] /\ outbox'[s] = outbox[s]
  BY <1>1 DEF TypeOK
<1>6. TypeOK' /\ handler'[r] = Idle
  BY <1>1, <1>3, <1>4, HandlerUpdates DEF TypeOK, OutMessages
<1>7. StepOf(r)
  <2>1. Elsewhere(r)
    BY <1>1, <1>3, <1>5, HandlerUpdates DEF Elsewhere, Same
  <2> QED
    BY <1>1, <1>6, <2>1 DEF StepOf
<1>8. /\ Saved(r)' = t.client /\ disk'[r] = disk[r] /\ Coming(r)' = Coming(r)
      /\ Protected => Saved(r) = t.client
  BY <1>1, <1>2, <1>3, <1>5, <1>6 DEF Saved, Coming
<1>9. RatesAt(r)'
  BY <1>1, <1>2, <1>3, <1>5, <1>6, <1>8 DEF SelfAt, RatesAt, RatesCame
<1>10. ReadyAt(r)'
  BY <1>1, <1>2, <1>5, <1>8 DEF ReadyAt, Blind
<1>11. HandlerAt(r)'
  <2>1. r \in tomb => t.client = FreshClient
    BY <1>2, FreshCounts DEF SelfAt, HandlerAt
  <2>2. Unacked(r, "client")' = {}
    BY <1>5 DEF Unacked
  <2>3. r \in tomb' => r \in tomb /\ disk[r].client = NoFile
    BY <1>1 DEF SelfAt, HandlerAt
  <2>4. handler'[r].end = "idle" /\ outbox'[r] = <<>> /\ mem'[r].client = t.client /\ disk'[r] = disk[r]
    BY <1>5, <1>6, <1>8 DEF Idle
  <2> QED
    BY <2>1, <2>2, <2>3, <2>4 DEF HandlerAt
<1>12. \A x \in Sender : t.client.coord[x] \in Nat
  <2>1. t.client \in ClientState
    BY <1>2, TypesAre
  <2> QED
    BY <2>1, ClientFields
<1>13. StateAt(r)'
  <2>1. t.client.seen \subseteq HomeOf(r) /\ (Protected /\ N = 1 => t.client.outSeq = 0)
    BY <1>2, <1>8 DEF SelfAt, StateAt
  <2>2. \A x \in Sender : t.client.coord[x] <= t.client.coord[x]
    BY <1>12
  <2>3. /\ mem'[r].client = t.client /\ Saved(r)' = t.client
        /\ disk'[r].client.state.client = t.client /\ HomeOf(r)' = HomeOf(r)
    BY <1>2, <1>5, <1>8 DEF HomeOf
  <2> QED
    BY <2>1, <2>2, <2>3 DEF StateAt
<1>14. CountAt(r)'
  BY <1>2, <1>5, <1>8 DEF SelfAt, CountAt, Counted
<1>15. QuietAt(r)
  BY <1>1, <1>3, <1>5, <1>6, <1>8, <1>12 DEF QuietAt
<1> QED
  BY <1>7, <1>9, <1>10, <1>11, <1>13, <1>14, <1>15 DEF SelfAt
-----------------------------------------------------------------------------
(* The fetcher *)

Quiet ==
  /\ TypeOK'
  /\ \A s \in Replica : SelfAt(s)' /\ QuietAt(s)
  /\ results' = results /\ agg' = agg /\ answer' = answer

LEMMA QuietOfStep ==
  ASSUME TypeOK, NEW r \in Replica, \A s \in Replica : SelfAt(s), StepOf(r), SelfAt(r)', QuietAt(r)
  PROVE  Quiet
<1>1. ASSUME NEW s \in Replica
      PROVE  SelfAt(s)' /\ QuietAt(s)
  <2>1. CASE s = r
    BY <2>1
  <2>2. CASE s # r
    <3>1. Same(s) /\ fetched' = fetched
      BY <2>2 DEF StepOf, Elsewhere
    <3> QED
      BY <3>1, SameIsKept
  <2> QED
    BY <2>1, <2>2
<1> QED
  BY <1>1 DEF Quiet, StepOf

LEMMA FetchStep ==
  ASSUME TypeOK, \A s \in Replica : SelfAt(s), Fetch
  PROVE  Quiet
<1>0. /\ fetched < 2 * N /\ fetched' = fetched + 1 /\ fetched \in Nat /\ N \in Nat
      /\ UNCHANGED <<pending, mem, disk, tomb, outbox, handler, results, agg, answer, crashes, refetches>>
  BY ReplicaFacts DEF Fetch, aggregatorVars, TypeOK
<1> PICK r \in Replica : r = fetched \div 2
  BY <1>0 DEF Replica
<1> PICK m \in {Rates, RatesEOF} : m = IF fetched % 2 = 0 THEN Rates ELSE RatesEOF
  OBVIOUS
<1>1. /\ fetched < 2 * N /\ fetched' = fetched + 1
      /\ inbox' = [inbox EXCEPT ![r] = @ \cup {m}]
      /\ UNCHANGED <<pending, mem, disk, tomb, outbox, handler, results, agg, answer, crashes, refetches>>
  BY <1>0 DEF Fetch
<1>2. /\ r \in Replica /\ fetched \in Nat
      /\ fetched = 2 * r \/ fetched = 2 * r + 1
      /\ fetched = 2 * r => m = Rates
      /\ fetched = 2 * r + 1 => m = RatesEOF
      /\ m \in Messages /\ m.type \notin {"batch", "eof", "token"}
  <2>1. m \in Messages /\ m.type \notin {"batch", "eof", "token"}
    BY MessagesSent
  <2>2. fetched = 2 * r + (fetched % 2) /\ fetched % 2 \in {0, 1} /\ r \in Nat
    BY <1>0, ReplicaFacts
  <2>3. /\ fetched = 2 * r => fetched % 2 = 0
        /\ fetched = 2 * r + 1 => fetched % 2 = 1
    BY <1>0, <2>2
  <2> QED
    BY <1>0, <2>1, <2>2, <2>3
<1>3. inbox' \in [Replica -> SUBSET Messages] /\ inbox'[r] = inbox[r] \cup {m}
      /\ \A s \in Replica : s # r => inbox'[s] = inbox[s]
  BY <1>1, <1>2 DEF TypeOK
<1>4. TypeOK'
  <2>1. fetched' \in 0 .. 2 * N
    BY <1>1, <1>2, ReplicaFacts
  <2> QED
    BY <1>1, <1>3, <2>1 DEF TypeOK
<1>5. ASSUME NEW s \in Replica, s # r
      PROVE  SelfAt(s)' /\ QuietAt(s)
  <2>1. Same(s) /\ SelfAt(s)
    BY <1>1, <1>3, <1>5 DEF Same
  <2>2. fetched' # 2 * s + 1
    <3>1. s \in Nat /\ r \in Nat
      BY <1>2, ReplicaFacts
    <3> QED
      BY <1>1, <1>2, <1>5, <3>1
  <2> QED
    BY <2>1, <2>2, SameIsKept
<1>6. SelfAt(r)'
  <2>1. SelfAt(r)
    BY <1>2
  <2>2. RatesAt(r)'
    <3>1. CASE fetched = 2 * r
      BY <1>1, <1>2, <1>3, <2>1, <3>1 DEF SelfAt, RatesAt, RatesCame, Coming
    <3>2. CASE fetched = 2 * r + 1
      <4>1. fetched' # 2 * r + 1
        BY <1>1, <1>2, <3>2
      <4>2. RatesCame(r) /\ RatesCame(r)'
        BY <1>1, <1>3, <2>1, <3>2 DEF SelfAt, RatesAt, RatesCame, Coming
      <4> QED
        BY <1>1, <1>2, <1>3, <2>1, <4>1, <4>2 DEF SelfAt, RatesAt
    <3> QED
      BY <1>2, <3>1, <3>2
  <2>3. ReadyAt(r)' /\ HandlerAt(r)' /\ StateAt(r)' /\ CountAt(r)'
    BY <1>1, <2>1 DEF SelfAt, ReadyAt, HandlerAt, StateAt, CountAt, Unacked, Saved, Counted
  <2> QED
    BY <2>2, <2>3 DEF SelfAt
<1>7. QuietAt(r)
  <2>1. Saved(r)' = Saved(r)
    BY <1>1 DEF Saved
  <2>2. \A x \in Sender : Saved(r).coord[x] \in Nat
    BY <1>2, TypesAre, ClientFields
  <2>3. \A n \in Coming(r)' : n.type \in {"batch", "eof", "token"} => n \in Coming(r)
    BY <1>1, <1>2, <1>3 DEF Coming
  <2> QED
    BY <1>1, <2>1, <2>2, <2>3 DEF QuietAt
<1> QED
  BY <1>1, <1>4, <1>5, <1>6, <1>7 DEF Quiet

LEMMA RefetchStep ==
  ASSUME TypeOK, \A s \in Replica : SelfAt(s), Refetch
  PROVE  Quiet
<1>1. /\ fetched' = 0 /\ refetches' = refetches + 1
      /\ UNCHANGED <<inbox, pending, mem, disk, tomb, outbox, handler, results, agg, answer, crashes>>
  BY DEF Refetch, replicaVars, aggregatorVars
<1>2. TypeOK'
  <2>1. 0 \in 0 .. 2 * N
    BY ReplicaFacts
  <2> QED
    BY <1>1, <2>1 DEF TypeOK
<1>3. ASSUME NEW s \in Replica
      PROVE  SelfAt(s)' /\ QuietAt(s)
  <2>1. Same(s) /\ SelfAt(s)
    BY <1>1, <1>3 DEF Same
  <2>2. fetched' # 2 * s + 1
    <3>1. s \in Nat
      BY ReplicaFacts
    <3> QED
      BY <1>1, <3>1
  <2> QED
    BY <2>1, <2>2, SameIsKept
<1> QED
  BY <1>1, <1>2, <1>3 DEF Quiet

-----------------------------------------------------------------------------
(* What is sent, and what is known of it, survives a quiet step. *)

LEMMA NextTypes ==
  ASSUME TypeOK', NEW r \in Replica
  PROVE  /\ outbox'[r] \in Seq(OutMessages) /\ Coming(r)' \subseteq Messages
         /\ Saved(r)' \in ClientState /\ \A x \in Sender : Saved(r)'.coord[x] \in Nat
<1>1. outbox'[r] \in Seq(OutMessages) /\ Coming(r)' \subseteq Messages
  BY DEF TypeOK, OutMessages, Coming
<1>2. mem'[r] \in State /\ disk'[r] \in FileSet
  BY DEF TypeOK, FileSet
<1>3. mem'[r].client \in ClientState /\ disk'[r].client.state.client \in ClientState
  BY <1>2 DEF State, FileSet, File
<1>4. Saved(r)' \in ClientState
  BY <1>3 DEF Saved
<1> QED
  BY <1>1, <1>4, ClientFields

LEMMA KeptGrows ==
  ASSUME TypeOK, NEW s \in Replica, SelfAt(s), QuietAt(s)
  PROVE  Kept(s) \subseteq Kept(s)' /\ Kept(s) \subseteq HomeOf(s)
<1>1. Saved(s).seen \subseteq HomeOf(s)
  BY DEF SelfAt, StateAt, Saved
<1>2. HomeOf(s)' = HomeOf(s)
  BY DEF HomeOf
<1> QED
  BY <1>1, <1>2 DEF Kept, QuietAt

LEMMA QuietStep ==
  ASSUME TypeOK, \A s \in Replica : SelfAt(s), RingInv, Quiet
  PROVE  RingInv'
<1> USE DEF Quiet
<1>1. \A s \in Replica : Kept(s) \subseteq Kept(s)'
  BY KeptGrows
<1>2. ASSUME NEW s \in Replica
      PROVE  Cardinality(KeptBy(s)) <= Cardinality(KeptBy(s)') /\ Cardinality(KeptBy(s)) \in Nat
             /\ Cardinality(KeptBy(s)') \in Nat
  <2>1. KeptBy(s) \subseteq KeptBy(s)' /\ KeptBy(s)' \in SUBSET Batch
    BY <1>1, ReplicaFacts DEF KeptBy
  <2> QED
    BY <2>1, MoreBatches, FiniteBatches
<1>3. ASSUME NEW m \in Messages \cup Outputs, m.type = "token", TokenOK(m)
      PROVE  TokenOK(m)'
  <2>1. m.sender \in Replica /\ m.sum \in Nat /\ m.closing \in BOOLEAN
    <3>1. m.sender \in Replica /\ m.sum \in 0 .. Total /\ m.closing \in BOOLEAN
      BY <1>3, MessageIs
    <3> QED
      BY <3>1, FiniteBatches
  <2> QED
    BY <1>2, <1>3, <2>1 DEF TokenOK
<1>4. ASSUME NEW r \in Replica
      PROVE  /\ outbox'[r] \in Seq(OutMessages) /\ Coming(r)' \subseteq Messages
             /\ Len(outbox'[r]) \in Nat /\ Len(outbox[r]) \in Nat
             /\ \A i \in 1 .. Len(outbox'[r]) : /\ i \in 1 .. Len(outbox[r]) /\ outbox'[r] = outbox[r]
                                                /\ outbox[r][i] \in Messages \cup Outputs
  <2>1. outbox'[r] \in Seq(OutMessages) /\ outbox[r] \in Seq(OutMessages) /\ Coming(r)' \subseteq Messages
    BY TypesAre, NextTypes
  <2>2. OutMessages \subseteq Messages \cup Outputs
    BY MessagesSent DEF OutMessages
  <2>3. outbox'[r] = outbox[r] \/ outbox'[r] = <<>>
    BY DEF QuietAt
  <2>4. \A i \in 1 .. Len(<<>>) : FALSE
    OBVIOUS
  <2>5. \A i \in 1 .. Len(outbox[r]) : outbox[r][i] \in OutMessages
    BY <2>1
  <2>6. ASSUME NEW i \in 1 .. Len(outbox'[r])
        PROVE  i \in 1 .. Len(outbox[r]) /\ outbox'[r] = outbox[r] /\ outbox[r][i] \in Messages \cup Outputs
    BY <2>2, <2>3, <2>4, <2>5
  <2> QED
    BY <2>1, <2>6
<1>5. TokenInv'
  <2>1. ASSUME NEW r \in Replica, NEW m \in Coming(r)'
        PROVE  /\ m.type = "batch" => m.batch \in HomeOf(r)
               /\ m.type = "eof" => r = 0
               /\ m.type = "token" => r = Successor(m.sender) /\ TokenOK(m)'
    <3>1. m.type \in {"batch", "eof", "token"} => m \in Coming(r)
      BY DEF QuietAt
    <3>2. m \in Messages
      BY <1>4
    <3> QED
      BY <1>3, <3>1, <3>2 DEF RingInv, TokenInv
  <2>2. ASSUME NEW r \in Replica, NEW i \in 1 .. Len(outbox'[r]), NEW m, m = outbox'[r][i]
        PROVE  /\ m.type # "batch"
               /\ m.type = "eof" => r = 0
               /\ m.type # "eof" => m.sender = r
               /\ m.type = "token" => TokenOK(m)'
    <3>1. m = outbox[r][i] /\ i \in 1 .. Len(outbox[r]) /\ m \in Messages \cup Outputs
      BY <1>4, <2>2
    <3> QED
      BY <1>3, <3>1 DEF RingInv, TokenInv
  <2> QED
    BY <2>1, <2>2 DEF TokenInv, HomeOf
<1>6. ASSUME NEW r \in Replica
      PROVE  /\ Protected => Waiting(r)' \subseteq Waiting(r)
             /\ Sending(r)' \subseteq Sending(r)
  <2>1. ASSUME Protected, NEW m \in Waiting(r)'
        PROVE  m \in Waiting(r)
    <3>1. /\ m \in Coming(r)' /\ m.type \in {"eof", "token"} /\ IsOpen(m)
          /\ r \notin tomb' /\ m.seq > Saved(r)'.coord[m.sender]
      BY DEF Waiting, IsOpen
    <3>2. m \in Messages
      BY <1>4, <3>1
    <3>3. m.sender \in Sender /\ m.seq \in Nat
      BY <3>1, <3>2, MessageIs, ReplicaFacts
    <3>4. Saved(r) \in ClientState /\ Saved(r)' \in ClientState
      BY TypesAre, NextTypes
    <3>5. Saved(r).coord[m.sender] \in Nat /\ Saved(r)'.coord[m.sender] \in Nat
      BY <3>3, <3>4, ClientFields
    <3>6. m \in Coming(r) /\ r \notin tomb /\ Saved(r).coord[m.sender] <= Saved(r)'.coord[m.sender]
      BY <2>1, <3>1, <3>3 DEF QuietAt
    <3>7. m.seq > Saved(r).coord[m.sender]
      BY <3>1, <3>3, <3>5, <3>6
    <3> QED
      BY <3>1, <3>6, <3>7 DEF Waiting
  <2>2. ASSUME NEW i \in Sending(r)'
        PROVE  i \in Sending(r)
    BY <1>4 DEF Sending, IsOpen
  <2> QED
    BY <2>1, <2>2
<1>7. RoundInv'
  BY <1>6 DEF RingInv, RoundInv
<1>8. \A r \in Replica : Partials(r)' = Partials(r) /\ SentSeqs(r)' \subseteq SentSeqs(r)
  <2>1. ASSUME NEW r \in Replica
        PROVE  Partials(r)' = Partials(r)
    BY DEF Partials
  <2>2. ASSUME NEW r \in Replica, NEW x \in SentSeqs(r)'
        PROVE  x \in SentSeqs(r)
    <3>1. \/ x \in {p.seq : p \in Partials(r)'}
          \/ x \in {p[2] : p \in {q \in agg.partials : q[1] = r}}
          \/ \E i \in 1 .. Len(outbox'[r]) : outbox'[r][i].type = "partial" /\ x = outbox'[r][i].seq
      BY DEF SentSeqs
    <3>2. CASE \E i \in 1 .. Len(outbox'[r]) : outbox'[r][i].type = "partial" /\ x = outbox'[r][i].seq
      BY <1>4, <3>2 DEF SentSeqs
    <3> QED
      BY <2>1, <3>1, <3>2 DEF SentSeqs
  <2> QED
    BY <2>1, <2>2
<1>9. Ending' => Ending
  <2> SUFFICES ASSUME NEW r \in Replica,
                      \/ r \in tomb' \/ handler'[r].end = "complete"
                      \/ \E m \in Coming(r)' : IsClosing(m)
                      \/ \E i \in 1 .. Len(outbox'[r]) : IsClosing(outbox'[r][i])
                      \/ SentSeqs(r)' # {}
               PROVE  Ending
    BY DEF Ending, IsClosing
  <2>1. CASE r \in tomb' \/ handler'[r].end = "complete"
    BY <2>1 DEF QuietAt, Ending
  <2>2. CASE \E m \in Coming(r)' : IsClosing(m)
    BY <2>2 DEF QuietAt, Ending, IsClosing
  <2>3. CASE \E i \in 1 .. Len(outbox'[r]) : IsClosing(outbox'[r][i])
    BY <1>4, <2>3 DEF Ending
  <2>4. CASE SentSeqs(r)' # {}
    BY <1>8, <2>4 DEF Ending
  <2> QED
    BY <2>1, <2>2, <2>3, <2>4
<1>10. ClosedInv'
  <2>1. \A r \in Replica : HomeOf(r)' = HomeOf(r)
    BY DEF HomeOf
  <2> QED
    BY <1>1, <1>6, <1>9, <2>1 DEF RingInv, ClosedInv
<1>11. SeqInv'
  <2>1. Protected => \A r \in Replica : r \notin tomb' => r \notin tomb /\ Saved(r)'.outSeq = Saved(r).outSeq
    BY DEF QuietAt
  <2> QED
    BY <1>8, <2>1 DEF RingInv, SeqInv
<1>12. \A r \in Replica : (Given(r)' <=> Given(r)) /\ (Added(r)' <=> Added(r)) /\ MicroOf(r)' = MicroOf(r)
  BY <1>8 DEF Given, Added, MicroOf, HomeOf
<1>13. OutputInv'
  <2> SUFFICES ASSUME Protected
               PROVE  /\ \A m \in results : m.type = "outeof" => Given(m.sender)'
                      /\ \A r \in Replica : \A i \in 1 .. Len(outbox'[r]) :
                           outbox'[r][i].type = "outeof" =>
                             Given(r)' \/ \E j \in 1 .. i - 1 : outbox'[r][j].type = "partial"
    BY DEF OutputInv
  <2>1. ASSUME NEW m \in results, m.type = "outeof"
        PROVE  Given(m.sender)'
    <3>1. m.sender \in Replica
      <4>1. m \in Messages \cup Outputs
        BY DEF TypeOK
      <4> QED
        BY <2>1, <4>1, MessageIs
    <3> QED
      BY <1>12, <2>1, <3>1 DEF RingInv, OutputInv
  <2>2. ASSUME NEW r \in Replica, NEW i \in 1 .. Len(outbox'[r]), outbox'[r][i].type = "outeof"
        PROVE  Given(r)' \/ \E j \in 1 .. i - 1 : outbox'[r][j].type = "partial"
    BY <1>4, <1>12, <2>2 DEF RingInv, OutputInv
  <2> QED
    BY <2>1, <2>2
<1>14. ExactInv'
  <2> SUFFICES ASSUME Protected
               PROVE  ExactInv'
    BY DEF ExactInv
  <2>1. ASSUME NEW r \in Replica, NEW i \in 1 .. Len(outbox'[r]), outbox'[r][i].type = "partial"
        PROVE  outbox'[r][i].count = Cardinality(MicroOf(r))
    BY <1>4, <2>1 DEF RingInv, ExactInv
  <2>2. AddedMicro' = AddedMicro
    BY DEF AddedMicro, Added
  <2>3. \A r : MicroOf(r)' = MicroOf(r) /\ (Added(r)' <=> Added(r))
    BY DEF Added, MicroOf, HomeOf
  <2> QED
    BY <2>1, <2>2, <2>3 DEF RingInv, ExactInv
<1> QED
  BY <1>5, <1>7, <1>10, <1>11, <1>13, <1>14 DEF RingInv
-----------------------------------------------------------------------------
(* The handlers of an EOF and of a token *)

Turned(r, m, s, o) ==
  /\ StepOf(r) /\ SelfAt(r)'
  /\ OutcomeOK(r, m, s, o)
  /\ s \in ClientState /\ s.seen = mem[r].client.seen /\ s.count = mem[r].client.count
  /\ s.outSeq = mem[r].client.outSeq
  /\ m \in Messages /\ m.type \in {"eof", "token"} /\ m \in Coming(r) /\ Coming(r)' = Coming(r)
  /\ m.sender \in Sender /\ m.seq \in Nat /\ m.seq > mem[r].client.coord[m.sender]
  /\ tomb' = tomb /\ r \notin tomb
  /\ handler[r].end = "idle" /\ handler'[r].end = o.end
  /\ outbox[r] = <<>> /\ outbox'[r] = o.sends
  /\ disk'[r] = disk[r]
  /\ mem'[r].client.seen = s.seen /\ mem'[r].client.outSeq = o.state.outSeq
  /\ mem'[r].client.coord[m.sender] = m.seq
  /\ \A x \in Sender : mem[r].client.coord[x] <= mem'[r].client.coord[x]

LEMMA OutcomeTypes ==
  ASSUME NEW r \in Replica, NEW m, NEW s \in ClientState, NEW o, OutcomeOK(r, m, s, o)
  PROVE  /\ o.state \in ClientState /\ o.state.seen = s.seen /\ o.state.count = s.count
         /\ o.state.coord = s.coord
         /\ o.sends \in Seq(OutMessages)
         /\ o.end \in {"checkpoint", "forward", "complete"}
         /\ o.end = "checkpoint" => o.sends = <<>> /\ o.state.outSeq = s.outSeq
         /\ o.end = "forward" => Len(o.sends) <= 1 /\ (N = 1 => o.state.outSeq = s.outSeq)
<1>1. /\ o.state \in ClientState /\ o.state.seen = s.seen /\ o.state.count = s.count
      /\ o.state.coord = s.coord
      /\ o.end \in {"checkpoint", "forward", "complete"}
      /\ o.end = "checkpoint" => o.sends = <<>> /\ o.state.outSeq = s.outSeq
      /\ o.end = "forward" => Forwards(r, s, o.sends) /\ (N = 1 => o.state.outSeq = s.outSeq)
      /\ o.end = "complete" => Ends(r, s, o.sends)
  BY DEF OutcomeOK
<1>2. CASE o.end = "forward"
  <2> PICK x \in ClientMessages : o.sends = <<x>>
    BY <1>1, <1>2 DEF Forwards
  <2>1. <<x>> \in Seq(OutMessages) /\ Len(<<x>>) = 1
    BY DEF OutMessages
  <2>2. o.sends \in Seq(OutMessages) /\ Len(o.sends) <= 1
    BY <2>1
  <2> QED
    BY <1>1, <1>2, <2>2
<1>3. CASE o.end = "checkpoint"
  <2>1. <<>> \in Seq(OutMessages)
    OBVIOUS
  <2> QED
    BY <1>1, <1>3, <2>1
<1>4. CASE o.end = "complete"
  BY <1>1, <1>4 DEF Ends
<1> QED
  BY <1>1, <1>2, <1>3, <1>4

Marked(s, x, n) == [s EXCEPT !.coord[x] = n]

LEMMA MarkedFields ==
  ASSUME NEW s \in ClientState, NEW x \in Sender, NEW n \in Nat
  PROVE  /\ Marked(s, x, n) \in ClientState
         /\ Marked(s, x, n).seen = s.seen /\ Marked(s, x, n).count = s.count
         /\ Marked(s, x, n).outSeq = s.outSeq
         /\ Marked(s, x, n).coord = [s.coord EXCEPT ![x] = n]
<1>1. s.coord \in [Sender -> Nat]
  BY ClientFields
<1> DEFINE marks == [s.coord EXCEPT ![x] = n]
<1>2. marks \in [Sender -> Nat]
  BY <1>1
<1>3. Marked(s, x, n) = [s EXCEPT !.coord = marks]
  BY DEF Marked
<1> HIDE DEF marks
<1>4. /\ Marked(s, x, n) \in ClientState
      /\ Marked(s, x, n).seen = s.seen /\ Marked(s, x, n).count = s.count
      /\ Marked(s, x, n).outSeq = s.outSeq /\ Marked(s, x, n).coord = marks
  BY <1>2, <1>3 DEF ClientState
<1> QED
  BY <1>4 DEF marks

LEMMA TurnFacts ==
  ASSUME TypeOK, NEW r \in Replica, NEW m \in inbox[r], NEW type \in {"eof", "token"}, SelfAt(r),
         Accept(r, m, type), NEW s \in ClientState,
         s.seen = mem[r].client.seen, s.count = mem[r].client.count,
         s.outSeq = mem[r].client.outSeq, s.coord = mem[r].client.coord,
         NEW o, OutcomeOK(r, m, s, o), Apply(r, m, o)
  PROVE  Turned(r, m, s, o)
<1>1. /\ o.state \in ClientState /\ o.state.seen = s.seen /\ o.state.count = s.count
      /\ o.state.coord = s.coord
      /\ o.sends \in Seq(OutMessages)
      /\ o.end \in {"checkpoint", "forward", "complete"}
      /\ o.end = "checkpoint" => o.sends = <<>> /\ o.state.outSeq = s.outSeq
      /\ o.end = "forward" => Len(o.sends) <= 1 /\ (N = 1 => o.state.outSeq = s.outSeq)
  BY OutcomeTypes
<1>2. /\ m \in Messages /\ m.type \in {"eof", "token"} /\ handler[r] = Idle /\ ~Discarded(r, m)
      /\ inbox' \in [Replica -> SUBSET Messages] /\ pending' \in [Replica -> SUBSET Messages]
      /\ pending'[r] = pending[r] \cup {m}
      /\ Coming(r)' = Coming(r) /\ m \in Coming(r)
      /\ \A q \in Replica : q # r => inbox'[q] = inbox[q] /\ pending'[q] = pending[q]
      /\ UNCHANGED <<fetched, disk, tomb, results, agg, answer, crashes, refetches>>
  BY AcceptFacts
<1>3. /\ m.sender \in Sender /\ m.seq \in Nat /\ Owner(m) = "client"
      /\ m # Rates /\ m # RatesEOF
  <2>1. m # Rates /\ m # RatesEOF
    BY <1>2 DEF Rates, RatesEOF
  <2> QED
    BY <1>2, <2>1, MessageIs, ReplicaFacts
<1>4. mem[r] \in State /\ mem[r].client \in ClientState /\ \A x \in Sender : mem[r].client.coord[x] \in Nat
  BY TypesAre, ClientFields
<1>5. r \notin tomb /\ m.seq > mem[r].client.coord[m.sender]
  BY <1>2, <1>3, <1>4 DEF Discarded
<1> DEFINE c == Marked(o.state, m.sender, m.seq)
           h == [end |-> o.end, owner |-> "client"]
<1>6. /\ c \in ClientState /\ c.seen = s.seen /\ c.count = s.count /\ c.outSeq = o.state.outSeq
      /\ c.coord = [o.state.coord EXCEPT ![m.sender] = m.seq]
  BY <1>1, <1>3, MarkedFields
<1>7. h \in Handlers /\ h.end = o.end /\ h.owner = "client"
  BY <1>1 DEF Handlers, Owners
<1>8. /\ mem' = [mem EXCEPT ![r] = [mem[r] EXCEPT !.client = c]]
      /\ outbox' = [outbox EXCEPT ![r] = o.sends]
      /\ handler' = [handler EXCEPT ![r] = h]
  BY DEF Apply, Marked
<1> HIDE DEF c, h
<1>9. /\ c.coord[m.sender] = m.seq
      /\ \A x \in Sender : mem[r].client.coord[x] <= c.coord[x]
  <2>1. o.state.coord \in [Sender -> Nat]
    BY <1>1, ClientFields
  <2> QED
    BY <1>1, <1>3, <1>4, <1>5, <1>6, <2>1
<1> DEFINE t == [mem[r] EXCEPT !.client = c]
<1>10. /\ t \in State /\ t.client = c /\ t.conversions = mem[r].conversions
       /\ t.rates = mem[r].rates /\ t.started = mem[r].started
  BY <1>4, <1>6 DEF State
<1>11. mem' = [mem EXCEPT ![r] = t]
  BY <1>8
<1> HIDE DEF t
<1>12. /\ mem' \in [Replica -> State] /\ outbox' \in [Replica -> Seq(OutMessages)]
       /\ mem'[r] = t /\ outbox'[r] = o.sends
       /\ \A q \in Replica : q # r => mem'[q] = mem[q] /\ outbox'[q] = outbox[q]
  <2>1. mem' \in [Replica -> State] /\ mem'[r] = t /\ \A q \in Replica : q # r => mem'[q] = mem[q]
    BY <1>10, <1>11 DEF TypeOK
  <2>2. /\ outbox' \in [Replica -> Seq(OutMessages)] /\ outbox'[r] = o.sends
        /\ \A q \in Replica : q # r => outbox'[q] = outbox[q]
    <3>1. outbox \in [Replica -> Seq(OutMessages)]
      BY DEF TypeOK, OutMessages
    <3> QED
      BY <1>1, <1>8, <3>1
  <2> QED
    BY <2>1, <2>2
<1>13. /\ handler' \in [Replica -> [end : {"idle", "checkpoint", "forward", "complete", "global"}, owner : Owners]]
       /\ handler'[r] = h /\ \A q \in Replica : q # r => handler'[q] = handler[q]
  BY <1>7, <1>8, HandlerUpdates
<1>14. StepOf(r)
  <2>1. TypeOK'
    BY <1>2, <1>12, <1>13 DEF TypeOK, OutMessages
  <2>2. Elsewhere(r)
    BY <1>2, <1>12, <1>13 DEF Elsewhere, Same
  <2> QED
    BY <1>2, <2>1, <2>2 DEF StepOf
<1>15. handler[r].end = "idle" /\ outbox[r] = <<>>
  BY <1>2 DEF Idle, SelfAt, HandlerAt
<1>16. Saved(r) = disk[r].client.state.client
       /\ Saved(r)' = (IF o.end = "forward" THEN c ELSE disk[r].client.state.client)
  BY <1>2, <1>7, <1>10, <1>12, <1>13, <1>15 DEF Saved
<1>17. RatesAt(r)'
  BY <1>1, <1>2, <1>3, <1>7, <1>10, <1>12, <1>13 DEF SelfAt, RatesAt, RatesCame
<1>18. ReadyAt(r)'
  BY <1>2, <1>3, <1>10, <1>12 DEF SelfAt, ReadyAt
<1>19. HandlerAt(r)'
  BY <1>1, <1>2, <1>5, <1>7, <1>12, <1>13 DEF HandlerAt
<1>20. StateAt(r)'
  <2>1. \A x \in Sender : disk[r].client.state.client.coord[x] \in Nat /\ c.coord[x] \in Nat
    BY <1>6, TypesAre, ClientFields
  <2>2. \A x \in Sender : disk[r].client.state.client.coord[x] <= mem[r].client.coord[x]
    BY <1>16 DEF SelfAt, StateAt
  <2>3. \A x \in Sender : Saved(r)'.coord[x] <= c.coord[x]
    BY <1>4, <1>9, <1>16, <2>1, <2>2
  <2>4. /\ mem[r].client.outSeq = Saved(r).outSeq /\ (Protected /\ N = 1 => Saved(r).outSeq = 0)
        /\ mem[r].client.seen \subseteq HomeOf(r)
        /\ disk[r].client.state.client.seen \subseteq mem[r].client.seen
    BY <1>15 DEF SelfAt, StateAt
  <2>5. mem'[r].client = c /\ c.seen = mem[r].client.seen /\ disk'[r] = disk[r] /\ handler'[r].end = o.end
    BY <1>2, <1>6, <1>7, <1>10, <1>12, <1>13
  <2>6. o.end # "complete" => c.outSeq = Saved(r)'.outSeq
    BY <1>1, <1>6, <1>16, <2>4
  <2>7. Protected /\ N = 1 => Saved(r)'.outSeq = 0
    BY <1>1, <1>6, <1>16, <2>4
  <2>8. HomeOf(r)' = HomeOf(r)
    BY DEF HomeOf
  <2> QED
    BY <2>3, <2>4, <2>5, <2>6, <2>7, <2>8 DEF StateAt
<1>21. CountAt(r)'
  BY <1>2, <1>6, <1>10, <1>12 DEF SelfAt, CountAt, Counted
<1>22. SelfAt(r)'
  BY <1>17, <1>18, <1>19, <1>20, <1>21 DEF SelfAt
<1> QED
  BY <1>1, <1>2, <1>3, <1>5, <1>6, <1>7, <1>9, <1>10, <1>12, <1>13, <1>14, <1>15, <1>22 DEF Turned
-----------------------------------------------------------------------------
(* A handler of an EOF or a token keeps the invariant of the ring. *)

LEMMA TurnCheckpoint ==
  ASSUME TypeOK, \A q \in Replica : SelfAt(q), NEW r \in Replica, NEW m, NEW s, NEW o, Turned(r, m, s, o),
         o.end = "checkpoint"
  PROVE  Quiet
<1>1. StepOf(r) /\ SelfAt(r)' /\ s \in ClientState /\ OutcomeOK(r, m, s, o)
  BY DEF Turned
<1>2. o.sends = <<>>
  BY <1>1, OutcomeTypes
<1>3. Saved(r)' = Saved(r)
  BY DEF Turned, Saved
<1>4. \A x \in Sender : Saved(r).coord[x] \in Nat
  BY TypesAre, ClientFields
<1>5. QuietAt(r)
  BY <1>2, <1>3, <1>4 DEF QuietAt, Turned
<1> QED
  BY <1>1, <1>5, QuietOfStep

LEMMA TurnKeeps ==
  ASSUME TypeOK, \A q \in Replica : SelfAt(q), NEW r \in Replica, NEW m, NEW s, NEW o, Turned(r, m, s, o)
  PROVE  /\ TypeOK' /\ \A q \in Replica : SelfAt(q)'
         /\ results' = results /\ agg' = agg /\ answer' = answer /\ tomb' = tomb
         /\ \A q \in Replica : /\ Coming(q)' = Coming(q)
                               /\ q # r => outbox'[q] = outbox[q] /\ handler'[q] = handler[q]
                                           /\ Saved(q)' = Saved(q)
                               /\ Kept(q) \subseteq Kept(q)'
                               /\ Waiting(q)' \subseteq Waiting(q)
         /\ Saved(r)' = (IF o.end = "forward" THEN mem'[r].client ELSE Saved(r))
<1>1. StepOf(r) /\ SelfAt(r)' /\ SelfAt(r)
  BY DEF Turned
<1>2. ASSUME NEW q \in Replica
      PROVE  SelfAt(q)'
  <2>1. CASE q = r
    BY <1>1, <2>1
  <2>2. CASE q # r
    <3>1. Same(q) /\ fetched' = fetched
      BY <1>1, <2>2 DEF StepOf, Elsewhere
    <3> QED
      BY <3>1, SameIsKept
  <2> QED
    BY <2>1, <2>2
<1>3. TypeOK' /\ results' = results /\ agg' = agg /\ answer' = answer /\ tomb' = tomb
  BY <1>1 DEF StepOf, Turned
<1>4. ASSUME NEW q \in Replica, q # r
      PROVE  Coming(q)' = Coming(q) /\ outbox'[q] = outbox[q] /\ handler'[q] = handler[q] /\ Saved(q)' = Saved(q)
  <2>1. Same(q)
    BY <1>1, <1>4 DEF StepOf, Elsewhere
  <2> QED
    BY <2>1 DEF Same, Coming, Saved
<1>5. Saved(r)' = (IF o.end = "forward" THEN mem'[r].client ELSE Saved(r))
  BY DEF Turned, Saved
<1>6. Coming(r)' = Coming(r)
  BY DEF Turned
<1>7. Saved(r).seen \subseteq Saved(r)'.seen
  <2>1. Saved(r).seen \subseteq mem[r].client.seen
    BY <1>1 DEF SelfAt, StateAt, Saved
  <2> QED
    BY <1>5, <2>1 DEF Turned
<1>8. ASSUME NEW x \in Sender
      PROVE  /\ Saved(r).coord[x] <= Saved(r)'.coord[x]
             /\ Saved(r).coord[x] \in Nat /\ Saved(r)'.coord[x] \in Nat
  <2>1. Saved(r).coord[x] \in Nat /\ Saved(r)'.coord[x] \in Nat /\ mem[r].client.coord[x] \in Nat
    BY <1>3, TypesAre, NextTypes, ClientFields
  <2>2. Saved(r).coord[x] <= mem[r].client.coord[x]
    BY <1>1 DEF SelfAt, StateAt
  <2> QED
    BY <1>5, <2>1, <2>2 DEF Turned
<1>9. ASSUME NEW q \in Replica
      PROVE  Kept(q) \subseteq Kept(q)'
  <2>1. HomeOf(q)' = HomeOf(q)
    BY DEF HomeOf
  <2>2. Saved(q).seen \subseteq Saved(q)'.seen
    BY <1>4, <1>7
  <2> QED
    BY <1>3, <2>1, <2>2 DEF Kept
<1>10. ASSUME NEW q \in Replica, NEW x \in Waiting(q)'
       PROVE  x \in Waiting(q)
  <2>1. /\ x \in Coming(q)' /\ x.type \in {"eof", "token"} /\ IsOpen(x)
        /\ q \notin tomb' /\ x.seq > Saved(q)'.coord[x.sender]
    BY DEF Waiting, IsOpen
  <2>2. x \in Coming(q)
    BY <1>4, <1>6, <2>1
  <2>3. x.sender \in Sender /\ x.seq \in Nat
    <3>1. x \in Messages
      BY <2>2, TypesAre
    <3> QED
      BY <2>1, <3>1, MessageIs, ReplicaFacts
  <2>4. x.seq > Saved(q).coord[x.sender]
    <3>1. CASE q = r
      BY <1>8, <2>1, <2>3, <3>1
    <3>2. CASE q # r
      BY <1>4, <2>1, <3>2
    <3> QED
      BY <3>1, <3>2
  <2> QED
    BY <1>3, <2>1, <2>2, <2>4 DEF Waiting
<1> QED
  BY <1>2, <1>3, <1>4, <1>5, <1>6, <1>9, <1>10

(* More that is kept: tokens still count no more than that. *)
LEMMA TokensGrow ==
  ASSUME \A q \in Replica : Kept(q) \subseteq Kept(q)', NEW x \in Messages \cup Outputs, x.type = "token", TokenOK(x)
  PROVE  TokenOK(x)'
<1>1. x.sender \in Replica /\ x.sum \in Nat /\ x.closing \in BOOLEAN
  <2>1. x.sender \in Replica /\ x.sum \in 0 .. Total /\ x.closing \in BOOLEAN
    BY MessageIs
  <2> QED
    BY <2>1, FiniteBatches
<1>2. KeptBy(x.sender) \subseteq KeptBy(x.sender)' /\ KeptBy(x.sender)' \in SUBSET Batch
  BY ReplicaFacts DEF KeptBy
<1>3. /\ Cardinality(KeptBy(x.sender)) <= Cardinality(KeptBy(x.sender)')
      /\ Cardinality(KeptBy(x.sender)) \in Nat /\ Cardinality(KeptBy(x.sender)') \in Nat
  BY <1>2, MoreBatches, FiniteBatches
<1> QED
  BY <1>1, <1>3 DEF TokenOK

LEMMA OutboxIs ==
  ASSUME TypeOK, NEW q \in Replica
  PROVE  /\ Len(outbox[q]) \in Nat
         /\ \A i \in 1 .. Len(outbox[q]) : outbox[q][i] \in OutMessages /\ outbox[q][i] \in Messages \cup Outputs
<1>1. outbox[q] \in Seq(OutMessages) /\ OutMessages \subseteq Messages \cup Outputs
  BY TypesAre, MessagesSent DEF OutMessages
<1> QED
  BY <1>1

(* The messages in the inboxes: they are the same, and mean what they did.    *)
LEMMA TokensOfTurn ==
  ASSUME TypeOK, TokenInv, NEW r \in Replica, \A q \in Replica : Kept(q) \subseteq Kept(q)',
         \A q \in Replica : Coming(q)' = Coming(q) /\ (q # r => outbox'[q] = outbox[q]),
         \A i \in 1 .. Len(outbox'[r]) : \A x : x = outbox'[r][i] =>
           /\ x.type # "batch"
           /\ x.type = "eof" => r = 0
           /\ x.type # "eof" => x.sender = r
           /\ x.type = "token" => TokenOK(x)'
  PROVE  TokenInv'
<1>1. ASSUME NEW q \in Replica, NEW x \in Coming(q)'
      PROVE  /\ x.type = "batch" => x.batch \in HomeOf(q)
             /\ x.type = "eof" => q = 0
             /\ x.type = "token" => q = Successor(x.sender) /\ TokenOK(x)'
  <2>1. x \in Coming(q)
    OBVIOUS
  <2>2. x \in Messages
    BY <2>1, TypesAre
  <2> QED
    BY <2>1, <2>2, TokensGrow DEF TokenInv
<1>2. ASSUME NEW q \in Replica, NEW i \in 1 .. Len(outbox'[q]), NEW x, x = outbox'[q][i]
      PROVE  /\ x.type # "batch"
             /\ x.type = "eof" => q = 0
             /\ x.type # "eof" => x.sender = q
             /\ x.type = "token" => TokenOK(x)'
  <2>1. CASE q = r
    BY <1>2, <2>1
  <2>2. CASE q # r
    <3>1. x = outbox[q][i] /\ i \in 1 .. Len(outbox[q])
      BY <1>2, <2>2
    <3>2. x \in Messages \cup Outputs
      BY <3>1, OutboxIs
    <3> QED
      BY <3>1, <3>2, TokensGrow DEF TokenInv
  <2> QED
    BY <2>1, <2>2
<1>3. \A q : HomeOf(q)' = HomeOf(q)
  BY DEF HomeOf
<1> QED
  BY <1>1, <1>2, <1>3 DEF TokenInv
-----------------------------------------------------------------------------
(* The outputs of a turn *)

LEMMA OutputsOfTurn ==
  ASSUME TypeOK, OutputInv, ExactInv, NEW r \in Replica,
         results' = results, agg' = agg, answer' = answer,
         \A q \in Replica : q # r => outbox'[q] = outbox[q],
         Protected => \A i \in 1 .. Len(outbox'[r]) :
           /\ outbox'[r][i].type = "partial" => outbox'[r][i].count = Cardinality(MicroOf(r))
           /\ outbox'[r][i].type = "outeof"
                => MicroOf(r) = {} \/ \E j \in 1 .. i - 1 : outbox'[r][j].type = "partial"
  PROVE  OutputInv' /\ ExactInv'
<1> SUFFICES ASSUME Protected
             PROVE  OutputInv' /\ ExactInv'
  BY DEF OutputInv, ExactInv
<1>1. \A q : (Given(q)' <=> Given(q)) /\ (Added(q)' <=> Added(q)) /\ MicroOf(q)' = MicroOf(q)
  BY DEF Given, Added, MicroOf, HomeOf, Partials
<1>2. OutputInv'
  <2>1. ASSUME NEW m \in results, m.type = "outeof"
        PROVE  Given(m.sender)'
    BY <1>1, <2>1 DEF OutputInv
  <2>2. ASSUME NEW q \in Replica, NEW i \in 1 .. Len(outbox'[q]), outbox'[q][i].type = "outeof"
        PROVE  Given(q)' \/ \E j \in 1 .. i - 1 : outbox'[q][j].type = "partial"
    <3>1. CASE q = r
      <4>1. MicroOf(r) = {} => Given(r)
        BY DEF Given
      <4> QED
        BY <1>1, <2>2, <3>1, <4>1
    <3>2. CASE q # r
      BY <1>1, <2>2, <3>2 DEF OutputInv
    <3> QED
      BY <3>1, <3>2
  <2> QED
    BY <2>1, <2>2 DEF OutputInv
<1>3. ExactInv'
  <2>1. ASSUME NEW q \in Replica, NEW i \in 1 .. Len(outbox'[q]), outbox'[q][i].type = "partial"
        PROVE  outbox'[q][i].count = Cardinality(MicroOf(q))
    BY <2>1 DEF ExactInv
  <2>2. AddedMicro' = AddedMicro
    BY DEF AddedMicro, Added
  <2> QED
    BY <1>1, <2>1, <2>2 DEF ExactInv
<1> QED
  BY <1>2, <1>3

(* A token goes on, or the EOF is put back (RingCoordinator). *)
LEMMA TurnForward ==
  ASSUME TypeOK, \A q \in Replica : SelfAt(q), RingInv, NEW r \in Replica, NEW m, NEW s, NEW o,
         Turned(r, m, s, o), o.end = "forward"
  PROVE  RingInv'
<1>1. /\ s \in ClientState /\ OutcomeOK(r, m, s, o) /\ outbox'[r] = o.sends /\ outbox[r] = <<>>
      /\ r \notin tomb /\ m \in Coming(r) /\ m.type \in {"eof", "token"} /\ m.sender \in Sender /\ m.seq \in Nat
      /\ m.seq > mem[r].client.coord[m.sender]
      /\ handler'[r].end = "forward" /\ handler[r].end = "idle"
      /\ mem'[r].client.seen = s.seen /\ s.seen = mem[r].client.seen
      /\ mem'[r].client.coord[m.sender] = m.seq
  BY DEF Turned
<1>2. /\ TypeOK' /\ \A q \in Replica : SelfAt(q)'
      /\ results' = results /\ agg' = agg /\ answer' = answer /\ tomb' = tomb
      /\ \A q \in Replica : /\ Coming(q)' = Coming(q)
                            /\ q # r => outbox'[q] = outbox[q] /\ handler'[q] = handler[q]
                                        /\ Saved(q)' = Saved(q)
                            /\ Kept(q) \subseteq Kept(q)'
                            /\ Waiting(q)' \subseteq Waiting(q)
      /\ Saved(r)' = mem'[r].client
  BY TurnKeeps
<1>3. IsOpen(m) /\ Forwards(r, s, o.sends)
  BY <1>1 DEF OutcomeOK
<1> PICK x \in ClientMessages :
      /\ o.sends = <<x>>
      /\ \/ x.type = "eof" /\ r = 0
         \/ /\ x.type = "token" /\ x.sender = r /\ N > 1
            /\ ~x.closing => x.sum <= Cardinality(Passed(r) \cup s.seen)
            /\ x.closing => AllKept
  BY <1>3 DEF Forwards
<1>4. /\ \A i \in 1 .. Len(outbox'[r]) : i = 1 /\ outbox'[r][i] = x
      /\ x.type \in {"eof", "token"}
  <2>1. outbox'[r] = <<x>>
    BY <1>1
  <2> QED
    BY <2>1
<1>5. m \in Waiting(r)
  <2>1. Saved(r).coord[m.sender] <= mem[r].client.coord[m.sender]
    BY <1>1 DEF SelfAt, StateAt
  <2>2. Saved(r).coord[m.sender] \in Nat /\ mem[r].client.coord[m.sender] \in Nat
    BY <1>1, TypesAre, ClientFields
  <2>3. m.seq > Saved(r).coord[m.sender]
    BY <1>1, <2>1, <2>2
  <2> QED
    BY <1>1, <1>3, <2>3 DEF Waiting
<1>6. Protected => \A q \in Replica : Waiting(q)' = {} /\ Sending(q) = {}
  <2> SUFFICES ASSUME Protected
               PROVE  \A q \in Replica : Waiting(q)' = {} /\ Sending(q) = {}
    OBVIOUS
  <2>1. \A q \in Replica : Sending(q) = {}
    BY <1>5 DEF RingInv, RoundInv
  <2>2. m \notin Waiting(r)'
    <3>1. ~(m.seq > Saved(r)'.coord[m.sender])
      BY <1>1, <1>2
    <3> QED
      BY <3>1 DEF Waiting
  <2>3. ASSUME NEW q \in Replica, NEW y \in Waiting(q)'
        PROVE  FALSE
    <3>1. y \in Waiting(q)
      BY <1>2
    <3>2. q = r /\ y = m
      BY <1>5, <3>1 DEF RingInv, RoundInv
    <3> QED
      BY <2>2, <2>3, <3>2
  <2> QED
    BY <2>1, <2>3
<1>7. Protected => \A q \in Replica : \A i \in Sending(q)' : q = r /\ i = 1 /\ IsOpen(x)
  <2>1. ASSUME Protected, NEW q \in Replica, NEW i \in Sending(q)'
        PROVE  q = r /\ i = 1 /\ IsOpen(x)
    <3>1. i \in 1 .. Len(outbox'[q]) /\ IsOpen(outbox'[q][i])
      BY DEF Sending, IsOpen
    <3>2. q = r
      BY <1>2, <1>6, <2>1, <3>1 DEF Sending
    <3> QED
      BY <1>4, <3>1, <3>2
  <2> QED
    BY <2>1
<1>8. RoundInv'
  BY <1>6, <1>7 DEF RoundInv
<1>9. x.type = "token" => TokenOK(x)'
  <2> SUFFICES ASSUME x.type = "token", ~x.closing
               PROVE  x.sum <= Cardinality(KeptBy(r)')
    BY DEF TokenOK
  <2>1. mem[r].client.seen \subseteq HomeOf(r)
    BY DEF SelfAt, StateAt
  <2>2. s.seen \subseteq Kept(r)'
    BY <1>1, <1>2, <2>1 DEF Kept, HomeOf
  <2>3. ASSUME NEW b \in Passed(r) \cup s.seen
        PROVE  b \in KeptBy(r)'
    <3>1. b \in Batch
      BY <1>1, ClientFields DEF Passed
    <3>2. home[b] \in Replica /\ home[b] \in Nat /\ r \in Nat
      BY <3>1, ReplicaFacts
    <3>3. CASE b \in Passed(r)
      BY <1>2, <3>1, <3>2, <3>3 DEF KeptBy, Passed
    <3>4. CASE b \in s.seen
      <4>1. home[b] = r
        BY <1>1, <2>1, <3>4 DEF HomeOf
      <4> QED
        BY <2>2, <3>1, <3>2, <3>4, <4>1 DEF KeptBy
    <3> QED
      BY <3>3, <3>4
  <2>4. KeptBy(r)' \in SUBSET Batch /\ Passed(r) \cup s.seen \in SUBSET KeptBy(r)'
    BY <2>3 DEF KeptBy
  <2>5. Cardinality(Passed(r) \cup s.seen) <= Cardinality(KeptBy(r)')
    BY <2>4, MoreBatches
  <2>6. /\ x.sum \in Nat /\ Cardinality(Passed(r) \cup s.seen) \in Nat
        /\ Cardinality(KeptBy(r)') \in Nat
    <3>1. x.sum \in 0 .. Total /\ Total \in Nat
      BY MessageIs, FiniteBatches DEF Messages
    <3>2. Passed(r) \cup s.seen \in SUBSET Batch
      BY <2>4
    <3> QED
      BY <2>4, <3>1, <3>2, FiniteBatches
  <2> QED
    BY <2>5, <2>6
<1>10. TokenInv'
  <2>1. \A i \in 1 .. Len(outbox'[r]) : \A y : y = outbox'[r][i] =>
          /\ y.type # "batch"
          /\ y.type = "eof" => r = 0
          /\ y.type # "eof" => y.sender = r
          /\ y.type = "token" => TokenOK(y)'
    BY <1>4, <1>9
  <2> QED
    BY <1>2, <2>1, TokensOfTurn DEF RingInv
<1>11. ASSUME NEW q \in Replica, NEW n \in SentSeqs(q)'
       PROVE  n \in SentSeqs(q)
  <2>1. \/ n \in {p.seq : p \in Partials(q)'}
        \/ n \in {p[2] : p \in {y \in agg.partials : y[1] = q}}
        \/ \E i \in 1 .. Len(outbox'[q]) : outbox'[q][i].type = "partial" /\ n = outbox'[q][i].seq
    BY <1>2 DEF SentSeqs
  <2>2. Partials(q)' = Partials(q)
    BY <1>2 DEF Partials
  <2>3. CASE \E i \in 1 .. Len(outbox'[q]) : outbox'[q][i].type = "partial" /\ n = outbox'[q][i].seq
    <3>1. q # r
      BY <1>4, <2>3
    <3> QED
      BY <1>2, <2>3, <3>1 DEF SentSeqs
  <2> QED
    BY <2>1, <2>2, <2>3 DEF SentSeqs
<1>12. Protected /\ N > 1 => ~Ending
  BY <1>5 DEF RingInv, ClosedInv
<1>13. ASSUME Protected, N > 1, Ending'
       PROVE  IsClosing(x)
  <2>1. PICK q \in Replica : \/ q \in tomb' \/ handler'[q].end = "complete"
                             \/ \E y \in Coming(q)' : IsClosing(y)
                             \/ \E i \in 1 .. Len(outbox'[q]) : IsClosing(outbox'[q][i])
                             \/ SentSeqs(q)' # {}
    BY <1>13 DEF Ending, IsClosing
  <2>2. /\ q \notin tomb' /\ handler'[q].end # "complete" /\ SentSeqs(q)' = {}
        /\ \A y \in Coming(q)' : ~IsClosing(y)
    <3>1. q \notin tomb' /\ SentSeqs(q)' = {} /\ \A y \in Coming(q)' : ~IsClosing(y)
      BY <1>2, <1>11, <1>12, <1>13 DEF Ending
    <3>2. handler'[q].end # "complete"
      BY <1>1, <1>2, <1>12, <1>13 DEF Ending
    <3> QED
      BY <3>1, <3>2
  <2>3. PICK i \in 1 .. Len(outbox'[q]) : IsClosing(outbox'[q][i])
    BY <2>1, <2>2
  <2>4. q = r
    BY <1>2, <1>12, <1>13, <2>3 DEF Ending
  <2> QED
    BY <1>4, <2>3, <2>4
<1>14. ClosedInv'
  <2> SUFFICES ASSUME Protected, N > 1, Ending', NEW q \in Replica
               PROVE  HomeOf(q) \subseteq Kept(q)' /\ Waiting(q)' = {} /\ Sending(q)' = {}
    BY DEF ClosedInv, HomeOf
  <2>1. IsClosing(x)
    BY <1>13
  <2>2. AllKept /\ ~IsOpen(x)
    BY <2>1 DEF IsClosing, IsOpen
  <2>3. HomeOf(q) \subseteq Kept(q)'
    BY <1>2, <2>2 DEF AllKept, HomeOf
  <2> QED
    BY <1>6, <1>7, <2>2, <2>3
<1>15. SeqInv'
  <2>1. \A q \in Replica : SentSeqs(q)' \subseteq SentSeqs(q)
    BY <1>11
  <2>2. Protected /\ N > 1 => \A q \in Replica : SentSeqs(q)' = {}
    BY <1>12, <2>1 DEF Ending
  <2>3. Protected /\ N = 1 => \A q \in Replica : Saved(q)'.outSeq = Saved(q).outSeq
    BY <1>2 DEF SelfAt, StateAt
  <2>4. N = 1 \/ N > 1
    BY ReplicaFacts
  <2> QED
    BY <1>2, <2>1, <2>2, <2>3, <2>4 DEF RingInv, SeqInv
<1>16. OutputInv' /\ ExactInv'
  <2>1. \A i \in 1 .. Len(outbox'[r]) : outbox'[r][i].type \notin {"partial", "outeof"}
    BY <1>4
  <2> QED
    BY <1>2, <2>1, OutputsOfTurn DEF RingInv
<1> QED
  BY <1>8, <1>10, <1>14, <1>15, <1>16 DEF RingInv

(* The client ends at a replica: its count goes out (outcomeFor). *)
LEMMA TurnComplete ==
  ASSUME TypeOK, \A q \in Replica : SelfAt(q), RingInv, NEW r \in Replica, NEW m, NEW s, NEW o,
         Turned(r, m, s, o), o.end = "complete"
  PROVE  RingInv'
<1>1. /\ s \in ClientState /\ OutcomeOK(r, m, s, o) /\ outbox'[r] = o.sends /\ outbox[r] = <<>>
      /\ r \notin tomb /\ m \in Coming(r)
      /\ handler'[r].end = "complete" /\ handler[r].end = "idle"
      /\ s.seen = mem[r].client.seen /\ s.count = mem[r].client.count /\ s.outSeq = mem[r].client.outSeq
  BY DEF Turned
<1>2. /\ TypeOK' /\ \A q \in Replica : SelfAt(q)'
      /\ results' = results /\ agg' = agg /\ answer' = answer /\ tomb' = tomb
      /\ \A q \in Replica : /\ Coming(q)' = Coming(q)
                            /\ q # r => outbox'[q] = outbox[q] /\ handler'[q] = handler[q]
                            /\ Saved(q)' = Saved(q)
                            /\ Kept(q) \subseteq Kept(q)'
                            /\ Waiting(q)' \subseteq Waiting(q)
  BY <1>1, TurnKeeps
<1>3. Ends(r, s, o.sends) /\ IF N > 1 THEN IsClosing(m) ELSE s.seen = Batch
  BY <1>1 DEF OutcomeOK
<1>4. ASSUME NEW i \in 1 .. Len(outbox'[r]), NEW x, x = outbox'[r][i]
      PROVE  /\ x.type \in {"partial", "outeof", "token"} /\ x.sender = r
             /\ x.type = "token" => IsClosing(x) /\ N > 1
             /\ ~IsOpen(x)
             /\ x.type = "partial" => x.seq = s.outSeq + 1 /\ x.count = s.count
             /\ x.type = "outeof" => s.count = 0 \/ (i = 2 /\ outbox'[r][1].type = "partial")
  <2>1. /\ CountOf(r, s).type = "partial" /\ CountOf(r, s).sender = r
        /\ CountOf(r, s).seq = s.outSeq + 1 /\ CountOf(r, s).count = s.count
    <3>1. s.outSeq + 1 \in Nat /\ s.count \in Nat
      BY <1>1, ClientFields
    <3> QED
      BY <3>1, MessagesSent DEF CountOf
  <2>2. \/ x = CountOf(r, s)
        \/ /\ x.type = "outeof" /\ x.sender = r
           /\ s.count = 0 \/ (i = 2 /\ outbox'[r][1].type = "partial")
        \/ IsClosing(x) /\ x.sender = r /\ N > 1
    BY <1>1, <1>3, <1>4 DEF Ends
  <2> QED
    BY <2>1, <2>2 DEF IsClosing, IsOpen
<1>5. Protected => s.seen = HomeOf(r)
  <2> SUFFICES ASSUME Protected
               PROVE  s.seen = HomeOf(r)
    OBVIOUS
  <2>1. s.seen \subseteq HomeOf(r) /\ Saved(r).seen \subseteq s.seen
    BY <1>1 DEF SelfAt, StateAt, Saved
  <2>2. CASE N > 1
    <3>1. Ending
      BY <1>1, <1>3, <2>2 DEF Ending
    <3>2. HomeOf(r) \subseteq Kept(r)
      BY <2>2, <3>1 DEF RingInv, ClosedInv
    <3> QED
      BY <1>1, <2>1, <3>2 DEF Kept
  <2>3. CASE ~(N > 1)
    BY <1>3, <2>1, <2>3 DEF HomeOf
  <2> QED
    BY <2>2, <2>3
<1>6. \A q \in Replica : Sending(q)' \subseteq Sending(q)
  <2>1. ASSUME NEW q \in Replica, NEW i \in Sending(q)'
        PROVE  i \in Sending(q)
    <3>1. i \in 1 .. Len(outbox'[q]) /\ IsOpen(outbox'[q][i])
      BY DEF Sending, IsOpen
    <3>2. q # r
      BY <1>4, <3>1
    <3> QED
      BY <1>2, <3>1, <3>2 DEF Sending
  <2> QED
    BY <2>1
<1>7. RoundInv'
  BY <1>2, <1>6 DEF RingInv, RoundInv
<1>8. TokenInv'
  <2>1. \A i \in 1 .. Len(outbox'[r]) : \A y : y = outbox'[r][i] =>
          /\ y.type # "batch"
          /\ y.type = "eof" => r = 0
          /\ y.type # "eof" => y.sender = r
          /\ y.type = "token" => TokenOK(y)'
    BY <1>4 DEF TokenOK, IsClosing
  <2> QED
    BY <1>2, <2>1, TokensOfTurn DEF RingInv
<1>9. ClosedInv'
  <2> SUFFICES ASSUME Protected, N > 1, NEW q \in Replica
               PROVE  HomeOf(q) \subseteq Kept(q)' /\ Waiting(q)' = {} /\ Sending(q)' = {}
    BY DEF ClosedInv, HomeOf
  <2>1. Ending
    BY <1>1, <1>3 DEF Ending
  <2>2. HomeOf(q) \subseteq Kept(q) /\ Waiting(q) = {} /\ Sending(q) = {}
    BY <2>1 DEF RingInv, ClosedInv
  <2> QED
    BY <1>2, <1>6, <2>2
<1>10. ASSUME NEW q \in Replica, NEW n \in SentSeqs(q)'
       PROVE  n \in SentSeqs(q) \/ (q = r /\ n = Saved(r).outSeq + 1)
  <2>1. \/ n \in {p.seq : p \in Partials(q)'}
        \/ n \in {p[2] : p \in {y \in agg.partials : y[1] = q}}
        \/ \E i \in 1 .. Len(outbox'[q]) : outbox'[q][i].type = "partial" /\ n = outbox'[q][i].seq
    BY <1>2 DEF SentSeqs
  <2>2. Partials(q)' = Partials(q)
    BY <1>2 DEF Partials
  <2>3. CASE \E i \in 1 .. Len(outbox'[q]) : outbox'[q][i].type = "partial" /\ n = outbox'[q][i].seq
    <3>1. CASE q = r
      <4>1. s.outSeq = Saved(r).outSeq
        BY <1>1 DEF SelfAt, StateAt
      <4> QED
        BY <1>4, <2>3, <3>1, <4>1
    <3>2. CASE q # r
      BY <1>2, <2>3, <3>2 DEF SentSeqs
    <3> QED
      BY <3>1, <3>2
  <2> QED
    BY <2>1, <2>2, <2>3 DEF SentSeqs
<1>11. SeqInv'
  <2>1. Protected => SentSeqs(r)' \subseteq {Saved(r).outSeq + 1}
    BY <1>1, <1>10 DEF RingInv, SeqInv
  <2>2. \A q \in Replica : q # r => SentSeqs(q)' \subseteq SentSeqs(q)
    BY <1>10
  <2> QED
    BY <1>2, <2>1, <2>2 DEF RingInv, SeqInv
<1>12. OutputInv' /\ ExactInv'
  <2>1. Protected => s.count = Cardinality(MicroOf(r))
    BY <1>1, <1>5 DEF SelfAt, CountAt, Counted, MicroOf
  <2>2. MicroOf(r) \in SUBSET Batch
    BY DEF MicroOf, HomeOf
  <2>3. Protected /\ s.count = 0 => MicroOf(r) = {}
    BY <2>1, <2>2, FiniteBatches, FS_EmptySet
  <2>4. ASSUME Protected, NEW i \in 1 .. Len(outbox'[r])
        PROVE  /\ outbox'[r][i].type = "partial" => outbox'[r][i].count = Cardinality(MicroOf(r))
               /\ outbox'[r][i].type = "outeof"
                    => MicroOf(r) = {} \/ \E j \in 1 .. i - 1 : outbox'[r][j].type = "partial"
    <3>1. outbox'[r][i].type = "partial" => outbox'[r][i].count = Cardinality(MicroOf(r))
      BY <1>4, <2>1, <2>4
    <3>2. ASSUME outbox'[r][i].type = "outeof"
          PROVE  MicroOf(r) = {} \/ \E j \in 1 .. i - 1 : outbox'[r][j].type = "partial"
      <4>1. s.count = 0 \/ (i = 2 /\ outbox'[r][1].type = "partial")
        BY <1>4, <3>2
      <4>2. i = 2 => 1 \in 1 .. i - 1
        OBVIOUS
      <4> QED
        BY <2>3, <2>4, <4>1, <4>2
    <3> QED
      BY <3>1, <3>2
  <2> QED
    BY <1>2, <2>4, OutputsOfTurn DEF RingInv
<1> QED
  BY <1>7, <1>8, <1>9, <1>11, <1>12 DEF RingInv
-----------------------------------------------------------------------------
LEMMA TurnStep ==
  ASSUME TypeOK, \A q \in Replica : SelfAt(q), RingInv, NEW r \in Replica, NEW m, NEW s, NEW o,
         Turned(r, m, s, o)
  PROVE  TypeOK' /\ (\A q \in Replica : SelfAt(q)') /\ RingInv'
<1>1. TypeOK' /\ \A q \in Replica : SelfAt(q)'
  BY TurnKeeps
<1>2. o.end \in {"checkpoint", "forward", "complete"}
  <2>1. s \in ClientState /\ OutcomeOK(r, m, s, o)
    BY DEF Turned
  <2> QED
    BY <2>1, OutcomeTypes
<1>3. ASSUME o.end = "checkpoint"
      PROVE  RingInv'
  BY <1>3, TurnCheckpoint, QuietStep
<1>4. ASSUME o.end = "forward"
      PROVE  RingInv'
  BY <1>4, TurnForward
<1>5. ASSUME o.end = "complete"
      PROVE  RingInv'
  BY <1>5, TurnComplete
<1> QED
  BY <1>1, <1>2, <1>3, <1>4, <1>5

LEMMA HandleEOFStep ==
  ASSUME TypeOK, \A q \in Replica : SelfAt(q), RingInv, NEW r \in Replica, NEW m \in inbox[r], HandleEOF(r, m)
  PROVE  TypeOK' /\ (\A q \in Replica : SelfAt(q)') /\ RingInv'
<1> DEFINE c == mem[r].client
           s == [c EXCEPT !.initiator = TRUE, !.cached = m.seq]
           o == UpstreamEOF(s)
<1>1. Accept(r, m, "eof") /\ Apply(r, m, o)
  BY DEF HandleEOF
<1>2. m \in Messages /\ m.type = "eof" /\ m \in Coming(r) /\ m.seq \in Nat
  BY <1>1, AcceptFacts, MessageIs
<1>3. r = 0 /\ IsOpen(m)
  BY <1>2 DEF RingInv, TokenInv, IsOpen
<1>4. c \in ClientState /\ c.seen \subseteq HomeOf(r)
  BY TypesAre DEF SelfAt, StateAt
<1>5. /\ s \in ClientState /\ s.seen = c.seen /\ s.count = c.count /\ s.outSeq = c.outSeq /\ s.coord = c.coord
  <2> HIDE DEF c
  <2> QED
    BY <1>2, <1>4, ClientUpdates DEF ClientState
<1> HIDE DEF s
<1>6. OutcomeOK(r, m, s, o)
  BY <1>3, <1>4, <1>5, UpstreamEOFOutcome
<1> HIDE DEF o
<1>7. Turned(r, m, s, o)
  BY <1>1, <1>5, <1>6, TurnFacts
<1> QED
  BY <1>7, TurnStep

LEMMA HandleTokenStep ==
  ASSUME TypeOK, \A q \in Replica : SelfAt(q), RingInv, NEW r \in Replica, NEW m \in inbox[r], HandleToken(r, m)
  PROVE  TypeOK' /\ (\A q \in Replica : SelfAt(q)') /\ RingInv'
<1> DEFINE s == mem[r].client
           o == RingToken(r, s, m)
<1>1. Accept(r, m, "token") /\ Apply(r, m, o)
  BY DEF HandleToken
<1>2. m \in Messages /\ m.type = "token" /\ m \in Coming(r) /\ m \in ClientMessages
  BY <1>1, AcceptFacts, MessageIs
<1>3. r = Successor(m.sender) /\ TokenOK(m)
  BY <1>2 DEF RingInv, TokenInv
<1>4. s \in ClientState /\ s.seen \subseteq HomeOf(r)
  BY TypesAre DEF SelfAt, StateAt
<1>5. OutcomeOK(r, m, s, o)
  BY <1>2, <1>3, <1>4, RingTokenOutcome
<1> HIDE DEF o
<1>6. Turned(r, m, s, o)
  BY <1>1, <1>4, <1>5, TurnFacts
<1> QED
  BY <1>6, TurnStep

-----------------------------------------------------------------------------
(* Publishing *)

Published(r, x) ==
  /\ x = outbox[r][1] /\ x \in OutMessages
  /\ Len(outbox[r]) \in Nat /\ 1 \in 1 .. Len(outbox[r])
  /\ outbox' \in [Replica -> Seq(OutMessages)]
  /\ Len(outbox'[r]) = Len(outbox[r]) - 1
  /\ \A i \in 1 .. Len(outbox'[r]) : i + 1 \in 1 .. Len(outbox[r]) /\ outbox'[r][i] = outbox[r][i + 1]
  /\ \A q \in Replica : q # r => outbox'[q] = outbox[q]
  /\ UNCHANGED <<fetched, pending, mem, disk, tomb, handler, agg, answer, crashes, refetches>>

LEMMA PublishFacts ==
  ASSUME TypeOK, NEW r \in Replica, Publish(r)
  PROVE  \E x : x = Head(outbox[r]) /\ Published(r, x) /\ Send(r, x)
<1>1. outbox[r] \in Seq(OutMessages) /\ outbox[r] # <<>>
  BY TypesAre DEF Publish
<1> PICK x : x = Head(outbox[r])
  OBVIOUS
<1>2. /\ Len(outbox[r]) \in Nat /\ Len(outbox[r]) >= 1 /\ x = outbox[r][1] /\ x \in OutMessages
      /\ Tail(outbox[r]) \in Seq(OutMessages) /\ Len(Tail(outbox[r])) = Len(outbox[r]) - 1
      /\ \A i \in 1 .. Len(Tail(outbox[r])) : Tail(outbox[r])[i] = outbox[r][i + 1]
  BY <1>1, HeadTailProperties
<1>3. outbox' = [outbox EXCEPT ![r] = Tail(outbox[r])] /\ outbox \in [Replica -> Seq(OutMessages)]
  BY DEF Publish, TypeOK, OutMessages
<1>4. /\ outbox' \in [Replica -> Seq(OutMessages)] /\ outbox'[r] = Tail(outbox[r])
      /\ \A q \in Replica : q # r => outbox'[q] = outbox[q]
  BY <1>2, <1>3
<1>5. ASSUME NEW i \in 1 .. Len(outbox'[r])
      PROVE  i + 1 \in 1 .. Len(outbox[r]) /\ outbox'[r][i] = outbox[r][i + 1]
  BY <1>2, <1>4
<1>6. UNCHANGED <<fetched, pending, mem, disk, tomb, handler, agg, answer, crashes, refetches>>
  BY DEF Publish
<1>7. Published(r, x)
  BY <1>2, <1>4, <1>5, <1>6 DEF Published
<1>8. Send(r, x)
  BY DEF Publish
<1> QED
  BY <1>7, <1>8

(* What a replica publishes is not the fetcher's, and the rest of its outbox follows. *)
LEMMA PublishedKeeps ==
  ASSUME TypeOK, TypeOK', \A q \in Replica : SelfAt(q), NEW r \in Replica, NEW x, Published(r, x),
         \A q \in Replica : inbox[q] \subseteq inbox'[q] /\ inbox'[q] \subseteq inbox[q] \cup {x},
         x # Rates, x # RatesEOF
  PROVE  /\ \A q \in Replica : SelfAt(q)'
         /\ \A q \in Replica : /\ Saved(q)' = Saved(q) /\ Kept(q)' = Kept(q) /\ KeptBy(q)' = KeptBy(q)
                               /\ (q \in tomb' <=> q \in tomb) /\ handler'[q] = handler[q]
                               /\ HomeOf(q)' = HomeOf(q) /\ MicroOf(q)' = MicroOf(q)
<1>1. UNCHANGED <<fetched, pending, mem, disk, tomb, handler>>
  BY DEF Published
<1>2. ASSUME NEW q \in Replica
      PROVE  SelfAt(q)'
  <2>1. SelfAt(q) /\ (Rates \in Coming(q)' <=> Rates \in Coming(q)) /\ (RatesEOF \in Coming(q)' <=> RatesEOF \in Coming(q))
    BY <1>1 DEF Coming
  <2>2. RatesAt(q)'
    BY <1>1, <2>1 DEF SelfAt, RatesAt, RatesCame
  <2>3. ReadyAt(q)' /\ StateAt(q)' /\ CountAt(q)'
    BY <1>1, <2>1 DEF SelfAt, ReadyAt, StateAt, CountAt, Counted, Saved, HomeOf
  <2>4. /\ outbox[q] = <<>> => outbox'[q] = <<>>
        /\ Len(outbox[q]) <= 1 => Len(outbox'[q]) <= 1
    <3>1. CASE q = r
      <4>1. outbox[r] # <<>>
        <5>1. Len(<<>>) = 0
          OBVIOUS
        <5> QED
          BY <5>1 DEF Published
      <4> QED
        BY <3>1, <4>1 DEF Published
    <3>2. CASE q # r
      BY <3>2 DEF Published
    <3> QED
      BY <3>1, <3>2
  <2>5. HandlerAt(q)'
    BY <1>1, <2>1, <2>4 DEF SelfAt, HandlerAt, Unacked
  <2> QED
    BY <2>2, <2>3, <2>5 DEF SelfAt
<1>3. \A q \in Replica : /\ Saved(q)' = Saved(q) /\ Kept(q)' = Kept(q)
                         /\ (q \in tomb' <=> q \in tomb) /\ handler'[q] = handler[q]
                         /\ HomeOf(q)' = HomeOf(q) /\ MicroOf(q)' = MicroOf(q)
  BY <1>1 DEF Saved, Kept, HomeOf, MicroOf
<1>4. \A q \in Replica : KeptBy(q)' = KeptBy(q)
  BY <1>3, ReplicaFacts DEF KeptBy
<1> QED
  BY <1>2, <1>3, <1>4

LEMMA TokenSame ==
  ASSUME \A q \in Replica : KeptBy(q)' = KeptBy(q), NEW x \in Messages \cup Outputs, x.type = "token"
  PROVE  TokenOK(x)' <=> TokenOK(x)
<1>1. x.sender \in Replica
  BY MessageIs
<1> QED
  BY <1>1 DEF TokenOK

(* What is left of the outboxes. *)
LEMMA PublishedRest ==
  ASSUME TypeOK, TypeOK', RingInv, NEW r \in Replica, NEW x, Published(r, x)
  PROVE  /\ \A q \in Replica : \A i \in 1 .. Len(outbox'[q]) :
              \E j \in 1 .. Len(outbox[q]) : outbox'[q][i] = outbox[q][j]
         /\ \A q \in Replica : \A i \in Sending(q)' : IF q = r THEN i + 1 \in Sending(r) ELSE i \in Sending(q)
         /\ Protected => \A p, q \in Replica : \A i \in Sending(p)', j \in Sending(q)' : p = q /\ i = j
         /\ Protected => \A q \in Replica : \A i \in 1 .. Len(outbox'[q]) :
              /\ outbox'[q][i].type = "partial" => outbox'[q][i].count = Cardinality(MicroOf(q))
              /\ outbox'[q][i].type = "outeof"
                   => \/ Given(q) \/ (q = r /\ x.type = "partial")
                      \/ \E j \in 1 .. i - 1 : outbox'[q][j].type = "partial"
<1>1. /\ x = outbox[r][1] /\ 1 \in 1 .. Len(outbox[r])
      /\ \A i \in 1 .. Len(outbox'[r]) : i + 1 \in 1 .. Len(outbox[r]) /\ outbox'[r][i] = outbox[r][i + 1]
      /\ \A q \in Replica : q # r => outbox'[q] = outbox[q]
  BY DEF Published
<1>2. ASSUME NEW q \in Replica, NEW i \in 1 .. Len(outbox'[q])
      PROVE  \E j \in 1 .. Len(outbox[q]) : outbox'[q][i] = outbox[q][j]
  <2>1. CASE q = r
    BY <1>1, <1>2, <2>1
  <2>2. CASE q # r
    <3>1. outbox'[q] = outbox[q]
      BY <1>1, <2>2
    <3> QED
      BY <1>2, <3>1
  <2> QED
    BY <2>1, <2>2
<1>3. ASSUME NEW q \in Replica, NEW i \in Sending(q)'
      PROVE  i \in Nat /\ i >= 1 /\ IF q = r THEN i + 1 \in Sending(r) ELSE i \in Sending(q)
  <2>1. i \in 1 .. Len(outbox'[q]) /\ IsOpen(outbox'[q][i])
    BY DEF Sending, IsOpen
  <2>2. i \in Nat /\ i >= 1
    <3>1. Len(outbox'[q]) \in Nat
      BY NextTypes
    <3> QED
      BY <2>1, <3>1
  <2> QED
    BY <1>1, <2>1, <2>2 DEF Sending
<1>4. ASSUME Protected, NEW p \in Replica, NEW q \in Replica, NEW i \in Sending(p)', NEW j \in Sending(q)'
      PROVE  p = q /\ i = j
  <2> DEFINE k == IF p = r THEN i + 1 ELSE i
             n == IF q = r THEN j + 1 ELSE j
  <2>1. k \in Sending(p) /\ n \in Sending(q) /\ i \in Nat /\ j \in Nat
    BY <1>3
  <2>2. p = q /\ k = n
    BY <1>4, <2>1 DEF RingInv, RoundInv
  <2> QED
    BY <2>1, <2>2
<1>5. ASSUME Protected, NEW q \in Replica, NEW i \in 1 .. Len(outbox'[q])
      PROVE  /\ outbox'[q][i].type = "partial" => outbox'[q][i].count = Cardinality(MicroOf(q))
             /\ outbox'[q][i].type = "outeof"
                  => \/ Given(q) \/ (q = r /\ x.type = "partial")
                     \/ \E j \in 1 .. i - 1 : outbox'[q][j].type = "partial"
  <2>1. outbox'[q][i].type = "partial" => outbox'[q][i].count = Cardinality(MicroOf(q))
    <3> PICK j \in 1 .. Len(outbox[q]) : outbox'[q][i] = outbox[q][j]
      BY <1>2
    <3>1. outbox[q][j].type = "partial" => outbox[q][j].count = Cardinality(MicroOf(q))
      BY <1>5 DEF RingInv, ExactInv
    <3> QED
      BY <3>1
  <2>2. CASE q # r
    <3>1. outbox'[q] = outbox[q] /\ i \in 1 .. Len(outbox[q])
      BY <1>1, <2>2
    <3>2. outbox[q][i].type = "outeof" => Given(q) \/ \E j \in 1 .. i - 1 : outbox[q][j].type = "partial"
      BY <1>5, <3>1 DEF RingInv, OutputInv
    <3> QED
      BY <2>1, <3>1, <3>2
  <2>3. CASE q = r
    <3>1. i + 1 \in 1 .. Len(outbox[r]) /\ outbox'[r][i] = outbox[r][i + 1] /\ Len(outbox'[r]) \in Nat
      BY <1>1, <2>3, NextTypes
    <3>2. ASSUME NEW j \in 1 .. (i + 1) - 1, outbox[r][j].type = "partial"
          PROVE  x.type = "partial" \/ \E k \in 1 .. i - 1 : outbox'[r][k].type = "partial"
      <4>1. CASE j = 1
        BY <1>1, <3>2, <4>1
      <4>2. CASE j # 1
        <5>1. j - 1 \in 1 .. i - 1 /\ j - 1 \in 1 .. Len(outbox'[r]) /\ (j - 1) + 1 = j
          BY <2>3, <3>1, <4>2
        <5>2. outbox'[r][j - 1] = outbox[r][j]
          BY <1>1, <5>1
        <5> QED
          BY <3>2, <5>1, <5>2
      <4> QED
        BY <4>1, <4>2
    <3>3. outbox[r][i + 1].type = "outeof" => Given(r) \/ \E j \in 1 .. (i + 1) - 1 : outbox[r][j].type = "partial"
      BY <1>5, <3>1 DEF RingInv, OutputInv
    <3> QED
      BY <2>1, <2>3, <3>1, <3>2, <3>3
  <2> QED
    BY <2>2, <2>3
<1> QED
  BY <1>2, <1>3, <1>4, <1>5

(* A token or an EOF goes to the inbox of d. *)
LEMMA SendOn ==
  ASSUME TypeOK, \A q \in Replica : SelfAt(q), RingInv, NEW r \in Replica, NEW x, Published(r, x),
         x.type \in {"eof", "token"}, NEW d \in Replica,
         x.type = "eof" => d = r, x.type = "token" => d = Successor(r),
         inbox' = [inbox EXCEPT ![d] = @ \cup {x}], results' = results
  PROVE  TypeOK' /\ (\A q \in Replica : SelfAt(q)') /\ RingInv'
<1>1. /\ x = outbox[r][1] /\ x \in OutMessages /\ 1 \in 1 .. Len(outbox[r])
      /\ outbox' \in [Replica -> Seq(OutMessages)]
      /\ \A i \in 1 .. Len(outbox'[r]) : i + 1 \in 1 .. Len(outbox[r]) /\ outbox'[r][i] = outbox[r][i + 1]
      /\ \A q \in Replica : q # r => outbox'[q] = outbox[q]
      /\ UNCHANGED <<fetched, pending, mem, disk, tomb, handler, agg, answer, crashes, refetches>>
  BY DEF Published
<1>2. x \in Messages /\ x # Rates /\ x # RatesEOF /\ x \in Messages \cup Outputs
  <2>1. x \in Messages \cup Outputs
    BY <1>1, MessagesSent DEF OutMessages
  <2>2. x \in ClientMessages
    BY <2>1, MessageIs
  <2> QED
    BY <2>1, <2>2, MessageIs, MessagesSent
<1>3. /\ inbox' \in [Replica -> SUBSET Messages] /\ inbox'[d] = inbox[d] \cup {x}
      /\ \A q \in Replica : q # d => inbox'[q] = inbox[q]
  BY <1>2 DEF TypeOK
<1>4. TypeOK'
  BY <1>1, <1>3 DEF TypeOK, OutMessages
<1>5. \A q \in Replica : inbox[q] \subseteq inbox'[q] /\ inbox'[q] \subseteq inbox[q] \cup {x}
  BY <1>3
<1>6. /\ \A q \in Replica : SelfAt(q)'
      /\ \A q \in Replica : /\ Saved(q)' = Saved(q) /\ Kept(q)' = Kept(q) /\ KeptBy(q)' = KeptBy(q)
                            /\ (q \in tomb' <=> q \in tomb) /\ handler'[q] = handler[q]
                            /\ HomeOf(q)' = HomeOf(q) /\ MicroOf(q)' = MicroOf(q)
  BY <1>2, <1>4, <1>5, PublishedKeeps
<1>7. \A q \in Replica : Coming(q)' = Coming(q) \/ (q = d /\ Coming(q)' = Coming(q) \cup {x})
  BY <1>1, <1>3 DEF Coming
<1>8. /\ x.type = "eof" => r = 0
      /\ x.type = "token" => x.sender = r /\ TokenOK(x)
  BY <1>1 DEF RingInv, TokenInv
<1>9. TokenInv'
  <2>1. ASSUME NEW q \in Replica, NEW y \in Coming(q)'
        PROVE  /\ y.type = "batch" => y.batch \in HomeOf(q)
               /\ y.type = "eof" => q = 0
               /\ y.type = "token" => q = Successor(y.sender) /\ TokenOK(y)'
    <3>1. CASE y \in Coming(q)
      <4>1. y \in Messages
        BY <3>1, TypesAre
      <4> QED
        BY <1>6, <3>1, <4>1, TokenSame DEF RingInv, TokenInv
    <3>2. CASE y \notin Coming(q)
      <4>1. y = x /\ q = d
        BY <1>7, <3>2
      <4>2. x.type = "token" => TokenOK(x)'
        BY <1>2, <1>6, <1>8, TokenSame
      <4> QED
        BY <1>8, <4>1, <4>2
    <3> QED
      BY <3>1, <3>2
  <2>2. ASSUME NEW q \in Replica, NEW i \in 1 .. Len(outbox'[q]), NEW y, y = outbox'[q][i]
        PROVE  /\ y.type # "batch"
               /\ y.type = "eof" => q = 0
               /\ y.type # "eof" => y.sender = q
               /\ y.type = "token" => TokenOK(y)'
    <3> PICK j \in 1 .. Len(outbox[q]) : y = outbox[q][j]
      BY <1>1, <2>2
    <3>1. y \in Messages \cup Outputs
      BY OutboxIs
    <3> QED
      BY <1>6, <3>1, TokenSame DEF RingInv, TokenInv
  <2> QED
    BY <1>6, <2>1, <2>2 DEF TokenInv
<1>10. \A q \in Replica : \A y \in Waiting(q)' : y \in Waiting(q) \/ (q = d /\ y = x /\ IsOpen(x))
  BY <1>6, <1>7 DEF Waiting, IsOpen
<1>11. \A q \in Replica : \A i \in Sending(q)' : IF q = r THEN i + 1 \in Sending(r) ELSE i \in Sending(q)
  BY <1>4, PublishedRest
<1>12. Protected /\ IsOpen(x) => \A q \in Replica : Waiting(q) = {} /\ Sending(q)' = {}
  <2> SUFFICES ASSUME Protected, IsOpen(x), NEW q \in Replica
               PROVE  Waiting(q) = {} /\ Sending(q)' = {}
    OBVIOUS
  <2>1. 1 \in Sending(r)
    BY <1>1 DEF Sending
  <2>2. Waiting(q) = {}
    BY <2>1 DEF RingInv, RoundInv
  <2>3. ASSUME NEW i \in Sending(q)'
        PROVE  FALSE
    <3>1. i \in Nat /\ i >= 1
      <4>1. i \in 1 .. Len(outbox'[q])
        BY DEF Sending
      <4>2. Len(outbox'[q]) \in Nat
        BY <1>4, NextTypes
      <4> QED
        BY <4>1, <4>2
    <3>2. CASE q = r
      <4>1. i + 1 = 1
        BY <1>11, <2>1, <3>2 DEF RingInv, RoundInv
      <4> QED
        BY <3>1, <4>1
    <3>3. CASE q # r
      BY <1>11, <2>1, <3>3 DEF RingInv, RoundInv
    <3> QED
      BY <3>2, <3>3
  <2> QED
    BY <2>2, <2>3
<1>13. RoundInv'
  <2> SUFFICES ASSUME Protected
               PROVE  RoundInv'
    BY DEF RoundInv
  <2>1. CASE IsOpen(x)
    BY <1>10, <1>12, <2>1 DEF RoundInv
  <2>2. CASE ~IsOpen(x)
    <3>1. ASSUME NEW q \in Replica
          PROVE  Waiting(q)' \subseteq Waiting(q)
      BY <1>10, <2>2
    <3>2. \A p, q \in Replica : \A i \in Sending(p)', j \in Sending(q)' : p = q /\ i = j
      BY <1>4, PublishedRest
    <3>3. ASSUME NEW q \in Replica, Sending(q)' # {}
          PROVE  \E y \in Replica : Sending(y) # {}
      BY <1>11, <3>3
    <3> QED
      BY <3>1, <3>2, <3>3 DEF RingInv, RoundInv
  <2> QED
    BY <2>1, <2>2
<1>14. ASSUME NEW q \in Replica, NEW n \in SentSeqs(q)'
       PROVE  n \in SentSeqs(q)
  <2>1. \/ n \in {p.seq : p \in Partials(q)'}
        \/ n \in {p[2] : p \in {y \in agg.partials : y[1] = q}}
        \/ \E i \in 1 .. Len(outbox'[q]) : outbox'[q][i].type = "partial" /\ n = outbox'[q][i].seq
    BY <1>1 DEF SentSeqs
  <2>2. Partials(q)' = Partials(q)
    BY DEF Partials
  <2>3. CASE \E i \in 1 .. Len(outbox'[q]) : outbox'[q][i].type = "partial" /\ n = outbox'[q][i].seq
    <3>1. \E i \in 1 .. Len(outbox[q]) : outbox[q][i].type = "partial" /\ n = outbox[q][i].seq
      BY <1>4, <2>3, PublishedRest
    <3> QED
      BY <3>1 DEF SentSeqs
  <2> QED
    BY <2>1, <2>2, <2>3 DEF SentSeqs
<1>15. Ending' => Ending
  <2> SUFFICES ASSUME NEW q \in Replica,
                      \/ q \in tomb' \/ handler'[q].end = "complete"
                      \/ \E y \in Coming(q)' : IsClosing(y)
                      \/ \E i \in 1 .. Len(outbox'[q]) : IsClosing(outbox'[q][i])
                      \/ SentSeqs(q)' # {}
               PROVE  Ending
    BY DEF Ending, IsClosing
  <2>1. CASE q \in tomb' \/ handler'[q].end = "complete"
    BY <1>6, <2>1 DEF Ending
  <2>2. CASE \E y \in Coming(q)' : IsClosing(y)
    BY <1>1, <1>7, <2>2 DEF Ending
  <2>3. CASE \E i \in 1 .. Len(outbox'[q]) : IsClosing(outbox'[q][i])
    BY <1>1, <2>3 DEF Ending
  <2>4. CASE SentSeqs(q)' # {}
    BY <1>14, <2>4 DEF Ending
  <2> QED
    BY <2>1, <2>2, <2>3, <2>4
<1>16. ClosedInv'
  <2> SUFFICES ASSUME Protected, N > 1, Ending', NEW q \in Replica
               PROVE  HomeOf(q)' \subseteq Kept(q)' /\ Waiting(q)' = {} /\ Sending(q)' = {}
    BY DEF ClosedInv
  <2>1. \A p \in Replica : HomeOf(p) \subseteq Kept(p) /\ Waiting(p) = {} /\ Sending(p) = {}
    BY <1>15 DEF RingInv, ClosedInv
  <2>2. ~IsOpen(x)
    BY <1>1, <2>1 DEF Sending
  <2> QED
    BY <1>6, <1>10, <1>11, <2>1, <2>2
<1>17. SeqInv'
  BY <1>6, <1>14 DEF RingInv, SeqInv
<1>18. OutputInv' /\ ExactInv'
  <2>1. \A q : (Given(q)' <=> Given(q)) /\ (Added(q)' <=> Added(q)) /\ MicroOf(q)' = MicroOf(q)
    BY <1>1 DEF Given, Added, MicroOf, HomeOf, Partials
  <2> SUFFICES ASSUME Protected
               PROVE  OutputInv' /\ ExactInv'
    BY DEF OutputInv, ExactInv
  <2>2. \A q \in Replica : \A i \in 1 .. Len(outbox'[q]) :
          /\ outbox'[q][i].type = "partial" => outbox'[q][i].count = Cardinality(MicroOf(q))
          /\ outbox'[q][i].type = "outeof"
               => Given(q) \/ \E j \in 1 .. i - 1 : outbox'[q][j].type = "partial"
    BY <1>4, PublishedRest
  <2>3. OutputInv'
    <3>1. \A m \in results : m.type = "outeof" => Given(m.sender)'
      BY <2>1 DEF RingInv, OutputInv
    <3> QED
      BY <2>1, <2>2, <3>1 DEF OutputInv
  <2>4. ExactInv'
    <3>1. AddedMicro' = AddedMicro
      BY <1>1 DEF AddedMicro, Added
    <3> QED
      BY <1>1, <2>1, <2>2, <3>1 DEF RingInv, ExactInv
  <2> QED
    BY <2>3, <2>4
<1> QED
  BY <1>4, <1>6, <1>9, <1>13, <1>16, <1>17, <1>18 DEF RingInv
(* A count or the EOF of a replica goes to aggregator_q5. *)
LEMMA SendOut ==
  ASSUME TypeOK, \A q \in Replica : SelfAt(q), RingInv, NEW r \in Replica, NEW x, Published(r, x),
         x.type \notin {"eof", "token"}, inbox' = inbox, results' = results \cup {x}
  PROVE  TypeOK' /\ (\A q \in Replica : SelfAt(q)') /\ RingInv'
<1>1. /\ x = outbox[r][1] /\ x \in OutMessages /\ 1 \in 1 .. Len(outbox[r])
      /\ outbox' \in [Replica -> Seq(OutMessages)]
      /\ UNCHANGED <<fetched, pending, mem, disk, tomb, handler, agg, answer, crashes, refetches>>
  BY DEF Published
<1>2. x \in Outputs /\ x # Rates /\ x # RatesEOF /\ x.type \in {"partial", "outeof"} /\ x.sender = r
  <2>1. x \in Messages \cup Outputs
    BY <1>1, MessagesSent DEF OutMessages
  <2>2. x.type # "batch"
    BY <1>1 DEF RingInv, TokenInv
  <2>3. x \notin ClientMessages
    BY <2>1, <2>2, MessageIs
  <2>4. x \in Outputs /\ x.type \in {"partial", "outeof"}
    BY <1>1, <2>1, <2>3, MessageIs DEF OutMessages
  <2>5. x.sender = r
    BY <1>1, <2>4 DEF RingInv, TokenInv
  <2> QED
    BY <2>1, <2>4, <2>5, MessagesSent
<1>3. TypeOK'
  <2>1. results' \subseteq Outputs
    BY <1>2 DEF TypeOK
  <2> QED
    BY <1>1, <2>1 DEF TypeOK, OutMessages
<1>4. \A q \in Replica : inbox[q] \subseteq inbox'[q] /\ inbox'[q] \subseteq inbox[q] \cup {x}
  OBVIOUS
<1>5. /\ \A q \in Replica : SelfAt(q)'
      /\ \A q \in Replica : /\ Saved(q)' = Saved(q) /\ Kept(q)' = Kept(q) /\ KeptBy(q)' = KeptBy(q)
                            /\ (q \in tomb' <=> q \in tomb) /\ handler'[q] = handler[q]
                            /\ HomeOf(q)' = HomeOf(q) /\ MicroOf(q)' = MicroOf(q)
  BY <1>2, <1>3, <1>4, PublishedKeeps
<1>6. \A q \in Replica : Coming(q)' = Coming(q)
  BY <1>1 DEF Coming
<1>7. /\ \A q \in Replica : \A i \in 1 .. Len(outbox'[q]) :
           \E j \in 1 .. Len(outbox[q]) : outbox'[q][i] = outbox[q][j]
      /\ \A q \in Replica : \A i \in Sending(q)' : IF q = r THEN i + 1 \in Sending(r) ELSE i \in Sending(q)
      /\ Protected => \A p, q \in Replica : \A i \in Sending(p)', j \in Sending(q)' : p = q /\ i = j
  BY <1>3, PublishedRest
<1>8. TokenInv'
  <2>1. ASSUME NEW q \in Replica, NEW y \in Coming(q)'
        PROVE  /\ y.type = "batch" => y.batch \in HomeOf(q)
               /\ y.type = "eof" => q = 0
               /\ y.type = "token" => q = Successor(y.sender) /\ TokenOK(y)'
    <3>1. y \in Coming(q)
      BY <1>6
    <3>2. y \in Messages
      BY <3>1, TypesAre
    <3> QED
      BY <1>5, <3>1, <3>2, TokenSame DEF RingInv, TokenInv
  <2>2. ASSUME NEW q \in Replica, NEW i \in 1 .. Len(outbox'[q]), NEW y, y = outbox'[q][i]
        PROVE  /\ y.type # "batch"
               /\ y.type = "eof" => q = 0
               /\ y.type # "eof" => y.sender = q
               /\ y.type = "token" => TokenOK(y)'
    <3> PICK j \in 1 .. Len(outbox[q]) : y = outbox[q][j]
      BY <1>7, <2>2
    <3>1. y \in Messages \cup Outputs
      BY OutboxIs
    <3> QED
      BY <1>5, <3>1, TokenSame DEF RingInv, TokenInv
  <2> QED
    BY <1>5, <2>1, <2>2 DEF TokenInv
<1>9. \A q \in Replica : Waiting(q)' = Waiting(q)
  BY <1>5, <1>6 DEF Waiting, IsOpen
<1>10. RoundInv'
  <2>1. ASSUME NEW q \in Replica, Sending(q)' # {}
        PROVE  \E y \in Replica : Sending(y) # {}
    BY <1>7, <2>1
  <2> QED
    BY <1>7, <1>9, <2>1 DEF RingInv, RoundInv
<1>11. ASSUME NEW q \in Replica, NEW n \in SentSeqs(q)'
       PROVE  n \in SentSeqs(q)
  <2>1. \/ n \in {p.seq : p \in Partials(q)'}
        \/ n \in {p[2] : p \in {y \in agg.partials : y[1] = q}}
        \/ \E i \in 1 .. Len(outbox'[q]) : outbox'[q][i].type = "partial" /\ n = outbox'[q][i].seq
    BY <1>1 DEF SentSeqs
  <2>2. CASE n \in {p.seq : p \in Partials(q)'}
    <3> PICK p \in Partials(q)' : n = p.seq
      BY <2>2
    <3>1. p \in Partials(q) \/ (p = x /\ q = r /\ x.type = "partial")
      BY <1>2 DEF Partials
    <3>2. CASE p \in Partials(q)
      BY <3>2 DEF SentSeqs
    <3>3. CASE p = x /\ q = r /\ x.type = "partial"
      BY <1>1, <3>3 DEF SentSeqs
    <3> QED
      BY <3>1, <3>2, <3>3
  <2>3. CASE \E i \in 1 .. Len(outbox'[q]) : outbox'[q][i].type = "partial" /\ n = outbox'[q][i].seq
    <3>1. \E i \in 1 .. Len(outbox[q]) : outbox[q][i].type = "partial" /\ n = outbox[q][i].seq
      BY <1>7, <2>3
    <3> QED
      BY <3>1 DEF SentSeqs
  <2> QED
    BY <2>1, <2>2, <2>3 DEF SentSeqs
<1>12. Ending' => Ending
  <2> SUFFICES ASSUME NEW q \in Replica,
                      \/ q \in tomb' \/ handler'[q].end = "complete"
                      \/ \E y \in Coming(q)' : IsClosing(y)
                      \/ \E i \in 1 .. Len(outbox'[q]) : IsClosing(outbox'[q][i])
                      \/ SentSeqs(q)' # {}
               PROVE  Ending
    BY DEF Ending, IsClosing
  <2>1. CASE q \in tomb' \/ handler'[q].end = "complete"
    BY <1>5, <2>1 DEF Ending
  <2>2. CASE \E y \in Coming(q)' : IsClosing(y)
    BY <1>6, <2>2 DEF Ending
  <2>3. CASE \E i \in 1 .. Len(outbox'[q]) : IsClosing(outbox'[q][i])
    BY <1>7, <2>3 DEF Ending
  <2>4. CASE SentSeqs(q)' # {}
    BY <1>11, <2>4 DEF Ending
  <2> QED
    BY <2>1, <2>2, <2>3, <2>4
<1>13. ClosedInv'
  <2> SUFFICES ASSUME Protected, N > 1, Ending', NEW q \in Replica
               PROVE  HomeOf(q)' \subseteq Kept(q)' /\ Waiting(q)' = {} /\ Sending(q)' = {}
    BY DEF ClosedInv
  <2>1. \A p \in Replica : HomeOf(p) \subseteq Kept(p) /\ Waiting(p) = {} /\ Sending(p) = {}
    BY <1>12 DEF RingInv, ClosedInv
  <2> QED
    BY <1>5, <1>7, <1>9, <2>1
<1>14. SeqInv'
  BY <1>5, <1>11 DEF RingInv, SeqInv
<1>15. OutputInv' /\ ExactInv'
  <2>2. Protected => \A q \in Replica : \A i \in 1 .. Len(outbox'[q]) :
          /\ outbox'[q][i].type = "partial" => outbox'[q][i].count = Cardinality(MicroOf(q))
          /\ outbox'[q][i].type = "outeof"
               => \/ Given(q) \/ (q = r /\ x.type = "partial")
                  \/ \E j \in 1 .. i - 1 : outbox'[q][j].type = "partial"
    BY <1>3, PublishedRest
  <2> SUFFICES ASSUME Protected
               PROVE  OutputInv' /\ ExactInv'
    BY DEF OutputInv, ExactInv
  <2>1. \A q : /\ Given(q) => Given(q)' /\ (Added(q)' <=> Added(q)) /\ MicroOf(q)' = MicroOf(q)
               /\ x.type = "partial" => Given(r)'
    BY <1>1, <1>2 DEF Given, Added, MicroOf, HomeOf, Partials
  <2>3. x.type = "outeof" => Given(r)
    <3>1. \A j \in 1 .. 1 - 1 : FALSE
      OBVIOUS
    <3> QED
      BY <1>1, <3>1 DEF RingInv, OutputInv
  <2>4. x.type = "partial" => x.count = Cardinality(MicroOf(r))
    BY <1>1 DEF RingInv, ExactInv
  <2>5. OutputInv'
    <3>1. ASSUME NEW m \in results', m.type = "outeof"
          PROVE  Given(m.sender)'
      <4>1. CASE m \in results
        BY <2>1, <3>1, <4>1 DEF RingInv, OutputInv
      <4>2. CASE m = x
        BY <1>2, <2>1, <2>3, <3>1, <4>2
      <4> QED
        BY <4>1, <4>2
    <3> QED
      BY <2>1, <2>2, <3>1 DEF OutputInv
  <2>6. ExactInv'
    <3>1. AddedMicro' = AddedMicro
      BY <1>1 DEF AddedMicro, Added
    <3>2. ASSUME NEW m \in results', m.type = "partial"
          PROVE  m.count = Cardinality(MicroOf(m.sender))
      <4>1. CASE m \in results
        BY <3>2, <4>1 DEF RingInv, ExactInv
      <4>2. CASE m = x
        BY <1>2, <2>4, <3>2, <4>2
      <4> QED
        BY <4>1, <4>2
    <3>4. agg.closed => answer = <<Cardinality(Micro)>>
      BY DEF RingInv, ExactInv
    <3>3. ~agg.closed =>
            /\ answer = <<>>
            /\ agg.total = Cardinality(AddedMicro)
            /\ \A e \in agg.eofs : MicroOf(e.sender)' = {} \/ Added(e.sender)'
      <4>1. ~agg.closed =>
              /\ answer = <<>>
              /\ agg.total = Cardinality(AddedMicro)
              /\ \A e \in agg.eofs : MicroOf(e.sender) = {} \/ Added(e.sender)
        BY DEF RingInv, ExactInv
      <4>2. ASSUME NEW e \in agg.eofs, ~agg.closed
            PROVE  MicroOf(e.sender)' = {} \/ Added(e.sender)'
        <5>1. MicroOf(e.sender) = {} \/ Added(e.sender)
          BY <4>1, <4>2
        <5>2. Added(e.sender)' <=> Added(e.sender)
          BY <1>1 DEF Added
        <5>3. MicroOf(e.sender)' = MicroOf(e.sender)
          BY DEF MicroOf, HomeOf
        <5> QED
          BY <5>1, <5>2, <5>3
      <4> QED
        BY <4>1, <4>2
    <3> QED
      BY <1>1, <2>1, <2>2, <3>1, <3>2, <3>3, <3>4 DEF ExactInv
  <2> QED
    BY <2>5, <2>6
<1> QED
  BY <1>3, <1>5, <1>8, <1>10, <1>13, <1>14, <1>15 DEF RingInv

LEMMA PublishStep ==
  ASSUME TypeOK, \A q \in Replica : SelfAt(q), RingInv, NEW r \in Replica, Publish(r)
  PROVE  TypeOK' /\ (\A q \in Replica : SelfAt(q)') /\ RingInv'
<1> PICK x : Published(r, x) /\ Send(r, x)
  BY PublishFacts
<1>1. CASE x.type = "token"
  <2>1. inbox' = [inbox EXCEPT ![Successor(r)] = @ \cup {x}] /\ results' = results
    BY <1>1 DEF Send
  <2>2. Successor(r) \in Replica
    BY SuccessorIs
  <2> QED
    BY <1>1, <2>1, <2>2, SendOn
<1>2. CASE x.type = "eof"
  <2>1. inbox' = [inbox EXCEPT ![r] = @ \cup {x}] /\ results' = results
    BY <1>2 DEF Send
  <2> QED
    BY <1>2, <2>1, SendOn
<1>3. CASE x.type \notin {"eof", "token"}
  <2>1. inbox' = inbox /\ results' = results \cup {x}
    BY <1>3 DEF Send
  <2> QED
    BY <1>3, <2>1, SendOut
<1> QED
  BY <1>1, <1>2, <1>3
-----------------------------------------------------------------------------
(* aggregator_q5 *)

ReplicasRest ==
  UNCHANGED <<fetched, inbox, pending, mem, disk, tomb, outbox, handler, crashes, refetches>>

(* What aggregator_q5 does touches only what is known of the counts. *)
LEMMA AggregateKeeps ==
  ASSUME TypeOK, \A q \in Replica : SelfAt(q), RingInv, ReplicasRest,
         \A q \in Replica : SentSeqs(q)' \subseteq SentSeqs(q)
  PROVE  (\A q \in Replica : SelfAt(q)') /\ TokenInv' /\ RoundInv' /\ ClosedInv' /\ SeqInv'
<1>1. UNCHANGED <<fetched, inbox, pending, mem, disk, tomb, outbox, handler>>
  BY DEF ReplicasRest
<1>2. ASSUME NEW q \in Replica
      PROVE  SelfAt(q)'
  <2>1. Same(q) /\ fetched' = fetched
    BY <1>1 DEF Same
  <2> QED
    BY <2>1, SameIsKept
<1>3. \A q \in Replica : /\ Saved(q)' = Saved(q) /\ Kept(q)' = Kept(q) /\ Coming(q)' = Coming(q)
                         /\ HomeOf(q)' = HomeOf(q)
                         /\ Waiting(q)' = Waiting(q) /\ Sending(q)' = Sending(q)
  BY <1>1 DEF Saved, Kept, Coming, HomeOf, Waiting, Sending, IsOpen
<1>4. \A q \in Replica : KeptBy(q)' = KeptBy(q)
  BY <1>3, ReplicaFacts DEF KeptBy
<1>5. TokenInv'
  <2>1. ASSUME NEW q \in Replica, NEW y \in Coming(q)'
        PROVE  /\ y.type = "batch" => y.batch \in HomeOf(q)
               /\ y.type = "eof" => q = 0
               /\ y.type = "token" => q = Successor(y.sender) /\ TokenOK(y)'
    <3>1. y \in Coming(q)
      BY <1>3
    <3>2. y \in Messages
      BY <3>1, TypesAre
    <3> QED
      BY <1>4, <3>1, <3>2, TokenSame DEF RingInv, TokenInv
  <2>2. ASSUME NEW q \in Replica, NEW i \in 1 .. Len(outbox[q]), NEW y, y = outbox[q][i]
        PROVE  /\ y.type # "batch"
               /\ y.type = "eof" => q = 0
               /\ y.type # "eof" => y.sender = q
               /\ y.type = "token" => TokenOK(y)'
    <3>1. y \in Messages \cup Outputs
      BY <2>2, OutboxIs
    <3> QED
      BY <1>4, <2>2, <3>1, TokenSame DEF RingInv, TokenInv
  <2> QED
    BY <1>1, <1>3, <2>1, <2>2 DEF TokenInv
<1>6. RoundInv'
  BY <1>3 DEF RingInv, RoundInv
<1>7. Ending' => Ending
  BY <1>1, <1>3 DEF Ending, IsClosing
<1>8. ClosedInv'
  BY <1>3, <1>7 DEF RingInv, ClosedInv
<1>9. SeqInv'
  BY <1>1, <1>3 DEF RingInv, SeqInv
<1> QED
  BY <1>2, <1>5, <1>6, <1>8, <1>9

LEMMA SentAre ==
  ASSUME NEW q, NEW n
  PROVE  n \in SentSeqs(q) <=> \/ \E p \in Partials(q) : n = p.seq
                               \/ \E p \in agg.partials : p[1] = q /\ n = p[2]
                               \/ \E i \in 1 .. Len(outbox[q]) : outbox[q][i].type = "partial" /\ n = outbox[q][i].seq
  BY DEF SentSeqs

LEMMA SentNext ==
  ASSUME NEW q, NEW n \in SentSeqs(q)', ReplicasRest
  PROVE  \/ \E p \in Partials(q)' : n = p.seq
         \/ \E p \in agg'.partials : p[1] = q /\ n = p[2]
         \/ \E i \in 1 .. Len(outbox[q]) : outbox[q][i].type = "partial" /\ n = outbox[q][i].seq
  BY DEF SentSeqs, ReplicasRest

LEMMA ResultIs ==
  ASSUME TypeOK, NEW m \in results
  PROVE  /\ m \in Outputs /\ m.sender \in Replica /\ m.seq \in Nat
         /\ m.type \in {"partial", "outeof"}
         /\ m.type = "partial" => m.count \in Nat
         /\ m.type = "outeof" => m.total \in {0, 1}
<1>1. m \in Outputs
  BY DEF TypeOK
<1> QED
  BY <1>1, MessageIs

LEMMA GivenKept ==
  ASSUME TypeOK, OutputInv, ReplicasRest,
         Protected => \A q \in Replica : Given(q) => Given(q)',
         \A n \in results' : n.type = "outeof" => \E k \in results : k.type = "outeof" /\ k.sender = n.sender
  PROVE  OutputInv'
<1> SUFFICES ASSUME Protected
             PROVE  OutputInv'
  BY DEF OutputInv
<1>1. ASSUME NEW n \in results', n.type = "outeof"
      PROVE  Given(n.sender)'
  <2> PICK k \in results : k.type = "outeof" /\ k.sender = n.sender
    BY <1>1
  <2>1. Given(n.sender) /\ n.sender \in Replica
    BY ResultIs DEF OutputInv
  <2> QED
    BY <2>1
<1>2. ASSUME NEW q \in Replica, NEW i \in 1 .. Len(outbox[q]), outbox[q][i].type = "outeof"
      PROVE  Given(q)' \/ \E j \in 1 .. i - 1 : outbox[q][j].type = "partial"
  BY <1>2 DEF OutputInv
<1> QED
  BY <1>1, <1>2 DEF OutputInv, ReplicasRest

LEMMA DropStep ==
  ASSUME TypeOK, \A q \in Replica : SelfAt(q), RingInv, ReplicasRest, NEW m \in results, DropResult(m)
  PROVE  TypeOK' /\ (\A q \in Replica : SelfAt(q)') /\ RingInv'
<1>1. Stale(m) /\ results' = results \ {m} /\ agg' = agg /\ answer' = answer
  BY DEF DropResult
<1>2. TypeOK'
  BY <1>1 DEF TypeOK, ReplicasRest
<1>3. ASSUME NEW q \in Replica, NEW n \in SentSeqs(q)'
      PROVE  n \in SentSeqs(q)
  <2>1. Partials(q)' \subseteq Partials(q)
    BY <1>1 DEF Partials
  <2> QED
    BY <1>1, <2>1, SentAre, SentNext
<1>4. ASSUME NEW q \in Replica, Given(q)
      PROVE  Given(q)'
  <2>1. CASE m.type = "partial" /\ m.sender = q
    <3>1. agg.closed \/ <<q, m.seq>> \in agg.partials
      BY <1>1, <2>1 DEF Stale
    <3>2. <<q, m.seq>>[1] = q
      OBVIOUS
    <3> QED
      BY <1>1, <3>1, <3>2 DEF Given, Added
  <2>2. CASE ~(m.type = "partial" /\ m.sender = q)
    <3>1. Partials(q)' = Partials(q)
      BY <1>1, <2>2 DEF Partials
    <3> QED
      BY <1>1, <1>4, <3>1 DEF Given, Added, MicroOf, HomeOf
  <2> QED
    BY <2>1, <2>2
<1>5. OutputInv'
  BY <1>1, <1>4, GivenKept DEF RingInv
<1>6. ExactInv'
  <2>1. AddedMicro' = AddedMicro /\ \A q : (Added(q)' <=> Added(q)) /\ MicroOf(q)' = MicroOf(q)
    BY <1>1 DEF AddedMicro, Added, MicroOf, HomeOf
  <2> QED
    BY <1>1, <2>1 DEF RingInv, ExactInv, ReplicasRest
<1> QED
  BY <1>2, <1>3, <1>5, <1>6, AggregateKeeps DEF RingInv

LEMMA AddPartialStep ==
  ASSUME TypeOK, \A q \in Replica : SelfAt(q), RingInv, ReplicasRest, NEW m \in results, AddPartial(m)
  PROVE  TypeOK' /\ (\A q \in Replica : SelfAt(q)') /\ RingInv'
<1> DEFINE r == m.sender
           x == <<m.sender, m.seq>>
<1>1. /\ ~agg.closed /\ x \notin agg.partials /\ m.type = "partial"
      /\ results' = results \ {m} /\ answer' = answer
      /\ agg' = [agg EXCEPT !.partials = agg.partials \cup {x}, !.total = agg.total + m.count]
  BY DEF AddPartial, Stale
<1>2. r \in Replica /\ m.seq \in Nat /\ m.count \in Nat /\ x \in Replica \X Nat /\ x[1] = r /\ x[2] = m.seq
  BY <1>1, ResultIs
<1> HIDE DEF x
<1>3. agg \in AggState
  BY DEF TypeOK, AggState
<1>4. /\ agg' \in AggState /\ agg'.partials = agg.partials \cup {x} /\ agg'.total = agg.total + m.count
      /\ agg'.eofs = agg.eofs /\ ~agg'.closed
  <2> DEFINE all == agg.partials \cup {x}
             sum == agg.total + m.count
  <2>1. all \in SUBSET (Replica \X Nat) /\ sum \in Nat
    BY <1>2, <1>3 DEF AggState
  <2>2. agg' = [agg EXCEPT !.partials = all, !.total = sum]
    BY <1>1
  <2> HIDE DEF all, sum
  <2>3. /\ agg' \in AggState /\ agg'.partials = all /\ agg'.total = sum
        /\ agg'.eofs = agg.eofs /\ ~agg'.closed
    BY <1>1, <1>3, <2>1, <2>2 DEF AggState
  <2> QED
    BY <2>3 DEF all, sum
<1>5. TypeOK'
  BY <1>1, <1>4 DEF TypeOK, ReplicasRest, AggState
<1>6. m \in Partials(r)
  BY <1>1 DEF Partials
<1>7. ASSUME NEW q \in Replica, NEW n \in SentSeqs(q)'
      PROVE  n \in SentSeqs(q)
  <2>1. Partials(q)' \subseteq Partials(q)
    BY <1>1 DEF Partials
  <2>2. ASSUME NEW p \in agg'.partials, p[1] = q, n = p[2]
        PROVE  n \in SentSeqs(q)
    <3>1. CASE p = x
      BY <1>2, <1>6, <2>2, <3>1, SentAre
    <3>2. CASE p # x
      BY <1>4, <2>2, <3>2, SentAre
    <3> QED
      BY <3>1, <3>2
  <2> QED
    BY <2>1, <2>2, SentAre, SentNext
<1>8. \A q : Added(q)' <=> Added(q) \/ q = r
  BY <1>2, <1>4 DEF Added
<1>9. ASSUME NEW q \in Replica, Given(q)
      PROVE  Given(q)'
  <2>1. CASE q = r
    <3>1. Added(q)'
      BY <1>8, <2>1
    <3> QED
      BY <3>1 DEF Given
  <2>2. CASE q # r
    <3>1. Partials(q)' = Partials(q)
      BY <1>1, <2>2 DEF Partials
    <3>2. Added(q) => Added(q)'
      BY <1>8
    <3> QED
      BY <1>1, <1>9, <3>1, <3>2 DEF Given, MicroOf, HomeOf
  <2> QED
    BY <2>1, <2>2
<1>10. OutputInv'
  BY <1>1, <1>9, GivenKept DEF RingInv
<1>11. Protected => ~Added(r)
  <2> SUFFICES ASSUME Protected, NEW p \in agg.partials, p[1] = r
               PROVE  FALSE
    BY DEF Added
  <2>1. p[2] \in SentSeqs(r) /\ m.seq \in SentSeqs(r)
    BY <1>6, SentAre
  <2>2. p[2] = m.seq
    BY <1>2, <2>1 DEF RingInv, SeqInv
  <2>3. p = <<p[1], p[2]>>
    BY <1>3 DEF AggState
  <2> QED
    BY <1>1, <2>2, <2>3 DEF x
<1>12. ExactInv'
  <2> SUFFICES ASSUME Protected
               PROVE  ExactInv'
    BY DEF ExactInv
  <2>1. /\ answer = <<>> /\ agg.total = Cardinality(AddedMicro)
        /\ \A e \in agg.eofs : MicroOf(e.sender) = {} \/ Added(e.sender)
        /\ m.count = Cardinality(MicroOf(r))
    BY <1>1 DEF RingInv, ExactInv
  <2>2. AddedMicro' = AddedMicro \cup MicroOf(r)
    <3>1. ASSUME NEW b \in Micro
          PROVE  Added(home[b])' <=> Added(home[b]) \/ home[b] = r
      BY <1>2, <1>4 DEF Added
    <3>2. Micro \subseteq Batch
      BY ConstantsAssumption
    <3> QED
      BY <3>1, <3>2 DEF AddedMicro, MicroOf, HomeOf
  <2>3. AddedMicro \in SUBSET Batch /\ MicroOf(r) \in SUBSET Batch /\ AddedMicro \cap MicroOf(r) = {}
    BY <1>11, ConstantsAssumption DEF AddedMicro, MicroOf, HomeOf
  <2>4. agg'.total = Cardinality(AddedMicro')
    BY <1>4, <2>1, <2>2, <2>3, DisjointBatches
  <2>5. ASSUME NEW e \in agg.eofs
        PROVE  MicroOf(e.sender)' = {} \/ Added(e.sender)'
    <3>1. MicroOf(e.sender)' = MicroOf(e.sender)
      BY DEF MicroOf, HomeOf
    <3>2. Added(e.sender) => Added(e.sender)'
      BY <1>4 DEF Added
    <3> QED
      BY <2>1, <3>1, <3>2
  <2>6. \A n \in results' : n.type = "partial" => n.count = Cardinality(MicroOf(n.sender)')
    BY <1>1 DEF RingInv, ExactInv, MicroOf, HomeOf
  <2>7. \A q \in Replica : \A i \in 1 .. Len(outbox[q]) :
          outbox[q][i].type = "partial" => outbox[q][i].count = Cardinality(MicroOf(q)')
    BY DEF RingInv, ExactInv, MicroOf, HomeOf
  <2> QED
    BY <1>1, <1>4, <2>1, <2>4, <2>5, <2>6, <2>7 DEF ExactInv, ReplicasRest
<1> QED
  BY <1>5, <1>7, <1>10, <1>12, AggregateKeeps DEF RingInv

(* The EOF of a replica, alone or the last one that is missing. *)
LEMMA AddEOFStep ==
  ASSUME TypeOK, \A q \in Replica : SelfAt(q), RingInv, ReplicasRest, NEW m \in results, AddEOF(m), InOrder(m)
  PROVE  TypeOK' /\ (\A q \in Replica : SelfAt(q)') /\ RingInv'
<1> DEFINE r == m.sender
           e == [sender |-> m.sender, total |-> m.total]
           eofs == agg.eofs \cup {e}
           received == [agg EXCEPT !.eofs = eofs, !.coord[m.sender] = m.seq]
           closed == [NothingReceived EXCEPT !.closed = TRUE, !.eofs = eofs]
           again == OutEOF(m.sender, m.seq + 1, m.total)
<1>1. /\ ~agg.closed /\ m.type = "outeof"
      /\ \/ agg' = received /\ results' = results \ {m} /\ answer' = answer
         \/ agg' = received /\ results' = (results \ {m}) \cup {again} /\ answer' = answer
         \/ /\ {y.sender : y \in eofs} = Replica
            /\ agg' = closed /\ answer' = Append(answer, agg.total) /\ results' = results \ {m}
  BY DEF AddEOF, Stale
<1>2. /\ r \in Replica /\ m.seq \in Nat /\ m.total \in {0, 1} /\ e \in [sender : Replica, total : {0, 1}]
      /\ e.sender = r
  BY <1>1, ResultIs
<1>3. again \in Outputs /\ again.type = "outeof" /\ again.sender = r
  <2>1. m.seq + 1 \in Nat
    BY <1>2
  <2> QED
    BY <1>2, <2>1, MessagesSent
<1>4. agg \in AggState
  BY DEF TypeOK, AggState
<1>5. /\ received \in AggState /\ received.partials = agg.partials /\ received.total = agg.total
      /\ received.eofs = eofs /\ ~received.closed
  <2> DEFINE marks == [agg.coord EXCEPT ![m.sender] = m.seq]
  <2>1. marks \in [Replica -> Nat]
    BY <1>2, <1>4 DEF AggState
  <2>2. received = [agg EXCEPT !.eofs = eofs, !.coord = marks]
    OBVIOUS
  <2>3. eofs \in SUBSET [sender : Replica, total : {0, 1}]
    BY <1>2, <1>4 DEF AggState
  <2> HIDE DEF marks, eofs, received
  <2> QED
    BY <1>1, <1>4, <2>1, <2>2, <2>3 DEF AggState
<1>6. /\ closed \in AggState /\ closed.partials = {} /\ closed.closed
  <2>1. eofs \in SUBSET [sender : Replica, total : {0, 1}]
    BY <1>2, <1>4 DEF AggState
  <2> HIDE DEF eofs
  <2> QED
    BY <2>1 DEF AggState, NothingReceived
<1> HIDE DEF received, closed, again
<1>7. TypeOK'
  <2>1. agg' \in AggState /\ results' \subseteq Outputs /\ answer' \in Seq(Nat)
    <3>1. agg.total \in Nat /\ answer \in Seq(Nat) /\ results \subseteq Outputs
      BY <1>4 DEF TypeOK, AggState
    <3>2. answer' \in Seq(Nat)
      <4>1. answer' = answer \/ answer' = Append(answer, agg.total)
        BY <1>1
      <4> QED
        BY <3>1, <4>1
    <3>3. agg' \in AggState /\ results' \subseteq Outputs
      BY <1>1, <1>3, <1>5, <1>6, <3>1
    <3> QED
      BY <3>2, <3>3
  <2> QED
    BY <2>1 DEF TypeOK, ReplicasRest, AggState
<1>8. ASSUME NEW q \in Replica
      PROVE  Partials(q)' = Partials(q)
  BY <1>1, <1>3 DEF Partials
<1>9. agg'.partials \subseteq agg.partials /\ (~agg'.closed => agg'.partials = agg.partials)
  BY <1>1, <1>5, <1>6
<1>10. ASSUME NEW q \in Replica, NEW n \in SentSeqs(q)'
       PROVE  n \in SentSeqs(q)
  BY <1>8, <1>9, SentAre, SentNext
<1>11. ASSUME NEW q \in Replica, Given(q)
       PROVE  Given(q)'
  <2>1. CASE agg'.closed
    BY <2>1 DEF Given
  <2>2. CASE ~agg'.closed
    <3>1. Partials(q)' = Partials(q)
      BY <1>8
    <3>2. Added(q) => Added(q)'
      BY <1>9, <2>2 DEF Added
    <3> QED
      BY <1>1, <1>11, <3>1, <3>2 DEF Given, MicroOf, HomeOf
  <2> QED
    BY <2>1, <2>2
<1>12. OutputInv'
  <2>1. \A n \in results' : n.type = "outeof" => \E k \in results : k.type = "outeof" /\ k.sender = n.sender
    BY <1>1, <1>3
  <2> QED
    BY <1>11, <2>1, GivenKept DEF RingInv
<1>13. ExactInv'
  <2> SUFFICES ASSUME Protected
               PROVE  ExactInv'
    BY DEF ExactInv
  <2>1. /\ answer = <<>> /\ agg.total = Cardinality(AddedMicro)
        /\ \A y \in agg.eofs : MicroOf(y.sender) = {} \/ Added(y.sender)
    BY <1>1 DEF RingInv, ExactInv
  <2>2. MicroOf(r) = {} \/ Added(r)
    <3>1. Given(r)
      BY <1>1 DEF RingInv, OutputInv
    <3>2. Partials(r) = {}
      BY <1>1 DEF InOrder, Partials
    <3> QED
      BY <1>1, <3>1, <3>2 DEF Given
  <2>3. \A y \in eofs : MicroOf(y.sender) = {} \/ Added(y.sender)
    BY <1>2, <2>1, <2>2
  <2>4. \A n \in results' : n.type = "partial" => n.count = Cardinality(MicroOf(n.sender)')
    <3>1. \A n \in results' : n.type = "partial" => n \in results
      BY <1>1, <1>3
    <3> QED
      BY <3>1 DEF RingInv, ExactInv, MicroOf, HomeOf
  <2>5. \A q \in Replica : \A i \in 1 .. Len(outbox[q]) :
          outbox[q][i].type = "partial" => outbox[q][i].count = Cardinality(MicroOf(q)')
    BY DEF RingInv, ExactInv, MicroOf, HomeOf
  <2>6. ASSUME ~agg'.closed
        PROVE  /\ answer' = <<>> /\ agg'.total = Cardinality(AddedMicro')
               /\ \A y \in agg'.eofs : MicroOf(y.sender)' = {} \/ Added(y.sender)'
    <3>1. agg' = received /\ answer' = answer
      BY <1>1, <1>6, <2>6
    <3>2. AddedMicro' = AddedMicro
      BY <1>9, <2>6 DEF AddedMicro, Added
    <3>3. ASSUME NEW y \in eofs
          PROVE  MicroOf(y.sender)' = {} \/ Added(y.sender)'
      <4>1. MicroOf(y.sender)' = MicroOf(y.sender)
        BY DEF MicroOf, HomeOf
      <4>2. Added(y.sender) => Added(y.sender)'
        BY <1>9, <2>6 DEF Added
      <4> QED
        BY <2>3, <4>1, <4>2
    <3> QED
      BY <1>5, <2>1, <3>1, <3>2, <3>3
  <2>7. ASSUME agg'.closed
        PROVE  answer' = <<Cardinality(Micro)>>
    <3>1. {y.sender : y \in eofs} = Replica /\ answer' = Append(answer, agg.total)
      BY <1>1, <1>5, <2>7
    <3>2. AddedMicro = Micro
      <4>1. ASSUME NEW b \in Micro
            PROVE  Added(home[b])
        <5>1. b \in Batch /\ home[b] \in Replica
          BY ConstantsAssumption
        <5> PICK y \in eofs : y.sender = home[b]
          BY <3>1, <5>1
        <5>2. b \in MicroOf(home[b])
          BY <5>1 DEF MicroOf, HomeOf
        <5> QED
          BY <2>3, <5>2
      <4> QED
        BY <4>1 DEF AddedMicro
    <3> QED
      BY <2>1, <3>1, <3>2
  <2> QED
    BY <2>4, <2>5, <2>6, <2>7 DEF ExactInv, ReplicasRest
<1> QED
  BY <1>7, <1>10, <1>12, <1>13, AggregateKeeps DEF RingInv

LEMMA AggregateStep ==
  ASSUME TypeOK, \A q \in Replica : SelfAt(q), RingInv, Aggregate
  PROVE  TypeOK' /\ (\A q \in Replica : SelfAt(q)') /\ RingInv'
<1>1. ReplicasRest
  BY DEF Aggregate, ReplicasRest, replicaVars
<1> PICK m \in results : InOrder(m) /\ (DropResult(m) \/ AddPartial(m) \/ AddEOF(m))
  BY DEF Aggregate
<1> QED
  BY <1>1, DropStep, AddPartialStep, AddEOFStep
-----------------------------------------------------------------------------
(* The invariant *)

LEMMA InitTypes ==
  ASSUME Init
  PROVE  TypeOK
<1>1. /\ Boot \in State /\ EmptyDisk \in FileSet /\ Idle \in Handlers /\ NothingReceived \in AggState
  BY FreshTypes
<1>2. \A r \in Replica : Arriving(r) \subseteq Messages
  <2>1. \A b \in Batch : BatchMsg(b) \in Messages
    BY MessagesSent
  <2>2. EOFMsg(1) \in Messages
    BY MessagesSent
  <2> QED
    BY <2>1, <2>2 DEF Arriving
<1>3. inbox \in [Replica -> SUBSET Messages] /\ pending \in [Replica -> SUBSET Messages]
  BY <1>2 DEF Init
<1>4. mem \in [Replica -> State] /\ handler \in [Replica -> Handlers]
  BY <1>1 DEF Init
<1>5. disk \in [Replica -> FileSet]
  BY <1>1 DEF Init
<1>6. outbox \in [Replica -> Seq(OutMessages)] /\ answer \in Seq(Nat)
  <2>1. <<>> \in Seq(OutMessages) /\ <<>> \in Seq(Nat)
    OBVIOUS
  <2> QED
    BY <2>1 DEF Init
<1>7. agg \in AggState
  BY <1>1 DEF Init
<1>8. fetched \in 0 .. 2 * N /\ crashes \in Nat /\ refetches \in Nat /\ tomb \subseteq Replica /\ results \subseteq Outputs
  BY ReplicaFacts DEF Init
<1> QED
  BY <1>3, <1>4, <1>5, <1>6, <1>7, <1>8 DEF TypeOK, FileSet, Handlers, OutMessages, AggState

(* At the start a replica has its batches to come, and replica 0 the EOF.     *)
LEMMA InitFacts ==
  ASSUME Init, NEW r \in Replica
  PROVE  /\ Coming(r) = Arriving(r) /\ pending[r] = {} /\ outbox[r] = <<>> /\ handler[r] = Idle
         /\ mem[r] = Boot /\ disk[r] = EmptyDisk /\ r \notin tomb
         /\ Saved(r) = FreshClient /\ SentSeqs(r) = {} /\ Sending(r) = {}
         /\ \A m \in Coming(r) : \/ m.type = "batch" /\ m.batch \in HomeOf(r)
                                 \/ r = 0 /\ m = EOFMsg(1) /\ m.type = "eof"
<1>1. /\ inbox[r] = Arriving(r) /\ pending[r] = {} /\ outbox[r] = <<>> /\ handler[r] = Idle
      /\ mem[r] = Boot /\ disk[r] = EmptyDisk /\ r \notin tomb
  BY DEF Init
<1>2. Saved(r) = FreshClient
  BY <1>1 DEF Saved, Idle, EmptyDisk, NoFile, Boot
<1>3. \A i \in 1 .. Len(outbox[r]) : FALSE
  BY <1>1
<1>4. Sending(r) = {}
  BY <1>3 DEF Sending
<1>5. SentSeqs(r) = {}
  <2>1. Partials(r) = {}
    BY DEF Init, Partials
  <2>2. agg.partials = {}
    BY DEF Init, NothingReceived
  <2> QED
    BY <1>3, <2>1, <2>2 DEF SentSeqs
<1>6. \A m \in Arriving(r) : \/ m.type = "batch" /\ m.batch \in HomeOf(r)
                             \/ r = 0 /\ m = EOFMsg(1) /\ m.type = "eof"
  BY DEF Arriving, BatchMsg, EOFMsg, HomeOf
<1> QED
  BY <1>1, <1>2, <1>4, <1>5, <1>6 DEF Coming

LEMMA InitInv ==
  ASSUME Init
  PROVE  IndInv
<1>1. TypeOK
  BY InitTypes
<1>2. ASSUME NEW r \in Replica
      PROVE  SelfAt(r)
  <2> USE InitFacts
  <2>1. /\ mem[r].client = FreshClient /\ ~mem[r].conversions.rates /\ ~mem[r].started
        /\ disk[r].client = NoFile /\ disk[r].client.state.client = FreshClient
        /\ ~disk[r].conversions.exists /\ ~disk[r].conversions.state.conversions.rates
        /\ handler[r].end = "idle" /\ outbox[r] = <<>>
    <3>1. mem[r] = Boot /\ disk[r] = EmptyDisk /\ handler[r] = Idle /\ outbox[r] = <<>>
      OBVIOUS
    <3>2. /\ Boot.client = FreshClient /\ ~Boot.conversions.rates /\ ~Boot.started
          /\ EmptyDisk.client = NoFile /\ EmptyDisk.conversions = NoFile
          /\ ~NoFile.exists /\ NoFile.state = Boot /\ Idle.end = "idle"
      BY DEF EmptyDisk, NoFile, Boot, FreshConversions, Idle
    <3> QED
      BY <3>1, <3>2
  <2>2. RatesAt(r)
    <3>1. RatesEOF \notin Coming(r)
      BY MessagesSent
    <3>2. fetched # 2 * r + 1
      BY ReplicaFacts DEF Init
    <3> QED
      BY <2>1, <3>1, <3>2 DEF RatesAt
  <2>3. ReadyAt(r) /\ HandlerAt(r)
    BY <2>1 DEF ReadyAt, HandlerAt, Unacked
  <2>4. StateAt(r)
    BY <2>1, FreshCounts DEF StateAt
  <2>5. CountAt(r)
    BY <2>1, FreshCounts DEF CountAt, Counted
  <2> QED
    BY <2>2, <2>3, <2>4, <2>5 DEF SelfAt
<1>3. \A r \in Replica : \A i \in 1 .. Len(outbox[r]) : FALSE
  BY InitFacts
<1>4. TokenInv
  <2>1. ASSUME NEW r \in Replica, NEW m \in Coming(r)
        PROVE  /\ m.type = "batch" => m.batch \in HomeOf(r)
               /\ m.type = "eof" => r = 0
               /\ m.type # "token"
    BY InitFacts
  <2> QED
    BY <1>3, <2>1 DEF TokenInv
<1>5. RoundInv
  <2>1. ASSUME NEW r \in Replica, NEW m \in Waiting(r)
        PROVE  r = 0 /\ m = EOFMsg(1)
    BY InitFacts DEF Waiting
  <2> QED
    BY <2>1, InitFacts DEF RoundInv
<1>6. ClosedInv
  <2>1. ASSUME NEW r \in Replica
        PROVE  /\ r \notin tomb /\ handler[r].end # "complete"
               /\ \A m \in Coming(r) : ~IsClosing(m)
               /\ SentSeqs(r) = {}
    BY InitFacts DEF Idle, IsClosing
  <2> QED
    BY <1>3, <2>1 DEF ClosedInv, Ending
<1>7. SeqInv
  BY InitFacts DEF SeqInv
<1>8. results = {} /\ ~agg.closed /\ agg.total = 0 /\ agg.eofs = {} /\ agg.partials = {} /\ answer = <<>>
  BY DEF Init, NothingReceived
<1>9. OutputInv
  BY <1>3, <1>8 DEF OutputInv
<1>10. ExactInv
  <2>1. AddedMicro = {}
    BY <1>8 DEF AddedMicro, Added
  <2>2. Cardinality(AddedMicro) = 0
    BY <2>1, FS_EmptySet
  <2> QED
    BY <1>3, <1>8, <2>2 DEF ExactInv
<1> QED
  BY <1>1, <1>2, <1>4, <1>5, <1>6, <1>7, <1>9, <1>10 DEF IndInv, RingInv

LEMMA QuietInv ==
  ASSUME IndInv, Quiet
  PROVE  IndInv'
<1>1. RingInv'
  BY QuietStep DEF IndInv
<1>2. TypeOK' /\ \A r \in Replica : SelfAt(r)'
  BY DEF Quiet
<1> QED
  BY <1>1, <1>2 DEF IndInv

LEMMA QuietStepInv ==
  ASSUME IndInv, NEW r \in Replica, StepOf(r), SelfAt(r)', QuietAt(r)
  PROVE  IndInv'
<1>1. Quiet
  BY QuietOfStep DEF IndInv
<1> QED
  BY <1>1, QuietInv

LEMMA LoudStepInv ==
  ASSUME TypeOK', \A q \in Replica : SelfAt(q)', RingInv'
  PROVE  IndInv'
  BY DEF IndInv

LEMMA StutterInv ==
  ASSUME IndInv, UNCHANGED vars
  PROVE  IndInv'
<1>1. /\ UNCHANGED <<fetched, inbox, pending, mem, disk, tomb, outbox, handler>>
      /\ UNCHANGED <<results, agg, answer, crashes, refetches>>
  BY DEF vars, replicaVars, aggregatorVars
<1>2. TypeOK'
  BY <1>1 DEF IndInv, TypeOK
<1>3. ASSUME NEW s \in Replica
      PROVE  SelfAt(s)' /\ QuietAt(s)
  <2>1. Same(s) /\ SelfAt(s) /\ TypeOK
    BY <1>1 DEF Same, IndInv
  <2> QED
    BY <1>1, <2>1, SameIsKept
<1>4. Quiet
  BY <1>1, <1>2, <1>3 DEF Quiet
<1> QED
  BY <1>4, QuietInv

LEMMA ConsumeInv ==
  ASSUME IndInv, NEW r \in Replica, Consume(r)
  PROVE  IndInv'
<1> PICK m \in inbox[r] : \/ Discard(r, m)
                          \/ HandleBatch(r, m) \/ HandleRates(r, m) \/ HandleRatesEOF(r, m)
                          \/ HandleEOF(r, m) \/ HandleToken(r, m)
  BY DEF Consume
<1>1. TypeOK /\ SelfAt(r) /\ (\A q \in Replica : SelfAt(q)) /\ RingInv
  BY DEF IndInv
<1>2. CASE Discard(r, m)
  BY <1>1, <1>2, DiscardStep, QuietStepInv
<1>3. CASE HandleBatch(r, m)
  <2>1. m.batch \in HomeOf(r)
    <3>1. m.type = "batch" /\ m \in Coming(r)
      BY <1>3 DEF HandleBatch, Accept, Coming
    <3> QED
      BY <1>1, <3>1 DEF RingInv, TokenInv
  <2> QED
    BY <1>1, <1>3, <2>1, HandleBatchStep, QuietStepInv
<1>4. CASE HandleRates(r, m)
  BY <1>1, <1>4, HandleRatesStep, QuietStepInv
<1>5. CASE HandleRatesEOF(r, m)
  BY <1>1, <1>5, HandleRatesEOFStep, QuietStepInv
<1>6. CASE HandleEOF(r, m)
  BY <1>1, <1>6, HandleEOFStep, LoudStepInv
<1>7. CASE HandleToken(r, m)
  BY <1>1, <1>7, HandleTokenStep, LoudStepInv
<1> QED
  BY <1>2, <1>3, <1>4, <1>5, <1>6, <1>7

LEMMA FinishInv ==
  ASSUME IndInv, NEW r \in Replica, Finish(r)
  PROVE  IndInv'
<1>1. TypeOK /\ SelfAt(r) /\ (\A q \in Replica : SelfAt(q)) /\ RingInv
  BY DEF IndInv
<1>2. CASE Publish(r)
  BY <1>1, <1>2, PublishStep, LoudStepInv
<1>3. CASE SaveGlobal(r)
  BY <1>1, <1>3, SaveGlobalStep, QuietStepInv
<1>4. CASE Complete(r)
  BY <1>1, <1>4, CompleteStep, QuietStepInv
<1>5. ASSUME NEW o \in Owners, Checkpoint(r, o)
      PROVE  IndInv'
  BY <1>1, <1>5, CheckpointStep, QuietStepInv
<1> QED
  BY <1>2, <1>3, <1>4, <1>5 DEF Finish

LEMMA NextInv ==
  ASSUME IndInv, [Next]_vars
  PROVE  IndInv'
<1>1. TypeOK /\ (\A q \in Replica : SelfAt(q)) /\ RingInv
  BY DEF IndInv
<1>2. CASE Fetch
  BY <1>1, <1>2, FetchStep, QuietInv
<1>3. CASE Refetch
  BY <1>1, <1>3, RefetchStep, QuietInv
<1>4. CASE Aggregate
  BY <1>1, <1>4, AggregateStep, LoudStepInv
<1>5. ASSUME NEW r \in Replica, Consume(r)
      PROVE  IndInv'
  BY <1>5, ConsumeInv
<1>6. ASSUME NEW r \in Replica, Finish(r)
      PROVE  IndInv'
  BY <1>6, FinishInv
<1>7. ASSUME NEW r \in Replica, Crash(r)
      PROVE  IndInv'
  BY <1>1, <1>7, CrashStep, QuietStepInv
<1>8. CASE UNCHANGED vars
  BY <1>8, StutterInv
<1> QED
  BY <1>2, <1>3, <1>4, <1>5, <1>6, <1>7, <1>8 DEF Next

(* Fetcher, replicas and aggregator_q5 keep to the invariant, whatever comes  *)
(* again, and wherever a replica is killed (checkpointAndAck, loadCheckpoints). *)
THEOREM InvariantHolds == Spec => []IndInv
<1>1. Init => IndInv
  BY InitInv
<1>2. IndInv /\ [Next]_vars => IndInv'
  BY NextInv
<1> QED
  BY <1>1, <1>2, PTL DEF Spec

(* State, files and messages have their types in every reachable state,       *)
(* whatever moment a kill falls in: a checkpoint that is loaded is one that   *)
(* was written, a retry of the EOF and a token carry a SeqID and a sum within *)
(* the number of batches.                                                     *)
THEOREM TypeCorrect == Spec => []TypeOK
<1>1. IndInv => TypeOK
  BY DEF IndInv
<1> QED
  BY <1>1, InvariantHolds, PTL

(* Query 5 is answered with the number of transactions below the threshold or *)
(* not yet, for any number of replicas, batches, crashes and restarts of the  *)
(* fetcher (micro_transaction_counter.go, DeferredInputs), as long as no kill *)
(* falls in one of two moments: when the restart would open the input of the  *)
(* transactions before the rates are there, and between a token or EOF that   *)
(* is sent on and the checkpoint of what it counts (runtime.go:1128).  In     *)
(* either the code does give a wrong answer.                                  *)
THEOREM AnswerStaysExact ==
  ASSUME Windows = {}
  PROVE  Spec => []AnswerIsExact
<1>1. IndInv => AnswerIsExact
  BY DEF Protected, IndInv, RingInv, ExactInv, AnswerIsExact
<1> QED
  BY <1>1, InvariantHolds, PTL
=============================================================================
