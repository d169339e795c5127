--------------------------- MODULE RingStageProofs ---------------------------
(* Theorems about RingStage, for any number of replicas and batches, for     *)
(* stages that forward and stages that accumulate, with repeated messages    *)
(* and crashes; each theorem says which of these it excludes.                *)
EXTENDS RingStage, FiniteSetTheorems, SequenceTheorems, FunctionTheorems, TLAPS

USE ConstantsAssumption

-----------------------------------------------------------------------------
(* Sequences *)

(* Two elements of a sequence, around one that is removed, keep their order. *)
LEMMA RemoveAtElements ==
  ASSUME NEW S, NEW q \in Seq(S), NEW k \in 1 .. Len(q)
  PROVE  /\ RemoveAt(q, k) \in Seq(S)
         /\ Len(RemoveAt(q, k)) = Len(q) - 1
         /\ \A i \in 1 .. Len(q) - 1 : RemoveAt(q, k)[i] = IF i < k THEN q[i] ELSE q[i + 1]
<1> DEFINE left == SubSeq(q, 1, k - 1)
           right == SubSeq(q, k + 1, Len(q))
<1>1. /\ left \in Seq(S) /\ Len(left) = k - 1
      /\ \A i \in 1 .. k - 1 : left[i] = q[i]
  <2>1. \A i \in 1 .. k - 1 : q[i] \in S
    BY ElementOfSeq
  <2> QED
    BY <2>1, SubSeqProperties
<1>2. /\ right \in Seq(S) /\ Len(right) = Len(q) - k
      /\ \A i \in 1 .. Len(q) - k : right[i] = q[k + i]
  <2>1. \A i \in k + 1 .. Len(q) : q[i] \in S
    BY ElementOfSeq
  <2> QED
    BY <2>1, SubSeqProperties
<1>3. RemoveAt(q, k) = left \o right
  BY DEF RemoveAt
<1> HIDE DEF left, right
<1>7. left \in Seq(S) /\ right \in Seq(S) /\ Len(left) = k - 1 /\ Len(right) = Len(q) - k
  BY <1>1, <1>2
<1>4. /\ left \o right \in Seq(S) /\ Len(left \o right) = Len(left) + Len(right)
      /\ \A i \in 1 .. Len(left) + Len(right) :
           (left \o right)[i] = IF i <= Len(left) THEN left[i] ELSE right[i - Len(left)]
  BY <1>7, ConcatProperties
<1>5. Len(q) \in Nat /\ k \in Nat /\ Len(left) + Len(right) = Len(q) - 1
  BY <1>7
<1>6. ASSUME NEW i \in 1 .. Len(q) - 1
      PROVE  (left \o right)[i] = IF i < k THEN q[i] ELSE q[i + 1]
  <2>1. CASE i < k
    BY <2>1, <1>1, <1>4, <1>5
  <2>2. CASE i >= k
    <3>1. i - (k - 1) \in 1 .. Len(q) - k /\ k + (i - (k - 1)) = i + 1
      BY <2>2, <1>5
    <3>3. i \in 1 .. Len(left) + Len(right) /\ ~(i <= Len(left)) /\ Len(left) = k - 1
      BY <2>2, <1>5, <1>7
    <3>2. (left \o right)[i] = right[i - (k - 1)]
      BY <1>4, <3>3
    <3> QED
      BY <2>2, <3>1, <3>2, <1>2, <1>5
  <2> QED
    BY <2>1, <2>2, <1>5
<1> QED
  BY <1>3, <1>4, <1>5, <1>6

(* What is left of a sequence without its first n elements. *)
LEMMA DropElements ==
  ASSUME NEW S, NEW q \in Seq(S), NEW n \in 0 .. Len(q)
  PROVE  /\ SubSeq(q, n + 1, Len(q)) \in Seq(S)
         /\ Len(SubSeq(q, n + 1, Len(q))) = Len(q) - n
         /\ \A i \in 1 .. Len(q) - n : SubSeq(q, n + 1, Len(q))[i] = q[n + i]
<1>1. \A i \in n + 1 .. Len(q) : q[i] \in S
  BY ElementOfSeq
<1> QED
  BY <1>1, SubSeqProperties

(* Every element of a finite set is in one place in each of its orders. *)
LEMMA OrderOfSet ==
  ASSUME NEW S, IsFiniteSet(S), NEW q \in SetToSeqs(S)
  PROVE  /\ q \in Seq(S) /\ \A x \in S : \E i \in 1 .. Len(q) : q[i] = x
         /\ \A i, j \in 1 .. Len(q) : q[i] = q[j] => i = j
<1> DEFINE n == Cardinality(S)
<1>1. n \in Nat
  BY FS_CardinalityType
<1>2. q \in [1 .. n -> S] /\ \A i, j \in 1 .. n : i # j => q[i] # q[j]
  BY DEF SetToSeqs
<1>3. q \in Injection(1 .. n, S)
  BY <1>2 DEF Injection, IsInjective
<1>4. Cardinality(1 .. n) = n
  BY <1>1, FS_Interval
<1>5. q \in Surjection(1 .. n, S)
  BY <1>3, <1>4, FS_Injection
<1>6. q \in Seq(S) /\ Len(q) = n
  BY <1>1, <1>2
<1> QED
  BY <1>2, <1>5, <1>6 DEF Surjection
-----------------------------------------------------------------------------
(* Types; a handler publishes only some of the messages. *)

BatchMessages == [type : {"batch"}, batch : Batch]
EOFMessages == [type : {"eof"}, sender : {Upstream}, seq : Nat]
Tokens == [type : {"token"}, sender : Replica, seq : Nat, agg : 0 .. Total, closing : BOOLEAN]
Emitted == [type : {"result", "outeof"}, sender : Replica, seq : Nat, batches : SUBSET Batch]
Forwarded == [type : {"data"}, sender : Replica, batches : SUBSET Batch]
Sendable == EOFMessages \cup Tokens \cup Emitted \cup Forwarded

Typed == TypeOK /\ outbox \in [Replica -> Seq(Sendable)]

(* A kill between a token and its checkpoint can take back what the token    *)
(* counts.  Of a stage to which that may happen only the types and the       *)
(* origin of messages are claimed below, and the rest of all others.         *)
Lossy == KillAfterSend

(* What the next stages have; what no crash takes from the stage any more;   *)
(* the part of it that is at replicas up to r, and the same once a token     *)
(* that r is about to send has left.                                         *)
Secure == {b \in Batch : Lossy \/ Delivered(b)}
Kept == {b \in Batch : b \in Secure \/ b \in Saved(home[b])}
KeptBy(r) == {b \in Kept : home[b] <= r}
Ahead(r) == {b \in Batch : home[b] <= r /\ (b \in Kept \/ (home[b] = r /\ b \in mem[r].seen))}
OthersKept(r) == \A b \in Batch : home[b] = r \/ b \in Kept

(* A replica knows only batches of its own, and memory is never behind.      *)
SeenIsOwn ==
  \A r \in Replica : /\ disk[r].seen \subseteq mem[r].seen
                     /\ mem[r].seen \subseteq {b \in Batch : home[b] = r}

(* What was taken in from the input queue was handled. *)
InputOK(r) ==
  LET q == inbox[r]["input"]
  IN /\ taken[r]["input"] <= Len(q)
     /\ \A i \in 1 .. Len(q) :
          \/ /\ q[i] \in BatchMessages /\ home[q[i].batch] = r
             /\ i <= taken[r]["input"] => q[i].batch \in mem[r].seen
          \/ q[i] \in EOFMessages /\ r = 0

(* The sum of a collecting token never exceeds what is kept at the replicas  *)
(* it has visited, however old the counts in it are and whatever happened to *)
(* them since; a closing token finds everything kept.                        *)
TokenOK(t) == /\ t \in Tokens
              /\ ~t.closing => t.agg <= Cardinality(KeptBy(t.sender))
              /\ t.closing => Kept = Batch

RingOK(r) ==
  LET q == inbox[r]["ring"]
  IN /\ taken[r]["ring"] <= Len(q)
     /\ \A i \in 1 .. Len(q) : Successor(q[i].sender) = r /\ TokenOK(q[i])

(* What a replica is about to send will be true when it has left. *)
SendOK(r, m) == /\ m.type = "token" => /\ m.sender = r /\ m \in Tokens
                                       /\ ~m.closing => m.agg <= Cardinality(Ahead(r))
                                       /\ m.closing => Kept = Batch
                /\ m.type = "eof" => r = 0
                /\ m.type = "outeof" => OthersKept(r)
SendsOK(r, sends) == \A i \in 1 .. Len(sends) : SendOK(r, sends[i])
OutboxOK(r) == SendsOK(r, outbox[r])

(* A batch is on its way to the next stages, ahead of place i. *)
Carries(m, b) == m.type \in {"data", "result"} /\ b \in m.batches
CarriedBefore(q, i, b) == \E j \in 1 .. Len(q) : j < i /\ Carries(q[j], b)
Carried(q, b) == \E j \in 1 .. Len(q) : Carries(q[j], b)

(* The EOF of a replica is behind all it has to pass on. *)
EndsLast(r, q) ==
  \A i \in 1 .. Len(q) : q[i].type = "outeof" =>
    \A b \in Batch : home[b] = r => b \in Secure \/ CarriedBefore(q, i, b)

(* Whoever gives the client up does so when everything is kept. *)
EndIsComplete ==
  /\ tomb # {} \/ (\E r \in Replica : HasClosed(r)) => Kept = Batch
  /\ \A r \in Replica : phase[r] = "complete" => OthersKept(r)

(* What a replica sends on when it handles it, or when it gives the client   *)
(* up, is accepted or in its outbox, and accepted before anything is saved.  *)
Flushing ==
  \A b \in Batch :
    /\ phase[home[b]] = "complete" \/ (Forwards /\ b \in mem[home[b]].seen)
         => b \in Secure \/ Carried(outbox[home[b]], b)
    /\ home[b] \in tomb \/ (Forwards /\ b \in disk[home[b]].seen) => b \in Secure

(* A batch that was not passed on is saved, or in the queue, before what is  *)
(* not handled yet if it was handled.                                        *)
Waits(b) == \E i \in 1 .. Len(inbox[home[b]]["input"]) :
              /\ inbox[home[b]]["input"][i] = BatchMsg(b)
              /\ b \in mem[home[b]].seen => i <= taken[home[b]]["input"]
SecureOrWaits == \A b \in Batch : b \in Secure \/ b \in disk[home[b]].seen \/ Waits(b)

IndInv ==
  /\ Typed
  /\ SeenIsOwn
  /\ \A r \in Replica : InputOK(r) /\ RingOK(r) /\ OutboxOK(r) /\ EndsLast(r, outbox[r])
  /\ EndIsComplete
  /\ Flushing
  /\ SecureOrWaits

(* With all that, no more is needed for the properties. *)
LEMMA IndInvSuffices ==
  ASSUME IndInv, ~Lossy
  PROVE  NoBatchLost /\ ClosedIsComplete
<1>1. NoBatchLost
  BY DEF IndInv, NoBatchLost, SecureOrWaits, Flushing, Secure, Waits, Queued
<1>2. ClosedIsComplete
  BY DEF IndInv, ClosedIsComplete, EndIsComplete, Secure, Kept, Absorbed
<1> QED
  BY <1>1, <1>2

-----------------------------------------------------------------------------
(* Counting *)

LEMMA ReplicaFacts == N \in Nat /\ N >= 1 /\ Replica \subseteq Nat /\ 0 \in Replica /\ N - 1 \in Replica
  BY DEF Replica

LEMMA SuccessorIs == \A r \in Replica : Successor(r) = IF r = N - 1 THEN 0 ELSE r + 1
<1> SUFFICES ASSUME NEW r \in Replica PROVE Successor(r) = IF r = N - 1 THEN 0 ELSE r + 1
  OBVIOUS
<1>1. r \in 0 .. N - 1 /\ N \in Nat \ {0}
  BY DEF Replica
<1>2. CASE r = N - 1
  BY <1>1, <1>2 DEF Successor
<1>3. CASE r # N - 1
  BY <1>1, <1>3 DEF Successor
<1> QED
  BY <1>2, <1>3

LEMMA SetsFinite ==
  ASSUME NEW r
  PROVE  /\ IsFiniteSet(KeptBy(r)) /\ Cardinality(KeptBy(r)) \in Nat
         /\ IsFiniteSet(Ahead(r)) /\ Cardinality(Ahead(r)) \in Nat
         /\ IsFiniteSet(Batch) /\ Total \in Nat
         /\ Cardinality(KeptBy(r)) <= Total /\ Cardinality(Ahead(r)) <= Total
<1>1. KeptBy(r) \subseteq Batch /\ Ahead(r) \subseteq Batch
  BY DEF KeptBy, Kept, Ahead
<1> QED
  BY <1>1, FS_Subset, FS_CardinalityType DEF Total

(* What is known here adds to what is kept at the replicas before. *)
LEMMA SumGrows ==
  ASSUME NEW r \in Replica \ {0}, mem[r].seen \subseteq {b \in Batch : home[b] = r}
  PROVE  /\ Cardinality(mem[r].seen) \in Nat
         /\ Cardinality(KeptBy(r - 1)) + Cardinality(mem[r].seen) <= Cardinality(Ahead(r))
<1> DEFINE seen == mem[r].seen
<1>1. IsFiniteSet(seen) /\ Cardinality(seen) \in Nat
  BY FS_Subset, FS_CardinalityType
<1>2. KeptBy(r - 1) \cap seen = {} /\ KeptBy(r - 1) \cup seen \subseteq Ahead(r)
  BY ReplicaFacts DEF KeptBy, Kept, Ahead, Replica
<1> HIDE DEF seen
<1>3. Cardinality(KeptBy(r - 1) \cup seen) = Cardinality(KeptBy(r - 1)) + Cardinality(seen)
  <2>1. Cardinality(KeptBy(r - 1) \cap seen) = 0
    BY <1>2, FS_EmptySet
  <2>2. Cardinality(KeptBy(r - 1) \cup seen)
          = Cardinality(KeptBy(r - 1)) + Cardinality(seen) - Cardinality(KeptBy(r - 1) \cap seen)
    BY <1>1, SetsFinite, FS_Union
  <2>3. Cardinality(KeptBy(r - 1)) \in Nat
    BY SetsFinite
  <2> QED
    BY <1>1, <2>1, <2>2, <2>3
<1>4. Cardinality(KeptBy(r - 1) \cup seen) <= Cardinality(Ahead(r))
  BY <1>2, SetsFinite, FS_Subset
<1> QED
  BY <1>1, <1>3, <1>4 DEF seen

LEMMA OwnCount ==
  ASSUME NEW r \in Replica, mem[r].seen \subseteq {b \in Batch : home[b] = r}
  PROVE  Cardinality(mem[r].seen) \in Nat /\ Cardinality(mem[r].seen) <= Cardinality(Ahead(r))
<1>1. mem[r].seen \subseteq Ahead(r)
  BY ReplicaFacts DEF Ahead, Replica
<1> QED
  BY <1>1, SetsFinite, FS_Subset, FS_CardinalityType

(* The comparison of tryFinalize is right about everything that is kept. *)
LEMMA WholeSet ==
  ASSUME NEW S \in SUBSET Batch, Total <= Cardinality(S)
  PROVE  S = Batch
<1>1. IsFiniteSet(S) /\ Cardinality(S) <= Total /\ Cardinality(S) \in Nat /\ Total \in Nat
  BY FS_Subset, FS_CardinalityType DEF Total
<1>2. Cardinality(S) = Cardinality(Batch)
  BY <1>1 DEF Total
<1> QED
  BY <1>1, <1>2, FS_Subset

LEMMA TotalIsAll ==
  ASSUME Total <= Cardinality(KeptBy(N - 1))
  PROVE  Kept = Batch
<1>1. KeptBy(N - 1) = Batch
  BY WholeSet DEF KeptBy, Kept
<1> QED
  BY <1>1 DEF KeptBy, Kept

-----------------------------------------------------------------------------
(* RingCoordinator: what comes out of a message keeps the promises. *)

(* Replica r, that knows what s says, may announce the end. *)
MayEnd(r, s) == OthersKept(r) /\ \A b \in Batch : home[b] = r => b \in Secure \/ b \in s.seen

EndsIn(sends) == \E i \in 1 .. Len(sends) : sends[i].type = "outeof"
Opens(sends, s) == Forwards \/ (Len(sends) >= 1 /\ sends[1].type = "result" /\ sends[1].batches = s.seen)

GoodOutcome(r, s, o) ==
  /\ o.state \in State /\ o.state.seen = s.seen
  /\ o.sends \in Seq(Sendable) /\ SendsOK(r, o.sends)
  /\ o.end \in {"checkpoint", "complete"}
  /\ o.end = "complete" => MayEnd(r, s) /\ Opens(o.sends, s)
  /\ EndsIn(o.sends) => o.end = "complete"

LEMMA StateFields ==
  ASSUME NEW s \in State, NEW n \in Nat
  PROVE  /\ [s EXCEPT !.outSeq = n] \in State /\ [s EXCEPT !.outSeq = n].seen = s.seen
         /\ [s EXCEPT !.initiator = FALSE, !.cached = 0, !.outSeq = n] \in State
         /\ [s EXCEPT !.initiator = FALSE, !.cached = 0, !.outSeq = n].seen = s.seen
  BY DEF State

LEMMA GoodParts ==
  ASSUME NEW r, NEW s, NEW new \in State, new.seen = s.seen,
         NEW sends \in Seq(Sendable), SendsOK(r, sends),
         NEW end \in {"checkpoint", "complete"},
         end = "complete" => MayEnd(r, s) /\ Opens(sends, s),
         EndsIn(sends) => end = "complete"
  PROVE  GoodOutcome(r, s, Outcome(new, sends, end))
  BY DEF GoodOutcome, Outcome

LEMMA ResetFields ==
  ASSUME NEW s \in State
  PROVE  /\ [s EXCEPT !.initiator = FALSE, !.cached = 0] \in State
         /\ [s EXCEPT !.initiator = FALSE, !.cached = 0].seen = s.seen
  BY DEF State

LEMMA TokenSends ==
  ASSUME NEW r \in Replica, NEW n \in Nat, NEW agg \in 0 .. Total, NEW closing \in BOOLEAN,
         ~closing => agg <= Cardinality(Ahead(r)), closing => Kept = Batch
  PROVE  /\ <<Token(r, n, agg, closing)>> \in Seq(Sendable) /\ SendsOK(r, <<Token(r, n, agg, closing)>>)
         /\ ~EndsIn(<<Token(r, n, agg, closing)>>)
<1> DEFINE t == Token(r, n, agg, closing)
<1>1. /\ t \in Tokens /\ t \in Sendable /\ t.type = "token"
      /\ t.sender = r /\ t.closing = closing /\ t.agg = agg
  BY DEF Token, Tokens, Sendable
<1> HIDE DEF t
<1>2. SendOK(r, t)
  BY <1>1 DEF SendOK
<1>3. <<t>> \in Seq(Sendable) /\ Len(<<t>>) = 1 /\ <<t>>[1] = t
  BY <1>1
<1>4. SendsOK(r, <<t>>) /\ ~EndsIn(<<t>>)
  BY <1>1, <1>2, <1>3 DEF SendsOK, EndsIn
<1> QED
  BY <1>3, <1>4 DEF t

LEMMA OneToken ==
  ASSUME NEW r \in Replica, NEW s \in State, NEW n \in Nat, NEW agg \in Nat,
         NEW closing \in BOOLEAN, agg <= Total,
         ~closing => agg <= Cardinality(Ahead(r)), closing => Kept = Batch
  PROVE  GoodOutcome(r, s, Outcome([s EXCEPT !.outSeq = @ + 1], <<Token(r, n, agg, closing)>>, "checkpoint"))
<1> DEFINE sends == <<Token(r, n, agg, closing)>>
           new == [s EXCEPT !.outSeq = @ + 1]
<1>1. sends \in Seq(Sendable) /\ SendsOK(r, sends) /\ ~EndsIn(sends)
  <2>1. agg \in 0 .. Total
    BY FS_CardinalityType DEF Total
  <2> QED
    BY <2>1, TokenSends
<1>2. new \in State /\ new.seen = s.seen
  <2>1. s.outSeq + 1 \in Nat
    BY DEF State
  <2> QED
    BY <2>1, StateFields
<1> HIDE DEF sends, new
<1>3. GoodOutcome(r, s, Outcome(new, sends, "checkpoint"))
  BY <1>1, <1>2, GoodParts
<1> QED
  BY <1>3 DEF sends, new

(* The messages that end the client here, and what is still to be sent on. *)
LEMMA EmissionFacts ==
  ASSUME NEW r \in Replica, NEW s \in State, OthersKept(r)
  PROVE  /\ Emission(r, s) \in Seq(Sendable) /\ Len(Emission(r, s)) \in Nat /\ Len(Emission(r, s)) >= 1
         /\ SendsOK(r, Emission(r, s)) /\ Opens(Emission(r, s), s)
<1>1. s.seen \in SUBSET Batch /\ s.outSeq + 1 \in Nat /\ s.outSeq + 2 \in Nat
  BY DEF State
<1>2. CASE ~Forwards
  <2> DEFINE x == Result(r, s.outSeq + 1, s.seen)
             y == OutEOF(r, s.outSeq + 2)
  <2>1. x \in Emitted /\ x.type = "result" /\ x.batches = s.seen
    BY <1>1 DEF Result, Emitted
  <2>2. y \in Emitted /\ y.type = "outeof"
    BY <1>1 DEF OutEOF, Emitted
  <2>3. Emission(r, s) = <<x, y>>
    BY <1>2 DEF Emission
  <2> HIDE DEF x, y
  <2>4. <<x, y>> \in Seq(Sendable) /\ Len(<<x, y>>) = 2 /\ <<x, y>>[1] = x /\ <<x, y>>[2] = y
    BY <2>1, <2>2 DEF Sendable
  <2>5. SendsOK(r, <<x, y>>)
    BY <2>1, <2>2, <2>4 DEF SendsOK, SendOK
  <2> QED
    BY <2>1, <2>3, <2>4, <2>5 DEF Opens
<1>3. CASE Forwards
  <2> DEFINE y == OutEOF(r, s.outSeq + 1)
  <2>1. y \in Emitted /\ y.type = "outeof"
    BY <1>1 DEF OutEOF, Emitted
  <2>2. Emission(r, s) = <<y>>
    BY <1>3 DEF Emission
  <2> HIDE DEF y
  <2>3. <<y>> \in Seq(Sendable) /\ Len(<<y>>) = 1 /\ <<y>>[1] = y
    BY <2>1 DEF Sendable
  <2>4. SendsOK(r, <<y>>)
    BY <2>1, <2>3 DEF SendsOK, SendOK
  <2> QED
    BY <1>3, <2>2, <2>3, <2>4 DEF Opens
<1> QED
  BY <1>2, <1>3

(* One list of messages behind another. *)
LEMMA ConcatElements ==
  ASSUME NEW e \in Seq(Sendable), NEW sends \in Seq(Sendable)
  PROVE  /\ e \o sends \in Seq(Sendable) /\ Len(e \o sends) = Len(e) + Len(sends)
         /\ Len(e) \in Nat /\ Len(sends) \in Nat
         /\ \A i \in 1 .. Len(e) : i \in 1 .. Len(e \o sends) /\ (e \o sends)[i] = e[i]
         /\ \A i \in 1 .. Len(sends) :
              Len(e) + i \in 1 .. Len(e \o sends) /\ (e \o sends)[Len(e) + i] = sends[i]
         /\ \A i \in 1 .. Len(e \o sends) :
              \/ i \in 1 .. Len(e) /\ (e \o sends)[i] = e[i]
              \/ \E j \in 1 .. Len(sends) : i = Len(e) + j /\ (e \o sends)[i] = sends[j]
<1> DEFINE a == e \o sends
<1>1. /\ a \in Seq(Sendable) /\ Len(a) = Len(e) + Len(sends)
      /\ \A i \in 1 .. Len(e) + Len(sends) :
           a[i] = IF i <= Len(e) THEN e[i] ELSE sends[i - Len(e)]
  BY ConcatProperties
<1> HIDE DEF a
<1>2. Len(e) \in Nat /\ Len(sends) \in Nat
  BY LenProperties
<1>3. \A i \in 1 .. Len(e) : i \in 1 .. Len(a) /\ a[i] = e[i]
  BY <1>1, <1>2
<1>4. ASSUME NEW i \in 1 .. Len(sends) PROVE Len(e) + i \in 1 .. Len(a) /\ a[Len(e) + i] = sends[i]
  <2>1. Len(e) + i \in 1 .. Len(a) /\ ~(Len(e) + i <= Len(e)) /\ (Len(e) + i) - Len(e) = i
    BY <1>1, <1>2
  <2> QED
    BY <1>1, <2>1
<1>5. ASSUME NEW i \in 1 .. Len(a)
      PROVE  \/ i \in 1 .. Len(e) /\ a[i] = e[i]
             \/ \E j \in 1 .. Len(sends) : i = Len(e) + j /\ a[i] = sends[j]
  <2>1. CASE i <= Len(e)
    BY <1>1, <1>2, <2>1
  <2>2. CASE ~(i <= Len(e))
    <3>1. i - Len(e) \in 1 .. Len(sends) /\ i = Len(e) + (i - Len(e))
      BY <1>1, <1>2, <2>2
    <3>2. a[i] = sends[i - Len(e)]
      BY <1>1, <2>2
    <3> QED
      BY <3>1, <3>2
  <2> QED
    BY <2>1, <2>2
<1> QED
  BY <1>1, <1>2, <1>3, <1>4, <1>5 DEF a

LEMMA SendsTogether ==
  ASSUME NEW r, NEW e \in Seq(Sendable), NEW sends \in Seq(Sendable),
         SendsOK(r, e), SendsOK(r, sends)
  PROVE  SendsOK(r, e \o sends)
<1> DEFINE a == e \o sends
<1>1. \A i \in 1 .. Len(a) :
        \/ i \in 1 .. Len(e) /\ a[i] = e[i]
        \/ \E j \in 1 .. Len(sends) : i = Len(e) + j /\ a[i] = sends[j]
  BY ConcatElements
<1> HIDE DEF a
<1>2. ASSUME NEW i \in 1 .. Len(a), NEW m, m = a[i] PROVE SendOK(r, m)
  BY <1>1, <1>2 DEF SendsOK
<1>3. SendsOK(r, a)
  BY <1>2 DEF SendsOK
<1> QED
  BY <1>3 DEF a

LEMMA EmitOK ==
  ASSUME NEW r \in Replica, NEW s \in State, MayEnd(r, s),
         NEW sends \in Seq(Sendable), SendsOK(r, sends)
  PROVE  GoodOutcome(r, s, Emit(r, s, sends))
<1> DEFINE e == Emission(r, s)
           new == [s EXCEPT !.initiator = FALSE, !.cached = 0, !.outSeq = @ + Len(e) + Len(sends)]
<1>1. /\ e \in Seq(Sendable) /\ Len(e) \in Nat /\ Len(e) >= 1 /\ SendsOK(r, e)
      /\ Opens(e, s)
  BY EmissionFacts DEF MayEnd
<1>2. Emit(r, s, sends) = Outcome(new, e \o sends, "complete")
  BY DEF Emit
<1> HIDE DEF e
<1>3. new \in State /\ new.seen = s.seen
  <2>1. s.outSeq + Len(e) + Len(sends) \in Nat
    <3>1. s.outSeq \in Nat /\ Len(e) \in Nat /\ Len(sends) \in Nat
      BY <1>1 DEF State
    <3> QED
      BY <3>1
  <2> QED
    BY <2>1, StateFields
<1> HIDE DEF new
<1>4. e \o sends \in Seq(Sendable) /\ SendsOK(r, e \o sends)
  BY <1>1, ConcatElements, SendsTogether
<1>5. Opens(e \o sends, s)
  <2>1. 1 \in 1 .. Len(e)
    BY <1>1
  <2>2. 1 \in 1 .. Len(e \o sends) /\ (e \o sends)[1] = e[1]
    BY <1>1, <2>1, ConcatElements
  <2> QED
    BY <1>1, <2>2 DEF Opens
<1>6. GoodOutcome(r, s, Outcome(new, e \o sends, "complete"))
  BY <1>3, <1>4, <1>5, GoodParts
<1> QED
  BY <1>2, <1>6

LEMMA NothingToSend == <<>> \in Seq(Sendable) /\ ~EndsIn(<<>>) /\ \A r : SendsOK(r, <<>>)
  BY DEF SendsOK, EndsIn

LEMMA TryFinalizeOK ==
  ASSUME NEW s \in State, NEW agg, agg = Total => MayEnd(0, s) /\ (N > 1 => Kept = Batch)
  PROVE  GoodOutcome(0, s, TryFinalize(s, agg))
<1>1. CASE agg # Total
  <2> DEFINE e == EOFMsg(RetrySeq(s))
  <2>1. e \in EOFMessages /\ e.type = "eof"
    BY DEF EOFMsg, EOFMessages, RetrySeq, State, Sender, Upstream
  <2>2. TryFinalize(s, agg) = Outcome([s EXCEPT !.initiator = FALSE, !.cached = 0], <<e>>, "checkpoint")
    BY <1>1 DEF TryFinalize, Incomplete
  <2> HIDE DEF e
  <2>3. <<e>> \in Seq(Sendable) /\ SendsOK(0, <<e>>) /\ ~EndsIn(<<e>>)
    BY <2>1 DEF SendsOK, SendOK, Sendable, EndsIn
  <2>4. /\ [s EXCEPT !.initiator = FALSE, !.cached = 0] \in State
        /\ [s EXCEPT !.initiator = FALSE, !.cached = 0].seen = s.seen
    BY ResetFields
  <2> QED
    <3> DEFINE new == [s EXCEPT !.initiator = FALSE, !.cached = 0]
    <3>1. new \in State /\ new.seen = s.seen /\ TryFinalize(s, agg) = Outcome(new, <<e>>, "checkpoint")
      BY <2>2, <2>4
    <3> HIDE DEF new
    <3> QED
      BY <2>3, <3>1, GoodParts
<1>2. CASE agg = Total /\ Broadcast /\ N > 1
  <2>1. agg \in Nat /\ agg <= Total /\ s.outSeq + 1 \in Nat
    <3>1. Total \in Nat /\ s.outSeq \in Nat
      BY FS_CardinalityType DEF Total, State
    <3> QED
      BY <1>2, <3>1
  <2>2. GoodOutcome(0, s, Outcome([s EXCEPT !.outSeq = @ + 1], <<Token(0, s.outSeq + 1, agg, TRUE)>>, "checkpoint"))
    BY <1>2, <2>1, OneToken, ReplicaFacts
  <2> QED
    BY <1>2, <2>2 DEF TryFinalize, Incomplete
<1>3. CASE agg = Total /\ ~(Broadcast /\ N > 1)
  <2>1. GoodOutcome(0, s, Emit(0, s, <<>>))
    BY <1>3, EmitOK, NothingToSend, ReplicaFacts
  <2> QED
    BY <1>3, <2>1 DEF TryFinalize, Incomplete
<1> QED
  BY <1>1, <1>2, <1>3

(* When everything is kept, what is not passed on yet is known here. *)
LEMMA KeptMayEnd ==
  ASSUME NEW r \in Replica, NEW s, Kept = Batch, Saved(r) \subseteq s.seen
  PROVE  MayEnd(r, s)
  BY DEF MayEnd, OthersKept, Kept

LEMMA UpstreamEOFOutcomeOK ==
  ASSUME NEW s \in State, s.seen = mem[0].seen, mem[0].seen \subseteq {b \in Batch : home[b] = 0}
  PROVE  GoodOutcome(0, s, UpstreamEOFOutcome(s))
<1>1. Processed(s) \in Nat /\ Processed(s) <= Cardinality(Ahead(0))
  BY OwnCount, ReplicaFacts DEF Processed
<1>2. CASE N = 1
  <2>1. ASSUME Processed(s) = Total PROVE MayEnd(0, s)
    <3>1. s.seen \in SUBSET Batch /\ Total <= Cardinality(s.seen)
      BY <2>1, FS_CardinalityType DEF State, Processed, Total
    <3>2. s.seen = Batch
      BY <3>1, WholeSet
    <3>3. \A b \in Batch : home[b] = 0
      BY <1>2 DEF Replica
    <3> QED
      BY <3>2, <3>3 DEF MayEnd, OthersKept
  <2> QED
    BY <1>2, <2>1, TryFinalizeOK DEF UpstreamEOFOutcome
<1>3. CASE N # 1
  <2>1. s.outSeq + 1 \in Nat /\ Processed(s) <= Total
    <3>1. s.outSeq \in Nat /\ Cardinality(Ahead(0)) \in Nat /\ Cardinality(Ahead(0)) <= Total /\ Total \in Nat
      BY SetsFinite DEF State
    <3> QED
      BY <1>1, <3>1
  <2>2. GoodOutcome(0, s, Outcome([s EXCEPT !.outSeq = @ + 1],
                                  <<Token(0, s.outSeq + 1, Processed(s), FALSE)>>, "checkpoint"))
    BY <1>1, <2>1, OneToken, ReplicaFacts
  <2> QED
    BY <1>3, <2>2 DEF UpstreamEOFOutcome
<1> QED
  BY <1>2, <1>3

LEMMA TokenOutcomeOK ==
  ASSUME NEW r \in Replica, NEW s \in State, NEW t \in Tokens,
         s = mem[r], mem[r].seen \subseteq {b \in Batch : home[b] = r}, Saved(r) \subseteq mem[r].seen,
         Successor(t.sender) = r, TokenOK(t)
  PROVE  GoodOutcome(r, s, TokenOutcome(r, s, t))
<1>1. /\ t.agg \in Nat /\ t.agg \in 0 .. Total /\ t.sender \in Replica /\ t.closing \in BOOLEAN
      /\ ~t.closing => t.agg <= Cardinality(KeptBy(t.sender))
      /\ t.closing => Kept = Batch
  BY DEF TokenOK, Tokens
<1>5. Kept = Batch => MayEnd(r, s)
  BY KeptMayEnd
<1>2. CASE r = 0
  <2>1. t.sender = N - 1
    <3>1. r = IF t.sender = N - 1 THEN 0 ELSE t.sender + 1
      BY <1>1, SuccessorIs
    <3> QED
      BY <1>1, <1>2, <3>1 DEF Replica
  <2>2. ~t.closing => GoodOutcome(0, s, TryFinalize(s, t.agg))
    <3>1. ASSUME ~t.closing, t.agg = Total PROVE Kept = Batch
      BY <1>1, <2>1, <3>1, TotalIsAll
    <3> QED
      BY <1>2, <1>5, <3>1, TryFinalizeOK
  <2>3. GoodOutcome(0, s, Outcome(s, <<>>, "checkpoint"))
    BY GoodParts, NothingToSend
  <2>4. t.closing => GoodOutcome(0, s, Emit(0, s, <<>>))
    BY <1>1, <1>2, <1>5, EmitOK, NothingToSend, ReplicaFacts
  <2> QED
    BY <1>1, <1>2, <2>2, <2>3, <2>4 DEF TokenOutcome
<1>3. CASE r # 0 /\ ~t.closing
  <2>1. t.sender = r - 1
    <3>1. r = IF t.sender = N - 1 THEN 0 ELSE t.sender + 1
      BY <1>1, SuccessorIs
    <3> QED
      BY <1>1, <1>3, <3>1 DEF Replica
  <2>2. /\ Processed(s) \in Nat /\ t.agg + Processed(s) <= Cardinality(Ahead(r))
        /\ Cardinality(Ahead(r)) \in Nat /\ Cardinality(Ahead(r)) <= Total /\ Total \in Nat
    <3>1. /\ Processed(s) \in Nat /\ Cardinality(KeptBy(r - 1)) \in Nat
          /\ Cardinality(KeptBy(r - 1)) + Processed(s) <= Cardinality(Ahead(r))
      BY <1>3, SumGrows, SetsFinite DEF Processed
    <3>2. Cardinality(Ahead(r)) \in Nat /\ Cardinality(Ahead(r)) <= Total /\ Total \in Nat
      BY SetsFinite
    <3> QED
      BY <1>1, <1>3, <2>1, <3>1, <3>2
  <2>3. s.outSeq + 1 \in Nat /\ t.agg + Processed(s) \in Nat /\ t.agg + Processed(s) <= Total
    BY <1>1, <2>2 DEF State
  <2>4. GoodOutcome(r, s, Outcome([s EXCEPT !.outSeq = @ + 1],
                                  <<Token(r, s.outSeq + 1, t.agg + Processed(s), FALSE)>>, "checkpoint"))
    BY <2>2, <2>3, OneToken
  <2> QED
    BY <1>3, <2>4 DEF TokenOutcome
<1>4. CASE r # 0 /\ t.closing
  <2> DEFINE n == s.outSeq + Len(Emission(r, s)) + 1
  <2>1. n \in Nat
    <3>1. s.outSeq \in Nat /\ Len(Emission(r, s)) \in Nat
      BY <1>1, <1>4, <1>5, EmissionFacts DEF State, MayEnd
    <3> QED
      BY <3>1
  <2>2. TokenOutcome(r, s, t) = Emit(r, s, <<Token(r, n, t.agg, TRUE)>>)
    BY <1>4 DEF TokenOutcome
  <2> HIDE DEF n
  <2>3. <<Token(r, n, t.agg, TRUE)>> \in Seq(Sendable) /\ SendsOK(r, <<Token(r, n, t.agg, TRUE)>>)
    BY <1>1, <1>4, <2>1, TokenSends
  <2> QED
    BY <1>1, <1>4, <1>5, <2>2, <2>3, EmitOK
<1> QED
  BY <1>2, <1>3, <1>4

-----------------------------------------------------------------------------
(* What is kept stays kept, so what is not touched stays as it is. *)

LEMMA KeptGrows ==
  ASSUME Kept \subseteq Kept'
  PROVE  /\ Kept' \subseteq Batch /\ (Kept = Batch => Kept' = Batch)
         /\ \A t : TokenOK(t) => TokenOK(t)'
         /\ \A r : OthersKept(r) => OthersKept(r)'
<1>1. Kept' \subseteq Batch /\ (Kept = Batch => Kept' = Batch)
  BY DEF Kept
<1>2. ASSUME NEW r PROVE Cardinality(KeptBy(r)) <= Cardinality(KeptBy(r)')
  <2>1. KeptBy(r) \subseteq KeptBy(r)' /\ KeptBy(r)' \subseteq Batch
    BY <1>1 DEF KeptBy
  <2>2. IsFiniteSet(KeptBy(r)')
    BY <2>1, FS_Subset
  <2> QED
    BY <2>1, <2>2, FS_Subset
<1>3. ASSUME NEW t, TokenOK(t) PROVE TokenOK(t)'
  <2>1. /\ Cardinality(KeptBy(t.sender)) \in Nat
        /\ Cardinality(KeptBy(t.sender)') \in Nat
        /\ Cardinality(KeptBy(t.sender)) <= Cardinality(KeptBy(t.sender)')
    <3>1. KeptBy(t.sender)' \subseteq Batch
      BY <1>1 DEF KeptBy
    <3> QED
      BY <1>2, <3>1, SetsFinite, FS_Subset, FS_CardinalityType
  <2>2. t \in Tokens /\ t.agg \in Nat
    BY <1>3 DEF TokenOK, Tokens
  <2>3. ~t.closing => t.agg <= Cardinality(KeptBy(t.sender)')
    BY <1>3, <2>1, <2>2 DEF TokenOK
  <2> QED
    BY <1>1, <1>3, <2>2, <2>3 DEF TokenOK
<1>4. \A r : OthersKept(r) => OthersKept(r)'
  BY DEF OthersKept
<1> QED
  BY <1>1, <1>3, <1>4

(* A count that is not larger than a set is not larger than a larger one. *)
LEMMA SendGrows ==
  ASSUME NEW r, Kept \subseteq Kept',
         \A b \in Batch : home[b] = r /\ b \in mem[r].seen => b \in mem'[r].seen
  PROVE  \A m : SendOK(r, m) => SendOK(r, m)'
<1>1. Ahead(r) \subseteq Ahead(r)' /\ Ahead(r)' \subseteq Batch
  BY DEF Ahead
<1>2. /\ Cardinality(Ahead(r)) \in Nat /\ Cardinality(Ahead(r)') \in Nat
      /\ Cardinality(Ahead(r)) <= Cardinality(Ahead(r)')
  BY <1>1, SetsFinite, FS_Subset, FS_CardinalityType
<1>3. (Kept = Batch => Kept' = Batch) /\ (OthersKept(r) => OthersKept(r)')
  BY KeptGrows
<1>4. ASSUME NEW m, SendOK(r, m) PROVE SendOK(r, m)'
  <2>1. m.type = "token" /\ ~m.closing => m.agg <= Cardinality(Ahead(r)')
    <3>1. m.type = "token" => m.agg \in Nat
      BY <1>4 DEF SendOK, Tokens
    <3> QED
      BY <1>2, <1>4, <3>1 DEF SendOK
  <2> QED
    BY <1>3, <1>4, <2>1 DEF SendOK
<1> QED
  BY <1>4

(* Nothing is taken from what the next stages have, and what a replica has   *)
(* saved or let go it keeps until it has passed it on.                       *)
LEMMA KeptStays ==
  ASSUME out \subseteq out',
         \A b \in Batch : b \in Saved(home[b]) => b \in Saved(home[b])' \/ b \in Secure'
  PROVE  Secure \subseteq Secure' /\ Kept \subseteq Kept'
<1>1. Secure \subseteq Secure'
  BY DEF Secure, Delivered, Lossy
<1> QED
  BY <1>1 DEF Kept

LEMMA KeptSame ==
  ASSUME out' = out, sent' = sent, disk' = disk,
         \A r \in Replica : mem[r].seen \subseteq mem'[r].seen
  PROVE  Secure' = Secure /\ Kept \subseteq Kept'
<1>1. Secure' = Secure
  BY DEF Secure, Delivered, Lossy
<1>2. \A b \in Batch : b \in Saved(home[b]) => b \in Saved(home[b])'
  BY DEF Saved
<1> QED
  BY <1>1, <1>2, KeptStays

LEMMA Unchanged ==
  ASSUME IndInv, NEW r \in Replica, Secure \subseteq Secure', Kept \subseteq Kept',
         mem[r].seen \subseteq mem'[r].seen
  PROVE  /\ inbox'[r]["input"] = inbox[r]["input"] /\ taken'[r]["input"] = taken[r]["input"] => InputOK(r)'
         /\ inbox'[r]["ring"] = inbox[r]["ring"] /\ taken'[r]["ring"] = taken[r]["ring"] => RingOK(r)'
         /\ outbox'[r] = outbox[r] => OutboxOK(r)' /\ EndsLast(r, outbox[r])'
<1>1. InputOK(r) /\ RingOK(r) /\ OutboxOK(r) /\ EndsLast(r, outbox[r])
  BY DEF IndInv
<1>2. (\A t : TokenOK(t) => TokenOK(t)') /\ (\A m : SendOK(r, m) => SendOK(r, m)')
  BY KeptGrows, SendGrows
<1>3. ASSUME inbox'[r]["input"] = inbox[r]["input"], taken'[r]["input"] = taken[r]["input"]
      PROVE  InputOK(r)'
  BY <1>1, <1>3 DEF InputOK
<1>4. ASSUME inbox'[r]["ring"] = inbox[r]["ring"], taken'[r]["ring"] = taken[r]["ring"]
      PROVE  RingOK(r)'
  BY <1>1, <1>2, <1>4 DEF RingOK
<1>5. ASSUME outbox'[r] = outbox[r]
      PROVE  OutboxOK(r)' /\ EndsLast(r, outbox[r])'
  <2>1. OutboxOK(r)'
    BY <1>1, <1>2, <1>5 DEF OutboxOK, SendsOK
  <2>2. EndsLast(r, outbox[r])'
    BY <1>1, <1>5 DEF EndsLast, CarriedBefore, Carries
  <2> QED
    BY <2>1, <2>2
<1> QED
  BY <1>3, <1>4, <1>5

LEMMA EndStays ==
  ASSUME IndInv, Kept \subseteq Kept', tomb' = tomb,
         \A r \in Replica : HasClosed(r)' => HasClosed(r),
         \A r \in Replica : phase'[r] = "complete" => phase[r] = "complete"
  PROVE  EndIsComplete'
  BY KeptGrows DEF IndInv, EndIsComplete

LEMMA FlushingStays ==
  ASSUME IndInv, Secure \subseteq Secure', tomb' = tomb, disk' = disk,
         \A r \in Replica : phase'[r] = "complete" => phase[r] = "complete",
         \A b \in Batch : /\ b \in mem'[home[b]].seen => b \in mem[home[b]].seen
                          /\ Carried(outbox[home[b]], b) => b \in Secure' \/ Carried(outbox'[home[b]], b)
  PROVE  Flushing'
<1> SUFFICES ASSUME NEW b \in Batch
             PROVE  /\ phase'[home[b]] = "complete" \/ (Forwards /\ b \in mem'[home[b]].seen)
                         => b \in Secure' \/ Carried(outbox'[home[b]], b)
                    /\ home[b] \in tomb' \/ (Forwards /\ b \in disk'[home[b]].seen) => b \in Secure'
  BY DEF Flushing, Carried, Carries
<1>1. home[b] \in Replica
  OBVIOUS
<1>2. /\ phase[home[b]] = "complete" \/ (Forwards /\ b \in mem[home[b]].seen)
            => b \in Secure \/ Carried(outbox[home[b]], b)
      /\ home[b] \in tomb \/ (Forwards /\ b \in disk[home[b]].seen) => b \in Secure
  BY DEF IndInv, Flushing
<1> QED
  BY <1>1, <1>2

(* A batch stays queued where no input queue loses one. *)
LEMMA StillWaiting ==
  ASSUME IndInv, Secure \subseteq Secure', disk' = disk,
         \A b \in Batch \ Secure : Waits(b) => Waits(b)'
  PROVE  SecureOrWaits'
  BY DEF IndInv, SecureOrWaits

LEMMA WaitsUnchanged ==
  ASSUME NEW b \in Batch, Waits(b), inbox'[home[b]]["input"] = inbox[home[b]]["input"],
         taken'[home[b]]["input"] = taken[home[b]]["input"],
         b \in mem'[home[b]].seen => b \in mem[home[b]].seen
  PROVE  Waits(b)'
  BY DEF Waits

-----------------------------------------------------------------------------
(* The initial states *)

LEMMA ArrivingFacts ==
  ASSUME NEW r \in Replica
  PROVE  /\ IsFiniteSet(Arriving(r))
         /\ \A m \in Arriving(r) : \/ m \in BatchMessages /\ home[m.batch] = r
                                   \/ m \in EOFMessages /\ r = 0 /\ m = EOFMsg(1)
         /\ \A b \in Batch : home[b] = r => BatchMsg(b) \in Arriving(r)
<1> DEFINE mine == {b \in Batch : home[b] = r}
           batches == {BatchMsg(b) : b \in mine}
           f == [b \in mine |-> BatchMsg(b)]
           eofs == IF r = 0 THEN {EOFMsg(1)} ELSE {}
<1>1. IsFiniteSet(mine)
  BY FS_Subset
<1>2. f \in Surjection(mine, batches)
  BY DEF Surjection
<1>3. IsFiniteSet(batches)
  BY <1>1, <1>2, FS_Surjection
<1>4. IsFiniteSet(eofs)
  BY FS_EmptySet, FS_Singleton
<1>5. Arriving(r) = batches \cup eofs
  BY DEF Arriving
<1>6. IsFiniteSet(Arriving(r))
  <2> HIDE DEF batches, eofs
  <2> QED
    BY <1>3, <1>4, <1>5, FS_Union
<1>7. EOFMsg(1) \in EOFMessages /\ \A b \in Batch : BatchMsg(b) \in BatchMessages /\ BatchMsg(b).batch = b
  BY DEF BatchMsg, BatchMessages, EOFMsg, EOFMessages
<1> QED
  BY <1>5, <1>6, <1>7

LEMMA FreshType == Fresh \in State /\ Fresh.seen = {}
  BY DEF Fresh, State, Sender

LEMMA InitInd == Init => IndInv
<1> SUFFICES ASSUME Init PROVE IndInv
  OBVIOUS
<1>1. \A r \in Replica : /\ inbox[r]["input"] \in SetToSeqs(Arriving(r))
                         /\ inbox[r]["ring"] = <<>>
  BY DEF Init
<1>2. ASSUME NEW r \in Replica
      PROVE  /\ inbox[r]["input"] \in Seq(Arriving(r))
             /\ \A m \in Arriving(r) : \E i \in 1 .. Len(inbox[r]["input"]) : inbox[r]["input"][i] = m
  BY <1>1, ArrivingFacts, OrderOfSet
<1>3. Typed
  <2>1. inbox \in [Replica -> [Ports -> Seq(Messages)]]
    <3>1. \A r \in Replica : Arriving(r) \subseteq Messages
      BY ArrivingFacts DEF Messages, BatchMessages, EOFMessages
    <3>2. \A r \in Replica : inbox[r]["input"] \in Seq(Messages) /\ inbox[r]["ring"] \in Seq(Messages)
      BY <1>1, <1>2, <3>1, SeqMonotonic, EmptySeq
    <3>3. \A r \in Replica : inbox[r] = [p \in Ports |-> inbox[r][p]]
      BY DEF Init, Ports
    <3>4. inbox = [r \in Replica |-> inbox[r]]
      BY DEF Init
    <3>5. \A r \in Replica : inbox[r] \in [Ports -> Seq(Messages)]
      BY <3>2, <3>3 DEF Ports
    <3> QED
      BY <3>4, <3>5
  <2>2. outbox \in [Replica -> Seq(Sendable)] /\ outbox \in [Replica -> Seq(Messages \cup Outputs)]
    BY DEF Init
  <2> QED
    BY <2>1, <2>2, FreshType DEF Typed, TypeOK, Init
<1>4. SeenIsOwn /\ \A r \in Replica : mem[r].seen = {} /\ disk[r].seen = {}
  BY FreshType DEF SeenIsOwn, Init
<1>5. ASSUME NEW r \in Replica PROVE InputOK(r) /\ RingOK(r) /\ OutboxOK(r) /\ EndsLast(r, outbox[r])
  <2>1. InputOK(r)
    <3> DEFINE q == inbox[r]["input"]
    <3>1. taken[r]["input"] = 0 /\ q \in Seq(Arriving(r))
      BY <1>2 DEF Init, Ports
    <3>2. \A i \in 1 .. Len(q) : q[i] \in Arriving(r)
      BY <3>1, ElementOfSeq
    <3> HIDE DEF q
    <3>3. /\ Len(q) \in Nat
          /\ \A i \in 1 .. Len(q) : \/ q[i] \in BatchMessages /\ home[q[i].batch] = r
                                    \/ q[i] \in EOFMessages /\ r = 0
      BY <3>1, <3>2, ArrivingFacts
    <3> QED
      BY <3>1, <3>3 DEF InputOK, q
  <2>2. RingOK(r)
    BY <1>1 DEF RingOK, Init, Ports
  <2>3. OutboxOK(r) /\ EndsLast(r, outbox[r])
    BY DEF OutboxOK, SendsOK, EndsLast, Init
  <2> QED
    BY <2>1, <2>2, <2>3
<1>6. EndIsComplete /\ Flushing
  <2>1. \A b \in Batch : home[b] \in Replica
    OBVIOUS
  <2>2. \A r \in Replica : phase[r] # "complete"
    BY DEF Init
  <2>3. tomb = {} /\ out = {}
    BY DEF Init
  <2> QED
    BY <1>4, <2>1, <2>2, <2>3 DEF EndIsComplete, Flushing, HasClosed
<1>7. SecureOrWaits
  <2>1. \A b \in Batch : home[b] \in Replica
    OBVIOUS
  <2> QED
    BY <1>2, <1>4, <2>1, ArrivingFacts DEF SecureOrWaits, Waits
<1> QED
  BY <1>3, <1>4, <1>5, <1>6, <1>7 DEF IndInv

-----------------------------------------------------------------------------
(* The handlers *)

LEMMA DiscardInd ==
  ASSUME IndInv, NEW r \in Replica, NEW p \in Ports, Discard(r, p)
  PROVE  IndInv' /\ Kept \subseteq Kept'
<1> DEFINE q == inbox[r][p]
           k == taken[r][p] + 1
<1>1. q \in Seq(Messages) /\ k \in 1 .. Len(q)
  BY DEF IndInv, Typed, TypeOK, Discard, Waiting
<1>2. /\ inbox' = [inbox EXCEPT ![r][p] = RemoveAt(q, k)]
      /\ UNCHANGED <<taken, mem, disk, tomb, outbox, sent, phase, out, crashes, redeliveries>>
  BY DEF Discard
<1>3. /\ RemoveAt(q, k) \in Seq(Messages) /\ Len(RemoveAt(q, k)) = Len(q) - 1
      /\ \A i \in 1 .. Len(q) - 1 : RemoveAt(q, k)[i] = IF i < k THEN q[i] ELSE q[i + 1]
  BY <1>1, RemoveAtElements
<1>4. /\ inbox'[r][p] = RemoveAt(q, k)
      /\ \A s \in Replica, o \in Ports : s # r \/ o # p => inbox'[s][o] = inbox[s][o]
      /\ inbox' \in [Replica -> [Ports -> Seq(Messages)]]
  BY <1>2, <1>3 DEF IndInv, Typed, TypeOK
<1>5. Secure' = Secure /\ Kept \subseteq Kept' /\ \A t : TokenOK(t) => TokenOK(t)'
  BY <1>2, KeptSame, KeptGrows
<1>6. ASSUME NEW b \in Batch \ Secure, p = "input", q[k] = BatchMsg(b)
      PROVE  b \in mem[home[b]].seen
  <2>1. q[k].type = "batch" /\ q[k].batch = b
    BY <1>6 DEF BatchMsg
  <2>2. r \in tomb \/ b \in mem[r].seen
    BY <2>1 DEF Discard, Discarded, IsDuplicate, Message
  <2>3. q[k] \in BatchMessages /\ home[q[k].batch] = r
    BY <1>1, <1>6, <2>1 DEF IndInv, InputOK, EOFMessages
  <2> QED
    BY <1>6, <2>1, <2>2, <2>3 DEF IndInv, Flushing
<1>11. taken'[r][p] = taken[r][p] /\ taken[r][p] = k - 1 /\ k \in Nat
  <2>1. taken[r][p] \in Nat
    BY DEF IndInv, Typed, TypeOK
  <2> QED
    BY <1>2, <2>1
<1> HIDE DEF q, k
(* Each element comes from a place that is not before its own. *)
<1>12. ASSUME NEW i \in 1 .. Len(RemoveAt(q, k))
       PROVE  \E j \in 1 .. Len(q) : RemoveAt(q, k)[i] = q[j] /\ (i <= k - 1 => j = i)
  <2>1. i \in 1 .. Len(q) - 1 /\ i \in 1 .. Len(q) /\ i + 1 \in 1 .. Len(q) /\ (i <= k - 1 <=> i < k)
    BY <1>1, <1>3
  <2> QED
    BY <1>3, <2>1
<1>7. Typed'
  BY <1>2, <1>4 DEF IndInv, Typed, TypeOK
<1>8. SeenIsOwn' /\ EndIsComplete' /\ Flushing'
  <2>1. SeenIsOwn'
    BY <1>2 DEF IndInv, SeenIsOwn
  <2>2. EndIsComplete'
    BY <1>2, <1>5, EndStays DEF HasClosed
  <2>3. Flushing'
    BY <1>2, <1>5, FlushingStays
  <2> QED
    BY <2>1, <2>2, <2>3
<1>9. ASSUME NEW s \in Replica PROVE InputOK(s)' /\ RingOK(s)' /\ OutboxOK(s)' /\ EndsLast(s, outbox[s])'
  <2>1. InputOK(s)'
    <3>1. CASE s = r /\ p = "input"
      <4>1. taken'[r]["input"] <= Len(RemoveAt(q, k))
        BY <1>1, <1>3, <1>11, <3>1
      <4>2. ASSUME NEW i \in 1 .. Len(RemoveAt(q, k))
            PROVE  LET m == RemoveAt(q, k)[i]
                   IN \/ /\ m \in BatchMessages /\ home[m.batch] = r
                         /\ i <= taken'[r]["input"] => m.batch \in mem'[r].seen
                      \/ m \in EOFMessages /\ r = 0
        <5>1. PICK j \in 1 .. Len(q) : RemoveAt(q, k)[i] = q[j] /\ (i <= k - 1 => j = i)
          BY <1>12
        <5>2. \/ /\ q[j] \in BatchMessages /\ home[q[j].batch] = r
                 /\ j <= taken[r]["input"] => q[j].batch \in mem[r].seen
              \/ q[j] \in EOFMessages /\ r = 0
          BY <3>1 DEF IndInv, InputOK, q
        <5> QED
          BY <1>2, <1>11, <3>1, <5>1, <5>2
      <4> QED
        BY <1>4, <3>1, <4>1, <4>2 DEF InputOK
    <3>2. CASE s # r \/ p # "input"
      BY <1>2, <1>4, <1>5, <3>2, Unchanged DEF Ports
    <3> QED
      BY <3>1, <3>2
  <2>2. RingOK(s)'
    <3>1. CASE s = r /\ p = "ring"
      <4>1. taken'[r]["ring"] <= Len(RemoveAt(q, k))
        BY <1>1, <1>3, <1>11, <3>1
      <4>2. ASSUME NEW i \in 1 .. Len(RemoveAt(q, k)), NEW t, t = RemoveAt(q, k)[i]
            PROVE  Successor(t.sender) = r /\ TokenOK(t)'
        <5>1. PICK j \in 1 .. Len(q) : t = q[j]
          BY <1>12, <4>2
        <5>2. Successor(t.sender) = r /\ TokenOK(t)
          BY <3>1, <5>1 DEF IndInv, RingOK, q
        <5> QED
          BY <1>5, <5>2
      <4> QED
        BY <1>4, <3>1, <4>1, <4>2 DEF RingOK
    <3>2. CASE s # r \/ p # "ring"
      BY <1>2, <1>4, <1>5, <3>2, Unchanged DEF Ports
    <3> QED
      BY <3>1, <3>2
  <2>3. OutboxOK(s)' /\ EndsLast(s, outbox[s])'
    BY <1>2, <1>5, Unchanged
  <2> QED
    BY <2>1, <2>2, <2>3
<1>10. SecureOrWaits'
  <2>1. ASSUME NEW b \in Batch \ Secure, Waits(b)
        PROVE  Waits(b)'
    <3>1. CASE home[b] = r /\ p = "input"
      <4>1. PICK i \in 1 .. Len(q) : q[i] = BatchMsg(b) /\ (b \in mem[r].seen => i <= k - 1)
        BY <1>11, <2>1, <3>1 DEF Waits, q
      <4>2. i # k
        BY <1>1, <1>6, <1>11, <3>1, <4>1
      <4>3. mem' = mem /\ taken'[r]["input"] = k - 1
        BY <1>2, <1>11, <3>1
      <4>4. CASE i < k
        <5>1. i \in 1 .. Len(q) - 1 /\ RemoveAt(q, k)[i] = q[i]
          BY <1>1, <1>3, <4>4
        <5> QED
          BY <1>3, <1>4, <3>1, <4>1, <4>3, <5>1 DEF Waits
      <4>5. CASE i > k
        <5>1. i - 1 \in 1 .. Len(q) - 1 /\ RemoveAt(q, k)[i - 1] = q[i] /\ b \notin mem[r].seen
          BY <1>1, <1>3, <4>1, <4>5
        <5> QED
          BY <1>3, <1>4, <3>1, <4>1, <4>3, <5>1 DEF Waits
      <4> QED
        BY <1>1, <4>2, <4>4, <4>5
    <3>2. CASE home[b] # r \/ p # "input"
      <4>1. home[b] \in Replica
        OBVIOUS
      <4> QED
        BY <1>2, <1>4, <2>1, <3>2, <4>1, WaitsUnchanged DEF Ports
    <3> QED
      BY <3>1, <3>2
  <2> QED
    BY <1>2, <1>5, <2>1, StillWaiting
<1> QED
  BY <1>5, <1>7, <1>8, <1>9, <1>10 DEF IndInv

(* A message that joins an outbox leaves the others where they are. *)
LEMMA OutboxGrows ==
  ASSUME NEW q \in Seq(Sendable), NEW m \in Sendable
  PROVE  /\ Append(q, m) \in Seq(Sendable)
         /\ \A i \in 1 .. Len(q) : i \in 1 .. Len(Append(q, m)) /\ Append(q, m)[i] = q[i]
         /\ \A i \in 1 .. Len(Append(q, m)) :
              \/ i \in 1 .. Len(q) /\ Append(q, m)[i] = q[i]
              \/ i = Len(q) + 1 /\ Append(q, m)[i] = m
         /\ Len(q) + 1 \in 1 .. Len(Append(q, m)) /\ Append(q, m)[Len(q) + 1] = m
<1> DEFINE a == Append(q, m)
<1>1. /\ a \in Seq(Sendable) /\ Len(a) = Len(q) + 1 /\ a[Len(q) + 1] = m
      /\ \A i \in 1 .. Len(q) : a[i] = q[i]
  BY AppendProperties
<1>2. Len(q) \in Nat
  BY LenProperties
<1> HIDE DEF a
<1> QED
  BY <1>1, <1>2 DEF a

LEMMA DataFacts ==
  ASSUME NEW r \in Replica, NEW b \in Batch
  PROVE  /\ Data(r, b) \in Sendable /\ Data(r, b).type = "data" /\ Carries(Data(r, b), b)
         /\ \A s : SendOK(s, Data(r, b))
<1>1. Data(r, b) \in Forwarded /\ Data(r, b).type = "data" /\ b \in Data(r, b).batches
  BY DEF Data, Forwarded
<1> HIDE DEF Data
<1> QED
  BY <1>1 DEF Sendable, Carries, SendOK

LEMMA HandleBatchInd ==
  ASSUME IndInv, NEW r \in Replica, HandleBatch(r)
  PROVE  IndInv' /\ Kept \subseteq Kept'
<1> DEFINE k == taken[r]["input"] + 1
           m == inbox[r]["input"][k]
           d == Data(r, m.batch)
<1>1. /\ k \in 1 .. Len(inbox[r]["input"]) /\ m \in BatchMessages /\ home[m.batch] = r
      /\ m.batch \in Batch /\ m = BatchMsg(m.batch)
  <2>1. k \in 1 .. Len(inbox[r]["input"]) /\ m.type = "batch"
    BY DEF IndInv, Typed, TypeOK, HandleBatch, Accept, Waiting, Message, Ports
  <2>2. m \notin EOFMessages
    BY <2>1 DEF EOFMessages
  <2>3. m \in BatchMessages /\ home[m.batch] = r
    BY <2>1, <2>2 DEF IndInv, InputOK
  <2> QED
    BY <2>1, <2>3 DEF BatchMessages, BatchMsg
<1>2. /\ mem' = [mem EXCEPT ![r].seen = @ \cup {m.batch}]
      /\ outbox' = IF Forwards THEN [outbox EXCEPT ![r] = Append(@, d)] ELSE outbox
      /\ taken' = [taken EXCEPT ![r]["input"] = k]
      /\ UNCHANGED <<inbox, disk, tomb, sent, phase, out, crashes, redeliveries>>
  BY DEF HandleBatch, Accept, Message
<1>12. d \in Sendable /\ d.type = "data" /\ Carries(d, m.batch) /\ \A s : SendOK(s, d)
  BY <1>1, DataFacts
<1> HIDE DEF k, m, d
<1>3. /\ mem' \in [Replica -> State] /\ mem'[r].seen = mem[r].seen \cup {m.batch}
      /\ \A s \in Replica \ {r} : mem'[s] = mem[s]
  <2>1. mem[r] \in State
    BY DEF IndInv, Typed, TypeOK
  <2>2. [mem[r] EXCEPT !.seen = @ \cup {m.batch}] \in State
    BY <1>1, <2>1 DEF State
  <2>3. [mem[r] EXCEPT !.seen = @ \cup {m.batch}].seen = mem[r].seen \cup {m.batch}
    BY <2>1 DEF State
  <2> QED
    BY <1>2, <2>2, <2>3 DEF IndInv, Typed, TypeOK
<1>4. /\ Secure' = Secure /\ Kept \subseteq Kept'
      /\ \A s \in Replica : mem[s].seen \subseteq mem'[s].seen
      /\ \A t : TokenOK(t) => TokenOK(t)'
  BY <1>2, <1>3, KeptSame, KeptGrows
<1>10. taken[r]["input"] \in Nat /\ taken[r]["input"] = k - 1 /\ k \in Nat /\ taken'[r]["input"] = k
  <2>1. taken[r]["input"] \in Nat /\ taken'[r]["input"] = k
    BY <1>2 DEF IndInv, Typed, TypeOK, Ports
  <2> QED
    BY <2>1 DEF k
(* What was in the outbox is there, ahead of what is new. *)
<1>11. /\ outbox' \in [Replica -> Seq(Sendable)]
       /\ \A s \in Replica : s # r \/ ~Forwards => outbox'[s] = outbox[s]
       /\ \A i \in 1 .. Len(outbox[r]) : i \in 1 .. Len(outbox'[r]) /\ outbox'[r][i] = outbox[r][i]
       /\ \A i \in 1 .. Len(outbox'[r]) :
            (i \in 1 .. Len(outbox[r]) /\ outbox'[r][i] = outbox[r][i]) \/ outbox'[r][i] = d
       /\ Forwards => \E i \in 1 .. Len(outbox'[r]) : outbox'[r][i] = d
  <2>1. outbox[r] \in Seq(Sendable)
    BY DEF IndInv, Typed
  <2>2. CASE Forwards
    <3> DEFINE a == Append(outbox[r], d)
    <3>1. outbox'[r] = a /\ \A s \in Replica \ {r} : outbox'[s] = outbox[s]
      BY <1>2, <2>2 DEF IndInv, Typed
    <3>2. /\ a \in Seq(Sendable)
          /\ \A i \in 1 .. Len(outbox[r]) : i \in 1 .. Len(a) /\ a[i] = outbox[r][i]
          /\ \A i \in 1 .. Len(a) :
               \/ i \in 1 .. Len(outbox[r]) /\ a[i] = outbox[r][i]
               \/ i = Len(outbox[r]) + 1 /\ a[i] = d
          /\ Len(outbox[r]) + 1 \in 1 .. Len(a) /\ a[Len(outbox[r]) + 1] = d
      BY <1>12, <2>1, OutboxGrows
    <3>3. outbox' \in [Replica -> Seq(Sendable)]
      BY <1>2, <2>2, <3>2 DEF IndInv, Typed
    <3> HIDE DEF a
    <3> QED
      BY <2>2, <3>1, <3>2, <3>3
  <2>3. CASE ~Forwards
    BY <1>2, <2>3 DEF IndInv, Typed
  <2> QED
    BY <2>2, <2>3
<1>13. \A s \in Replica, b \in Batch : Carried(outbox[s], b) => Carried(outbox'[s], b)
  BY <1>11 DEF Carried, Carries
<1>5. Typed'
  <2>1. taken' \in [Replica -> [Ports -> Nat]]
    BY <1>2, <1>10 DEF IndInv, Typed, TypeOK, Ports
  <2>2. outbox' \in [Replica -> Seq(Messages \cup Outputs)]
    <3>1. Sendable \subseteq Messages \cup Outputs
      BY DEF Sendable, EOFMessages, Tokens, Emitted, Forwarded, Messages, Outputs
    <3>2. Seq(Sendable) \subseteq Seq(Messages \cup Outputs)
      BY <3>1, SeqMonotonic
    <3> QED
      BY <1>11, <3>2
  <2> QED
    BY <1>2, <1>3, <1>11, <2>1, <2>2 DEF IndInv, Typed, TypeOK
<1>6. SeenIsOwn'
  <2>1. ASSUME NEW s \in Replica
        PROVE  disk'[s].seen \subseteq mem'[s].seen /\ mem'[s].seen \subseteq {b \in Batch : home[b] = s}
    <3>1. mem'[s].seen \subseteq mem[s].seen \cup (IF s = r THEN {m.batch} ELSE {})
      BY <1>3
    <3> QED
      BY <1>1, <1>2, <1>4, <3>1 DEF IndInv, SeenIsOwn
  <2> QED
    BY <2>1 DEF SeenIsOwn
<1>7. EndIsComplete' /\ Flushing'
  <2>1. EndIsComplete'
    BY <1>2, <1>4, EndStays DEF HasClosed
  <2>2. ASSUME NEW b \in Batch
        PROVE  /\ phase'[home[b]] = "complete" \/ (Forwards /\ b \in mem'[home[b]].seen)
                    => b \in Secure' \/ Carried(outbox'[home[b]], b)
               /\ home[b] \in tomb' \/ (Forwards /\ b \in disk'[home[b]].seen) => b \in Secure'
    <3>1. home[b] \in Replica
      OBVIOUS
    <3>2. /\ phase[home[b]] = "complete" \/ (Forwards /\ b \in mem[home[b]].seen)
               => b \in Secure \/ Carried(outbox[home[b]], b)
          /\ home[b] \in tomb \/ (Forwards /\ b \in disk[home[b]].seen) => b \in Secure
      BY DEF IndInv, Flushing
    <3>3. ASSUME b = m.batch, Forwards PROVE Carried(outbox'[home[b]], b)
      BY <1>1, <1>11, <1>12, <3>3 DEF Carried
    <3>4. b \in mem'[home[b]].seen => b \in mem[home[b]].seen \/ b = m.batch
      BY <1>3, <3>1
    <3> QED
      BY <1>2, <1>4, <1>13, <3>1, <3>2, <3>3, <3>4
  <2>3. Flushing'
    BY <2>2 DEF Flushing, Carried, Carries
  <2> QED
    BY <2>1, <2>3
<1>8. ASSUME NEW s \in Replica PROVE InputOK(s)' /\ RingOK(s)' /\ OutboxOK(s)' /\ EndsLast(s, outbox[s])'
  <2>1. InputOK(s)'
    <3>1. CASE s = r
      <4>1. taken'[r]["input"] = k /\ inbox'[r]["input"] = inbox[r]["input"] /\ taken[r]["input"] = k - 1
        BY <1>2, <1>10
      <4>2. \A i \in 1 .. Len(inbox[r]["input"]) : i <= k => i <= k - 1 \/ i = k
        BY <1>1
      <4> QED
        BY <1>1, <1>3, <3>1, <4>1, <4>2 DEF IndInv, InputOK, m
    <3>2. CASE s # r
      BY <1>2, <1>4, <3>2, Unchanged DEF IndInv, Typed, TypeOK
    <3> QED
      BY <3>1, <3>2
  <2>2. RingOK(s)'
    <3>1. taken'[s]["ring"] = taken[s]["ring"]
      BY <1>2 DEF IndInv, Typed, TypeOK, Ports
    <3> QED
      BY <1>2, <1>4, <3>1, Unchanged
  <2>3. OutboxOK(s)' /\ EndsLast(s, outbox[s])'
    <3>1. CASE s = r
      <4>1. \A x : SendOK(r, x) => SendOK(r, x)'
        BY <1>4, SendGrows
      <4>2. OutboxOK(r)'
        BY <1>11, <1>12, <4>1 DEF IndInv, OutboxOK, SendsOK
      <4>3. ASSUME NEW i \in 1 .. Len(outbox'[r]), outbox'[r][i].type = "outeof",
                   NEW b \in Batch, home[b] = r
            PROVE  b \in Secure' \/ CarriedBefore(outbox'[r], i, b)
        <5>1. i \in 1 .. Len(outbox[r]) /\ outbox[r][i].type = "outeof"
          BY <1>11, <1>12, <4>3
        <5>2. b \in Secure \/ CarriedBefore(outbox[r], i, b)
          BY <4>3, <5>1 DEF IndInv, EndsLast
        <5> QED
          BY <1>4, <1>11, <5>2 DEF CarriedBefore, Carries
      <4> QED
        BY <3>1, <4>2, <4>3 DEF EndsLast, CarriedBefore, Carries
    <3>2. CASE s # r
      BY <1>4, <1>11, <3>2, Unchanged
    <3> QED
      BY <3>1, <3>2
  <2> QED
    BY <2>1, <2>2, <2>3
<1>9. SecureOrWaits'
  <2>1. ASSUME NEW b \in Batch \ Secure, Waits(b) PROVE Waits(b)'
    <3>1. home[b] \in Replica
      OBVIOUS
    <3>2. CASE home[b] = r /\ b = m.batch
      <4>1. taken'[r]["input"] = k
        BY <1>10
      <4>2. inbox'[r]["input"] = inbox[r]["input"] /\ inbox[r]["input"][k] = BatchMsg(b) /\ k <= k
        BY <1>1, <1>2, <3>2 DEF m
      <4> QED
        BY <1>1, <3>2, <4>1, <4>2 DEF Waits
    <3>3. CASE home[b] = r /\ b # m.batch
      <4>1. taken'[r]["input"] = k /\ taken[r]["input"] = k - 1 /\ k \in Nat
        BY <1>2, <1>10
      <4>2. PICK i \in 1 .. Len(inbox[r]["input"]) :
              inbox[r]["input"][i] = BatchMsg(b) /\ (b \in mem[r].seen => i <= k - 1)
        BY <2>1, <3>3, <4>1 DEF Waits
      <4>3. b \in mem'[r].seen => b \in mem[r].seen
        BY <1>3, <3>3
      <4>4. inbox'[r]["input"] = inbox[r]["input"] /\ (i <= k - 1 => i <= k)
        BY <1>2, <4>1
      <4> QED
        BY <3>3, <4>1, <4>2, <4>3, <4>4 DEF Waits
    <3>4. CASE home[b] # r
      <4>1. taken'[home[b]] = taken[home[b]] /\ mem'[home[b]] = mem[home[b]]
        BY <1>2, <1>3, <3>1, <3>4 DEF IndInv, Typed, TypeOK
      <4> QED
        BY <1>2, <2>1, <4>1, WaitsUnchanged
    <3> QED
      BY <3>2, <3>3, <3>4
  <2> QED
    BY <1>2, <1>4, <2>1, StillWaiting
<1> QED
  BY <1>4, <1>5, <1>6, <1>7, <1>8, <1>9 DEF IndInv

(* Whatever a coordination message leads to, if its outcome is good. *)
LEMMA ApplyInd ==
  ASSUME IndInv, NEW r \in Replica, NEW p \in Ports, NEW m, NEW s, NEW o,
         taken[r][p] + 1 \in 1 .. Len(inbox[r][p]), m = inbox[r][p][taken[r][p] + 1],
         m.sender \in Sender, m.seq \in Nat, p = "input" => m \in EOFMessages,
         taken' = [taken EXCEPT ![r][p] = @ + 1],
         UNCHANGED <<inbox, disk, tomb, sent, out, crashes, redeliveries>>,
         GoodOutcome(r, s, o), s.seen = mem[r].seen, Apply(r, m, o)
  PROVE  IndInv' /\ Kept \subseteq Kept'
<1> DEFINE new == [o.state EXCEPT !.coord[m.sender] = m.seq]
           a == outbox[r] \o o.sends
<1>1. new \in State /\ new.seen = mem[r].seen
  <2>1. o.state \in State /\ o.state.seen = mem[r].seen
    BY DEF GoodOutcome
  <2> QED
    BY <2>1 DEF State
<1>2. /\ mem' = [mem EXCEPT ![r] = new]
      /\ outbox' = [outbox EXCEPT ![r] = a]
      /\ phase' = [phase EXCEPT ![r] = o.end]
  BY DEF Apply
<1>14. outbox[r] \in Seq(Sendable)
  BY DEF IndInv, Typed
<1>6. /\ o.sends \in Seq(Sendable) /\ SendsOK(r, o.sends)
      /\ o.end \in {"checkpoint", "complete"}
      /\ o.end = "complete" => MayEnd(r, s) /\ Opens(o.sends, s)
      /\ EndsIn(o.sends) => o.end = "complete"
  BY DEF GoodOutcome
<1>15. /\ a \in Seq(Sendable)
       /\ \A i \in 1 .. Len(outbox[r]) : i \in 1 .. Len(a) /\ a[i] = outbox[r][i]
       /\ \A i \in 1 .. Len(o.sends) :
            Len(outbox[r]) + i \in 1 .. Len(a) /\ a[Len(outbox[r]) + i] = o.sends[i]
       /\ \A i \in 1 .. Len(a) :
            \/ i \in 1 .. Len(outbox[r]) /\ a[i] = outbox[r][i]
            \/ \E j \in 1 .. Len(o.sends) : i = Len(outbox[r]) + j /\ a[i] = o.sends[j]
       /\ Len(outbox[r]) \in Nat /\ Len(o.sends) \in Nat
  BY <1>6, <1>14, ConcatElements
<1>16. SendsOK(r, a)
  BY <1>6, <1>14, SendsTogether DEF IndInv, OutboxOK
<1> HIDE DEF new, a
<1>3. \A q \in Replica : mem'[q].seen = mem[q].seen
  BY <1>1, <1>2 DEF IndInv, Typed, TypeOK
<1>17. outbox'[r] = a /\ \A q \in Replica \ {r} : outbox'[q] = outbox[q]
  BY <1>2 DEF IndInv, Typed
<1>4. Secure' = Secure /\ Kept \subseteq Kept'
  BY <1>3, KeptSame
<1>5. (\A t : TokenOK(t) => TokenOK(t)') /\ (\A x : SendOK(r, x) => SendOK(r, x)')
  BY <1>3, <1>4, KeptGrows, SendGrows
<1>7. Typed'
  <2>1. mem' \in [Replica -> State]
    BY <1>1, <1>2 DEF IndInv, Typed, TypeOK
  <2>2. outbox' \in [Replica -> Seq(Sendable)] /\ outbox' \in [Replica -> Seq(Messages \cup Outputs)]
    <3>1. Sendable \subseteq Messages \cup Outputs
      BY DEF Sendable, EOFMessages, Tokens, Emitted, Forwarded, Messages, Outputs
    <3>2. a \in Seq(Messages \cup Outputs)
      BY <1>15, <3>1, SeqMonotonic
    <3> QED
      BY <1>2, <1>15, <3>2 DEF IndInv, Typed, TypeOK
  <2>3. phase' \in [Replica -> {"idle", "checkpoint", "complete"}]
    BY <1>2, <1>6 DEF IndInv, Typed, TypeOK
  <2>4. taken' \in [Replica -> [Ports -> Nat]]
    BY DEF IndInv, Typed, TypeOK
  <2> QED
    BY <1>2, <2>1, <2>2, <2>3, <2>4 DEF IndInv, Typed, TypeOK
<1>8. SeenIsOwn'
  BY <1>3 DEF IndInv, SeenIsOwn
<1>9. EndIsComplete'
  <2>1. \A q \in Replica : phase'[q] = "complete" => phase[q] = "complete" \/ (q = r /\ OthersKept(r))
    BY <1>2, <1>6 DEF IndInv, Typed, TypeOK, MayEnd
  <2>2. \A q : OthersKept(q) => OthersKept(q)'
    BY <1>4, KeptGrows
  <2>3. \A q \in Replica : phase'[q] = "complete" => OthersKept(q)'
    BY <2>1, <2>2 DEF IndInv, EndIsComplete
  <2>4. tomb' # {} \/ (\E q \in Replica : HasClosed(q)') => Kept' = Batch
    BY <1>4, KeptGrows DEF IndInv, EndIsComplete, HasClosed
  <2> QED
    BY <2>3, <2>4 DEF EndIsComplete
(* What r knows is on its way before its end is. *)
<1>18. ASSUME NEW b \in Batch, home[b] = r, o.end = "complete", b \notin Secure
       PROVE  \E j \in 1 .. Len(a) :
                /\ Carries(a[j], b)
                /\ j <= Len(outbox[r]) \/ (j = Len(outbox[r]) + 1 /\ o.sends[1].type = "result")
  <2>1. b \in mem[r].seen
    BY <1>6, <1>18 DEF MayEnd
  <2>2. CASE Forwards
    <3>1. Carried(outbox[r], b)
      BY <1>18, <2>1, <2>2 DEF IndInv, Flushing
    <3> QED
      BY <1>15, <3>1 DEF Carried
  <2>3. CASE ~Forwards
    <3>1. /\ 1 \in 1 .. Len(o.sends) /\ o.sends[1].type = "result" /\ o.sends[1].batches = mem[r].seen
      BY <1>6, <1>15, <1>18, <2>3 DEF Opens
    <3>2. Len(outbox[r]) + 1 \in 1 .. Len(a) /\ a[Len(outbox[r]) + 1] = o.sends[1]
      BY <1>15, <3>1
    <3>3. Carries(a[Len(outbox[r]) + 1], b)
      BY <2>1, <3>1, <3>2 DEF Carries
    <3> QED
      BY <3>1, <3>2, <3>3
  <2> QED
    BY <2>2, <2>3
<1>10. Flushing'
  <2>1. ASSUME NEW b \in Batch
        PROVE  /\ phase'[home[b]] = "complete" \/ (Forwards /\ b \in mem'[home[b]].seen)
                    => b \in Secure' \/ Carried(outbox'[home[b]], b)
               /\ home[b] \in tomb' \/ (Forwards /\ b \in disk'[home[b]].seen) => b \in Secure'
    <3>1. home[b] \in Replica
      OBVIOUS
    <3>2. /\ phase[home[b]] = "complete" \/ (Forwards /\ b \in mem[home[b]].seen)
               => b \in Secure \/ Carried(outbox[home[b]], b)
          /\ home[b] \in tomb \/ (Forwards /\ b \in disk[home[b]].seen) => b \in Secure
      BY DEF IndInv, Flushing
    <3>3. Carried(outbox[home[b]], b) => Carried(outbox'[home[b]], b)
      BY <1>15, <1>17, <3>1 DEF Carried
    <3>4. ASSUME home[b] = r, phase'[r] = "complete", b \notin Secure
          PROVE  Carried(outbox'[r], b)
      <4>1. o.end = "complete"
        BY <1>2, <3>4 DEF IndInv, Typed, TypeOK
      <4> QED
        BY <1>17, <1>18, <3>4, <4>1 DEF Carried
    <3>5. home[b] # r => phase'[home[b]] = phase[home[b]]
      BY <1>2, <3>1 DEF IndInv, Typed, TypeOK
    <3> QED
      BY <1>3, <1>4, <3>1, <3>2, <3>3, <3>4, <3>5
  <2> QED
    BY <2>1 DEF Flushing, Carried, Carries
<1>11. /\ taken'[r][p] = taken[r][p] + 1 /\ taken[r][p] \in Nat
       /\ \A u \in Replica, x \in Ports : u # r \/ x # p => taken'[u][x] = taken[u][x]
  BY DEF IndInv, Typed, TypeOK
<1>12. ASSUME NEW q \in Replica PROVE InputOK(q)' /\ RingOK(q)' /\ OutboxOK(q)' /\ EndsLast(q, outbox[q])'
  <2>2. InputOK(q)'
    <3>1. CASE q = r /\ p = "input"
      <4>1. \A i \in 1 .. Len(inbox[r][p]) : i <= taken'[r][p] => i <= taken[r][p] \/ inbox[r][p][i] = m
        BY <1>11
      <4>2. m \notin BatchMessages
        BY <3>1 DEF EOFMessages, BatchMessages
      <4>3. InputOK(r) /\ taken'[r]["input"] <= Len(inbox[r]["input"])
        BY <1>11, <3>1 DEF IndInv
      <4>4. \A i \in 1 .. Len(inbox[r]["input"]) :
              inbox[r]["input"][i] \in BatchMessages /\ i <= taken'[r]["input"] => i <= taken[r]["input"]
        BY <3>1, <4>1, <4>2
      <4> QED
        BY <1>3, <3>1, <4>3, <4>4 DEF InputOK
    <3>2. CASE q # r \/ p # "input"
      BY <1>3, <1>4, <1>11, <3>2, Unchanged DEF Ports
    <3> QED
      BY <3>1, <3>2
  <2>3. RingOK(q)'
    <3>1. CASE q = r /\ p = "ring"
      BY <1>5, <1>11, <3>1 DEF IndInv, RingOK
    <3>2. CASE q # r \/ p # "ring"
      BY <1>3, <1>4, <1>11, <3>2, Unchanged DEF Ports
    <3> QED
      BY <3>1, <3>2
  <2>4. OutboxOK(q)' /\ EndsLast(q, outbox[q])'
    <3>1. CASE q = r
      <4>1. OutboxOK(r)'
        BY <1>5, <1>16, <1>17 DEF OutboxOK, SendsOK
      <4>2. ASSUME NEW i \in 1 .. Len(a), a[i].type = "outeof", NEW b \in Batch, home[b] = r
            PROVE  b \in Secure' \/ CarriedBefore(a, i, b)
        <5>1. CASE i \in 1 .. Len(outbox[r]) /\ a[i] = outbox[r][i]
          <6>1. b \in Secure \/ CarriedBefore(outbox[r], i, b)
            BY <4>2, <5>1 DEF IndInv, EndsLast
          <6> QED
            BY <1>4, <1>15, <6>1 DEF CarriedBefore
        <5>2. CASE b \notin Secure /\ \E j \in 1 .. Len(o.sends) : i = Len(outbox[r]) + j /\ a[i] = o.sends[j]
          <6>1. PICK j \in 1 .. Len(o.sends) : i = Len(outbox[r]) + j /\ a[i] = o.sends[j]
            BY <5>2
          <6>2. EndsIn(o.sends)
            BY <4>2, <6>1 DEF EndsIn
          <6>3. PICK l \in 1 .. Len(a) :
                  /\ Carries(a[l], b)
                  /\ l <= Len(outbox[r]) \/ (l = Len(outbox[r]) + 1 /\ o.sends[1].type = "result")
            BY <1>6, <1>18, <4>2, <5>2, <6>2
          <6>4. o.sends[1].type = "result" => j # 1
            BY <4>2, <6>1
          <6>5. l < i
            BY <1>15, <6>1, <6>3, <6>4
          <6> QED
            BY <6>3, <6>5 DEF CarriedBefore
        <5> QED
          BY <1>4, <1>15, <5>1, <5>2
      <4> QED
        BY <1>17, <3>1, <4>1, <4>2 DEF EndsLast, CarriedBefore, Carries
    <3>2. CASE q # r
      BY <1>3, <1>4, <1>17, <3>2, Unchanged
    <3> QED
      BY <3>1, <3>2
  <2> QED
    BY <2>2, <2>3, <2>4
<1>13. SecureOrWaits'
  <2>1. ASSUME NEW b \in Batch \ Secure, Waits(b) PROVE Waits(b)'
    <3>1. home[b] \in Replica /\ "input" \in Ports
      BY DEF Ports
    <3>2. PICK i \in 1 .. Len(inbox[home[b]]["input"]) :
            /\ inbox[home[b]]["input"][i] = BatchMsg(b)
            /\ b \in mem[home[b]].seen => i <= taken[home[b]]["input"]
      BY <2>1 DEF Waits
    <3>3. taken[home[b]]["input"] \in Nat /\ taken[home[b]]["input"] <= taken'[home[b]]["input"]
      BY <1>11, <3>1 DEF IndInv, Typed, TypeOK
    <3>4. b \in mem'[home[b]].seen => i <= taken'[home[b]]["input"]
      BY <1>3, <3>1, <3>2, <3>3
    <3> QED
      BY <3>2, <3>4 DEF Waits
  <2> QED
    BY <1>4, <2>1, StillWaiting
<1> QED
  BY <1>4, <1>7, <1>8, <1>9, <1>10, <1>12, <1>13 DEF IndInv

LEMMA HandleEOFInd ==
  ASSUME IndInv, NEW r \in Replica, HandleEOF(r)
  PROVE  IndInv' /\ Kept \subseteq Kept'
<1> DEFINE k == taken[r]["input"] + 1
           m == inbox[r]["input"][k]
           s == [mem[r] EXCEPT !.initiator = TRUE, !.cached = m.seq]
<1>1. k \in 1 .. Len(inbox[r]["input"]) /\ m.type = "eof"
  BY DEF IndInv, Typed, TypeOK, HandleEOF, Accept, Waiting, Message, Ports
<1>2. m \in EOFMessages /\ r = 0
  <2>1. m \notin BatchMessages
    BY <1>1 DEF BatchMessages
  <2> QED
    BY <1>1, <2>1 DEF IndInv, InputOK
<1>3. m.seq \in Nat /\ m.sender \in Sender
  BY <1>2 DEF EOFMessages, Sender, Upstream
<1>4. s \in State /\ s.seen = mem[r].seen
  <2>1. mem[r] \in State
    BY DEF IndInv, Typed, TypeOK
  <2> QED
    BY <1>3, <2>1 DEF State
<1>5. /\ Apply(r, m, UpstreamEOFOutcome(s))
      /\ taken' = [taken EXCEPT ![r]["input"] = @ + 1]
      /\ UNCHANGED <<inbox, disk, tomb, sent, out, crashes, redeliveries>>
  BY DEF HandleEOF, Accept, Message
<1> HIDE DEF s
<1>6. GoodOutcome(r, s, UpstreamEOFOutcome(s))
  BY <1>2, <1>4, UpstreamEOFOutcomeOK DEF IndInv, SeenIsOwn
<1> QED
  BY <1>1, <1>2, <1>3, <1>4, <1>5, <1>6, ApplyInd DEF Ports

LEMMA HandleTokenInd ==
  ASSUME IndInv, NEW r \in Replica, HandleToken(r)
  PROVE  IndInv' /\ Kept \subseteq Kept'
<1> DEFINE k == taken[r]["ring"] + 1
           t == inbox[r]["ring"][k]
<1>1. k \in 1 .. Len(inbox[r]["ring"])
  BY DEF IndInv, Typed, TypeOK, HandleToken, Accept, Waiting, Ports
<1>2. Successor(t.sender) = r /\ TokenOK(t) /\ t \in Tokens
  BY <1>1 DEF IndInv, RingOK, TokenOK
<1>3. t.seq \in Nat /\ t.sender \in Sender
  BY <1>2 DEF Tokens, Sender, Replica
<1>4. mem[r] \in State
  BY DEF IndInv, Typed, TypeOK
<1>5. /\ Apply(r, t, TokenOutcome(r, mem[r], t))
      /\ taken' = [taken EXCEPT ![r]["ring"] = @ + 1]
      /\ UNCHANGED <<inbox, disk, tomb, sent, out, crashes, redeliveries>>
  BY DEF HandleToken, Accept, Message
<1>6. GoodOutcome(r, mem[r], TokenOutcome(r, mem[r], t))
  <2>1. /\ mem[r].seen \subseteq {b \in Batch : home[b] = r}
        /\ disk[r].seen \subseteq mem[r].seen
    BY DEF IndInv, SeenIsOwn
  <2>2. Saved(r) \subseteq mem[r].seen
    BY <2>1 DEF Saved
  <2> QED
    BY <1>2, <1>4, <2>1, <2>2, TokenOutcomeOK
<1> QED
  BY <1>1, <1>3, <1>5, <1>6, ApplyInd DEF Ports

(* A message at the end of a queue of u leaves what was there. *)
LEMMA AppendInd ==
  ASSUME IndInv, NEW u \in Replica, NEW p \in Ports, NEW m,
         inbox' = [inbox EXCEPT ![u][p] = Append(@, m)], UNCHANGED <<taken, mem, disk>>,
         Secure \subseteq Secure', Kept \subseteq Kept', m \in Messages,
         \/ p = "input" /\ m \in BatchMessages /\ home[m.batch] = u
         \/ p = "input" /\ m \in EOFMessages /\ u = 0
         \/ p = "ring" /\ Successor(m.sender) = u /\ TokenOK(m)'
  PROVE  /\ inbox' \in [Replica -> [Ports -> Seq(Messages)]]
         /\ \A q \in Replica : InputOK(q)' /\ RingOK(q)'
         /\ SecureOrWaits'
<1> DEFINE q == inbox[u][p]
<1>1. q \in Seq(Messages) /\ m \in Messages
  BY DEF IndInv, Typed, TypeOK
<1>2. /\ Append(q, m) \in Seq(Messages) /\ Len(Append(q, m)) = Len(q) + 1
      /\ \A i \in 1 .. Len(q) : Append(q, m)[i] = q[i]
      /\ Append(q, m)[Len(q) + 1] = m
  BY <1>1, AppendProperties
<1>3. /\ inbox'[u][p] = Append(q, m)
      /\ \A v \in Replica, x \in Ports : v # u \/ x # p => inbox'[v][x] = inbox[v][x]
      /\ inbox' \in [Replica -> [Ports -> Seq(Messages)]]
  BY <1>2 DEF IndInv, Typed, TypeOK
<1>4. \A t : TokenOK(t) => TokenOK(t)'
  BY KeptGrows
<1>5. taken[u][p] \in Nat /\ Len(q) \in Nat
  BY <1>1 DEF IndInv, Typed, TypeOK
<1> HIDE DEF q
<1>6. \A i \in 1 .. Len(q) + 1 : i \in 1 .. Len(q) \/ (i = Len(q) + 1 /\ Append(q, m)[i] = m)
  <2>1. \A i \in 1 .. Len(q) + 1 : i \in 1 .. Len(q) \/ i = Len(q) + 1
    BY <1>5
  <2> QED
    BY <1>2, <2>1
<1>7. ASSUME NEW v \in Replica PROVE InputOK(v)' /\ RingOK(v)'
  <2>1. InputOK(v)'
    <3>1. CASE v = u /\ p = "input"
      <4>1. taken[u][p] <= Len(q)
        BY <3>1 DEF IndInv, InputOK, q
      <4>2. taken'[u]["input"] <= Len(Append(q, m))
        BY <1>2, <1>5, <3>1, <4>1
      <4>3. ASSUME NEW i \in 1 .. Len(Append(q, m)), NEW e, e = Append(q, m)[i]
            PROVE  \/ /\ e \in BatchMessages /\ home[e.batch] = u
                      /\ i <= taken'[u]["input"] => e.batch \in mem'[u].seen
                   \/ e \in EOFMessages /\ u = 0
        <5>1. CASE i \in 1 .. Len(q)
          <6>1. q[i] = e /\ q = inbox[u]["input"] /\ taken'[u]["input"] = taken[u]["input"]
            BY <1>2, <3>1, <4>3, <5>1 DEF q
          <6> QED
            BY <1>4, <3>1, <5>1, <6>1 DEF IndInv, InputOK
        <5>2. CASE i = Len(q) + 1 /\ e = m
          <6>1. ~(i <= taken[u]["input"])
            BY <1>5, <3>1, <4>1, <5>2
          <6> QED
            BY <3>1, <5>2, <6>1
        <5>3. i \in 1 .. Len(q) + 1
          BY <1>2
        <5> QED
          BY <1>6, <4>3, <5>1, <5>2, <5>3
      <4>4. inbox'[u]["input"] = Append(q, m)
        BY <1>3, <3>1
      <4> QED
        BY <3>1, <4>2, <4>3, <4>4 DEF InputOK
    <3>2. CASE v # u \/ p # "input"
      BY <1>3, <1>4, <3>2, Unchanged DEF Ports
    <3> QED
      BY <3>1, <3>2
  <2>2. RingOK(v)'
    <3>1. CASE v = u /\ p = "ring"
      <4>1. taken'[u]["ring"] <= Len(Append(q, m))
        <5>1. taken[u][p] <= Len(q)
          BY <3>1 DEF IndInv, RingOK, q
        <5> QED
          BY <1>2, <1>5, <3>1, <5>1
      <4>2. ASSUME NEW i \in 1 .. Len(Append(q, m)), NEW t, t = Append(q, m)[i]
            PROVE  Successor(t.sender) = u /\ TokenOK(t)'
        <5>1. i \in 1 .. Len(q) + 1
          BY <1>2
        <5>2. t = m \/ (i \in 1 .. Len(q) /\ t = q[i])
          BY <1>2, <1>6, <4>2, <5>1
        <5>3. i \in 1 .. Len(q) /\ t = q[i] => Successor(t.sender) = u /\ TokenOK(t)
          BY <3>1 DEF IndInv, RingOK, q
        <5> QED
          BY <1>4, <3>1, <5>2, <5>3
      <4>3. inbox'[u]["ring"] = Append(q, m)
        BY <1>3, <3>1
      <4> QED
        BY <3>1, <4>1, <4>2, <4>3 DEF RingOK
    <3>2. CASE v # u \/ p # "ring"
      BY <1>3, <1>4, <3>2, Unchanged DEF Ports
    <3> QED
      BY <3>1, <3>2
  <2> QED
    BY <2>1, <2>2
<1>8. SecureOrWaits'
  <2>1. ASSUME NEW b \in Batch \ Secure, Waits(b) PROVE Waits(b)'
    <3>1. CASE home[b] = u /\ p = "input"
      <4>1. PICK i \in 1 .. Len(q) : q[i] = BatchMsg(b) /\ (b \in mem[u].seen => i <= taken[u]["input"])
        BY <2>1, <3>1 DEF Waits, q
      <4>2. i \in 1 .. Len(Append(q, m)) /\ Append(q, m)[i] = BatchMsg(b)
        BY <1>2, <1>5, <4>1
      <4> QED
        BY <1>3, <3>1, <4>1, <4>2 DEF Waits
    <3>2. CASE home[b] # u \/ p # "input"
      <4>1. home[b] \in Replica
        OBVIOUS
      <4> QED
        BY <1>3, <2>1, <3>2, <4>1, WaitsUnchanged DEF Ports
    <3> QED
      BY <3>1, <3>2
  <2> QED
    BY <1>4, <2>1, StillWaiting
<1> QED
  BY <1>3, <1>7, <1>8

LEMMA RedeliverInd ==
  ASSUME IndInv, NEW r \in Replica, NEW m \in Arriving(r), Redeliver(r, m)
  PROVE  IndInv' /\ Kept \subseteq Kept'
<1>1. /\ inbox' = [inbox EXCEPT ![r]["input"] = Append(@, m)]
      /\ UNCHANGED <<taken, mem, disk, tomb, outbox, sent, phase, out, crashes>>
      /\ redeliveries' = redeliveries + 1
  BY DEF Redeliver
<1>2. \/ m \in BatchMessages /\ home[m.batch] = r
      \/ m \in EOFMessages /\ r = 0
  BY ArrivingFacts
<1>4. Secure' = Secure /\ Kept \subseteq Kept'
  BY <1>1, KeptSame
<1>9. m \in Messages
  BY <1>2 DEF Messages, BatchMessages, EOFMessages
<1>3. /\ inbox' \in [Replica -> [Ports -> Seq(Messages)]]
      /\ \A q \in Replica : InputOK(q)' /\ RingOK(q)'
      /\ SecureOrWaits'
  BY <1>1, <1>2, <1>4, <1>9, AppendInd DEF Ports
<1>5. \A q \in Replica : OutboxOK(q)' /\ EndsLast(q, outbox[q])'
  BY <1>1, <1>4, Unchanged
<1>6. Typed'
  BY <1>1, <1>3 DEF IndInv, Typed, TypeOK
<1>7. SeenIsOwn' /\ EndIsComplete'
  <2>1. EndIsComplete'
    BY <1>1, <1>4, EndStays DEF HasClosed
  <2> QED
    BY <1>1, <2>1 DEF IndInv, SeenIsOwn
<1>8. Flushing'
  BY <1>1, <1>4, FlushingStays
<1> QED
  BY <1>3, <1>4, <1>5, <1>6, <1>7, <1>8 DEF IndInv

(* What is left of an outbox, and the message that left it. *)
Released(r, i, m) ==
  /\ m = outbox[r][i] /\ m \in Sendable /\ SendOK(r, m)
  /\ outbox' \in [Replica -> Seq(Sendable)]
  /\ Len(outbox[r]) \in Nat /\ Len(outbox'[r]) = Len(outbox[r]) - 1
  /\ \A j \in 1 .. Len(outbox[r]) - 1 : outbox'[r][j] = IF j < i THEN outbox[r][j] ELSE outbox[r][j + 1]
  /\ \A s \in Replica \ {r} : outbox'[s] = outbox[s]
  /\ \/ m.type = "token" /\ m \in Tokens
     \/ m.type = "eof" /\ m \in EOFMessages
     \/ m.type \in {"data", "result", "outeof"} /\ m \in Outputs
  /\ \A j \in 1 .. i - 1 : Target(outbox[r][j]) # Target(m)

LEMMA PublishReleases ==
  ASSUME IndInv, NEW r \in Replica, NEW i \in 1 .. Len(outbox[r]), Publish(r, i)
  PROVE  \E m : Released(r, i, m)
<1> DEFINE m == outbox[r][i]
           rest == RemoveAt(outbox[r], i)
<1>1. outbox[r] \in Seq(Sendable) /\ Len(outbox[r]) \in Nat
  BY LenProperties DEF IndInv, Typed
<1>2. /\ rest \in Seq(Sendable) /\ Len(rest) = Len(outbox[r]) - 1
      /\ \A j \in 1 .. Len(outbox[r]) - 1 : rest[j] = IF j < i THEN outbox[r][j] ELSE outbox[r][j + 1]
  BY <1>1, RemoveAtElements
<1>3. outbox' = [outbox EXCEPT ![r] = rest] /\ \A j \in 1 .. i - 1 : Target(outbox[r][j]) # Target(m)
  BY DEF Publish
<1>4. m \in Sendable /\ SendOK(r, m)
  BY <1>1, ElementOfSeq DEF IndInv, OutboxOK, SendsOK
<1> HIDE DEF m, rest
<1>5. \/ m.type = "token" /\ m \in Tokens
      \/ m.type = "eof" /\ m \in EOFMessages
      \/ m.type \in {"data", "result", "outeof"} /\ m \in Outputs
  BY <1>4 DEF Sendable, EOFMessages, Tokens, Emitted, Forwarded, Outputs
<1>6. /\ outbox' \in [Replica -> Seq(Sendable)] /\ outbox'[r] = rest
      /\ \A s \in Replica \ {r} : outbox'[s] = outbox[s]
  BY <1>2, <1>3 DEF IndInv, Typed
<1>7. Released(r, i, m)
  BY <1>1, <1>2, <1>3, <1>4, <1>5, <1>6 DEF Released, m
<1> QED
  BY <1>7

(* A message that was behind another one still is, or that one has left. *)
LEMMA OrderKept ==
  ASSUME NEW r \in Replica, NEW i \in 1 .. Len(outbox[r]), NEW m, Released(r, i, m)
  PROVE  /\ \A j \in 1 .. Len(outbox'[r]) :
              \E k \in 1 .. Len(outbox[r]) : k # i /\ outbox'[r][j] = outbox[r][k] /\ (j = k \/ (j = k - 1 /\ k > i))
         /\ \A k \in 1 .. Len(outbox[r]) :
              \/ k = i
              \/ k < i /\ k \in 1 .. Len(outbox'[r]) /\ outbox'[r][k] = outbox[r][k]
              \/ k > i /\ k - 1 \in 1 .. Len(outbox'[r]) /\ outbox'[r][k - 1] = outbox[r][k]
<1> DEFINE n == Len(outbox[r])
<1>1. /\ n \in Nat /\ Len(outbox'[r]) = n - 1 /\ i \in 1 .. n
      /\ \A j \in 1 .. n - 1 : outbox'[r][j] = IF j < i THEN outbox[r][j] ELSE outbox[r][j + 1]
  BY DEF Released
<1> HIDE DEF n
<1>2. ASSUME NEW j \in 1 .. n - 1
      PROVE  \E k \in 1 .. n : k # i /\ outbox'[r][j] = outbox[r][k] /\ (j = k \/ (j = k - 1 /\ k > i))
  <2>1. CASE j < i
    <3>1. j \in 1 .. n /\ j # i /\ outbox'[r][j] = outbox[r][j]
      BY <1>1, <2>1
    <3> QED
      BY <3>1
  <2>2. CASE ~(j < i)
    <3>1. j + 1 \in 1 .. n /\ j + 1 # i /\ j = (j + 1) - 1 /\ j + 1 > i /\ outbox'[r][j] = outbox[r][j + 1]
      BY <1>1, <2>2
    <3> QED
      BY <3>1
  <2> QED
    BY <2>1, <2>2
<1>3. ASSUME NEW k \in 1 .. n
      PROVE  \/ k = i
             \/ k < i /\ k \in 1 .. n - 1 /\ outbox'[r][k] = outbox[r][k]
             \/ k > i /\ k - 1 \in 1 .. n - 1 /\ outbox'[r][k - 1] = outbox[r][k]
  <2>1. CASE k < i
    <3>1. k \in 1 .. n - 1
      BY <1>1, <2>1
    <3> QED
      BY <1>1, <2>1, <3>1
  <2>2. CASE k > i
    <3>1. k - 1 \in 1 .. n - 1 /\ ~(k - 1 < i) /\ (k - 1) + 1 = k
      BY <1>1, <2>2
    <3> QED
      BY <1>1, <2>2, <3>1
  <2> QED
    BY <1>1, <2>1, <2>2
<1> QED
  BY <1>1, <1>2, <1>3 DEF n

(* What a message carried is with the next stages, or still on its way ahead *)
(* of what it was ahead of.                                                  *)
LEMMA CarriedOn ==
  ASSUME NEW r \in Replica, NEW i \in 1 .. Len(outbox[r]), NEW m, Released(r, i, m),
         NEW b \in Batch, Carries(m, b) => b \in Secure'
  PROVE  /\ Carried(outbox[r], b) => b \in Secure' \/ Carried(outbox'[r], b)
         /\ \A j \in 1 .. Len(outbox'[r]), k \in 1 .. Len(outbox[r]) :
              CarriedBefore(outbox[r], k, b) /\ (j = k \/ (j = k - 1 /\ k > i))
                => b \in Secure' \/ CarriedBefore(outbox'[r], j, b)
<1>1. \A k \in 1 .. Len(outbox[r]) :
              \/ k = i
              \/ k < i /\ k \in 1 .. Len(outbox'[r]) /\ outbox'[r][k] = outbox[r][k]
              \/ k > i /\ k - 1 \in 1 .. Len(outbox'[r]) /\ outbox'[r][k - 1] = outbox[r][k]
  BY OrderKept
<1>2. m = outbox[r][i] /\ Len(outbox[r]) \in Nat
  BY DEF Released
<1>3. Carried(outbox[r], b) => b \in Secure' \/ Carried(outbox'[r], b)
  BY <1>1, <1>2 DEF Carried
<1>4. ASSUME NEW j \in 1 .. Len(outbox'[r]), NEW k \in 1 .. Len(outbox[r]),
             CarriedBefore(outbox[r], k, b), j = k \/ (j = k - 1 /\ k > i)
      PROVE  b \in Secure' \/ CarriedBefore(outbox'[r], j, b)
  <2>1. PICK l \in 1 .. Len(outbox[r]) : l < k /\ Carries(outbox[r][l], b)
    BY <1>4 DEF CarriedBefore
  <2>2. CASE l = i
    BY <1>2, <2>1, <2>2
  <2>3. CASE l < i /\ l \in 1 .. Len(outbox'[r]) /\ outbox'[r][l] = outbox[r][l]
    <3>1. l < j
      BY <1>2, <1>4, <2>1, <2>3
    <3> QED
      BY <2>1, <2>3, <3>1 DEF CarriedBefore
  <2>4. CASE l > i /\ l - 1 \in 1 .. Len(outbox'[r]) /\ outbox'[r][l - 1] = outbox[r][l]
    <3>1. l - 1 < j
      BY <1>2, <1>4, <2>1, <2>4
    <3> QED
      BY <2>1, <2>4, <3>1 DEF CarriedBefore
  <2> QED
    BY <1>1, <2>2, <2>3, <2>4
<1> QED
  BY <1>3, <1>4

(* When the EOF of a replica leaves, nothing that it has to pass on is left. *)
LEMMA EndLeavesNothing ==
  ASSUME IndInv, NEW r \in Replica, NEW i \in 1 .. Len(outbox[r]), NEW m, Released(r, i, m),
         m.type = "outeof"
  PROVE  Kept = Batch
<1>1. m = outbox[r][i] /\ OthersKept(r) /\ \A j \in 1 .. i - 1 : Target(outbox[r][j]) # Target(m)
  BY DEF Released, SendOK
<1>2. ASSUME NEW b \in Batch, home[b] = r PROVE b \in Secure
  <2>1. b \in Secure \/ CarriedBefore(outbox[r], i, b)
    BY <1>1, <1>2 DEF IndInv, EndsLast
  <2>2. ASSUME NEW j \in 1 .. Len(outbox[r]), j < i, Carries(outbox[r][j], b) PROVE FALSE
    <3>1. j \in 1 .. i - 1
      BY <2>2
    <3>2. Target(outbox[r][j]) = "next" /\ Target(m) = "next"
      BY <2>2 DEF Carries, Target
    <3> QED
      BY <1>1, <3>1, <3>2
  <2> QED
    BY <2>1, <2>2 DEF CarriedBefore
<1> QED
  BY <1>1, <1>2 DEF OthersKept, Kept

LEMMA PublishInd ==
  ASSUME IndInv, NEW r \in Replica, NEW i \in 1 .. Len(outbox[r]), Publish(r, i)
  PROVE  IndInv' /\ Kept \subseteq Kept'
<1>1. PICK m : Released(r, i, m)
  BY PublishReleases
<1>2. /\ m = outbox[r][i] /\ m \in Sendable /\ SendOK(r, m)
      /\ outbox' \in [Replica -> Seq(Sendable)] /\ \A s \in Replica \ {r} : outbox'[s] = outbox[s]
      /\ \/ m.type = "token" /\ m \in Tokens
         \/ m.type = "eof" /\ m \in EOFMessages
         \/ m.type \in {"data", "result", "outeof"} /\ m \in Outputs
  BY <1>1 DEF Released
<1>3. UNCHANGED <<taken, mem, disk, tomb, phase, crashes, redeliveries>>
  BY DEF Publish
<1>4. \/ /\ m.type = "token" /\ out' = out /\ sent' = sent \cup {r}
         /\ inbox' = [inbox EXCEPT ![Successor(r)]["ring"] = Append(@, m)]
      \/ /\ m.type = "eof" /\ out' = out /\ sent' = sent \cup {r}
         /\ inbox' = [inbox EXCEPT ![r]["input"] = Append(@, m)]
      \/ /\ m.type \in {"data", "result", "outeof"} /\ out' = out \cup {m} /\ sent' = sent
         /\ inbox' = inbox
  BY <1>2 DEF Publish, Target
<1>5. /\ Secure \subseteq Secure' /\ Kept \subseteq Kept'
      /\ \A b \in Batch : Carries(m, b) => b \in Secure'
  <2>1. out \subseteq out'
    BY <1>4
  <2>2. \A b \in Batch : b \in Saved(home[b]) => b \in Saved(home[b])'
    <3>1. \A s \in Replica : disk[s].seen \subseteq mem[s].seen
      BY DEF IndInv, SeenIsOwn
    <3>2. \A s \in Replica : s \in sent => s \in sent'
      BY <1>4
    <3>3. \A b \in Batch : home[b] \in Replica
      OBVIOUS
    <3> QED
      BY <1>3, <3>1, <3>2, <3>3 DEF Saved
  <2>3. ASSUME NEW b \in Batch, Carries(m, b) PROVE b \in Secure'
    <3>1. m.type \in {"data", "result"} /\ b \in m.batches
      BY <2>3 DEF Carries
    <3>2. m \in out'
      BY <1>4, <3>1
    <3> QED
      BY <3>1, <3>2 DEF Secure, Delivered
  <2> QED
    BY <2>1, <2>2, <2>3, KeptStays
<1>6. ASSUME NEW q \in Replica PROVE OutboxOK(q)' /\ EndsLast(q, outbox[q])'
  <2>1. CASE q = r
    <3>1. \A j \in 1 .. Len(outbox'[r]) :
              \E k \in 1 .. Len(outbox[r]) : k # i /\ outbox'[r][j] = outbox[r][k] /\ (j = k \/ (j = k - 1 /\ k > i))
      BY <1>1, OrderKept
    <3>2. \A x : SendOK(r, x) => SendOK(r, x)'
      BY <1>3, <1>5, SendGrows
    <3>3. OutboxOK(r)'
      <4>1. ASSUME NEW j \in 1 .. Len(outbox'[r]), NEW e, e = outbox'[r][j] PROVE SendOK(r, e)'
        <5>1. SendOK(r, e)
          BY <3>1, <4>1 DEF IndInv, OutboxOK, SendsOK
        <5> QED
          BY <3>2, <5>1
      <4> QED
        BY <4>1 DEF OutboxOK, SendsOK
    <3>4. ASSUME NEW j \in 1 .. Len(outbox'[r]), outbox'[r][j].type = "outeof", NEW b \in Batch, home[b] = r
          PROVE  b \in Secure' \/ CarriedBefore(outbox'[r], j, b)
      <4>1. PICK k \in 1 .. Len(outbox[r]) : outbox'[r][j] = outbox[r][k] /\ (j = k \/ (j = k - 1 /\ k > i))
        BY <3>1
      <4>2. b \in Secure \/ CarriedBefore(outbox[r], k, b)
        BY <3>4, <4>1 DEF IndInv, EndsLast
      <4>3. CarriedBefore(outbox[r], k, b) => b \in Secure' \/ CarriedBefore(outbox'[r], j, b)
        BY <1>1, <1>5, <4>1, CarriedOn
      <4> QED
        BY <1>5, <4>2, <4>3
    <3> QED
      BY <2>1, <3>3, <3>4 DEF EndsLast, CarriedBefore, Carries
  <2>2. CASE q # r
    BY <1>2, <1>3, <1>5, <2>2, Unchanged
  <2> QED
    BY <2>1, <2>2
<1>7. outbox' \in [Replica -> Seq(Messages \cup Outputs)]
  <2>1. Sendable \subseteq Messages \cup Outputs
    BY DEF Sendable, EOFMessages, Tokens, Emitted, Forwarded, Messages, Outputs
  <2>2. Seq(Sendable) \subseteq Seq(Messages \cup Outputs)
    BY <2>1, SeqMonotonic
  <2> QED
    BY <1>2, <2>2
<1>8. SeenIsOwn'
  BY <1>3 DEF IndInv, SeenIsOwn
<1>9. Flushing'
  <2>1. ASSUME NEW b \in Batch
        PROVE  Carried(outbox[home[b]], b) => b \in Secure' \/ Carried(outbox'[home[b]], b)
    <3>1. home[b] \in Replica
      OBVIOUS
    <3> QED
      BY <1>1, <1>2, <1>5, <3>1, CarriedOn
  <2> QED
    BY <1>3, <1>5, <2>1, FlushingStays
<1>10. EndIsComplete'
  <2>1. CASE m.type = "outeof"
    <3>1. Kept' = Batch
      BY <1>1, <1>5, <2>1, EndLeavesNothing, KeptGrows
    <3>2. \A q : OthersKept(q)'
      BY <3>1 DEF OthersKept
    <3> QED
      BY <3>1, <3>2 DEF EndIsComplete
  <2>2. CASE m.type # "outeof"
    <3>1. \A q \in Replica : HasClosed(q)' => HasClosed(q)
      BY <1>4, <2>2 DEF HasClosed
    <3> QED
      BY <1>3, <1>5, <3>1, EndStays
  <2> QED
    BY <2>1, <2>2
<1>11. /\ inbox' \in [Replica -> [Ports -> Seq(Messages)]]
       /\ \A q \in Replica : InputOK(q)' /\ RingOK(q)'
       /\ SecureOrWaits'
  <2>1. CASE m.type = "token"
    <3>1. Successor(r) \in Replica
      BY SuccessorIs, ReplicaFacts DEF Replica
    <3>2. inbox' = [inbox EXCEPT ![Successor(r)]["ring"] = Append(@, m)] /\ sent' = sent \cup {r} /\ m \in Tokens
      BY <1>2, <1>4, <2>1
    <3>3. m.sender = r /\ (~m.closing => m.agg <= Cardinality(Ahead(r))) /\ (m.closing => Kept = Batch)
      BY <1>2, <2>1 DEF SendOK
    <3>4. Ahead(r) \subseteq KeptBy(r)' /\ KeptBy(r)' \subseteq Batch
      <4>1. Saved(r)' = mem[r].seen
        BY <1>3, <3>2 DEF Saved
      <4> QED
        BY <1>5, <4>1 DEF Ahead, KeptBy, Kept
    <3>5. /\ Cardinality(Ahead(r)) \in Nat /\ Cardinality(KeptBy(r)') \in Nat
          /\ Cardinality(Ahead(r)) <= Cardinality(KeptBy(r)')
      BY <3>4, SetsFinite, FS_Subset, FS_CardinalityType
    <3>6. TokenOK(m)'
      <4>1. m.agg \in Nat
        BY <3>2 DEF Tokens
      <4>2. ~m.closing => m.agg <= Cardinality(KeptBy(r)')
        BY <3>3, <3>5, <4>1
      <4>3. m.closing => Kept' = Batch
        BY <1>5, <3>3, KeptGrows
      <4> QED
        BY <3>2, <3>3, <4>2, <4>3 DEF TokenOK
    <3>7. m \in Messages
      BY <3>2 DEF Tokens, Messages
    <3> QED
      BY <1>3, <1>5, <3>1, <3>2, <3>3, <3>6, <3>7, AppendInd DEF Ports
  <2>2. CASE m.type = "eof"
    <3>1. inbox' = [inbox EXCEPT ![r]["input"] = Append(@, m)] /\ m \in EOFMessages /\ r = 0
      BY <1>2, <1>4, <2>2 DEF SendOK
    <3>2. m \in Messages
      BY <3>1 DEF EOFMessages, Messages
    <3> QED
      BY <1>3, <1>5, <3>1, <3>2, AppendInd DEF Ports
  <2>3. CASE inbox' = inbox
    <3>1. \A q \in Replica : InputOK(q)' /\ RingOK(q)'
      BY <1>3, <1>5, <2>3, Unchanged
    <3>2. \A b \in Batch \ Secure : Waits(b) => Waits(b)'
      BY <1>3, <2>3, WaitsUnchanged
    <3>3. SecureOrWaits'
      BY <1>3, <1>5, <3>2, StillWaiting
    <3> QED
      BY <2>3, <3>1, <3>3 DEF IndInv, Typed, TypeOK
  <2> QED
    BY <1>4, <2>1, <2>2, <2>3
<1>12. Typed'
  <2>1. out' \subseteq Outputs /\ sent' \subseteq Replica
    BY <1>2, <1>4 DEF IndInv, Typed, TypeOK
  <2> QED
    BY <1>2, <1>3, <1>7, <1>11, <2>1 DEF IndInv, Typed, TypeOK
<1> QED
  BY <1>5, <1>6, <1>8, <1>9, <1>10, <1>11, <1>12 DEF IndInv

(* What an ack leaves in the queues. *)
LEMMA AckAllInd ==
  ASSUME IndInv, NEW r \in Replica, AckAll(r), Secure \subseteq Secure', Kept \subseteq Kept',
         \A q \in Replica \ {r} : mem'[q] = mem[q]
  PROVE  /\ inbox' \in [Replica -> [Ports -> Seq(Messages)]]
         /\ taken' \in [Replica -> [Ports -> Nat]]
         /\ \A q \in Replica : InputOK(q)' /\ RingOK(q)'
         /\ \A q \in Replica \ {r} : inbox'[q] = inbox[q] /\ taken'[q] = taken[q]
         /\ taken'[r]["input"] = 0 /\ taken[r]["input"] \in Nat
         /\ \A i \in 1 .. Len(inbox[r]["input"]) :
              \/ i <= taken[r]["input"]
              \/ \E j \in 1 .. Len(inbox'[r]["input"]) : inbox'[r]["input"][j] = inbox[r]["input"][i]
<1> DEFINE rest(p) == SubSeq(inbox[r][p], taken[r][p] + 1, Len(inbox[r][p]))
<1>1. ASSUME NEW p \in Ports
      PROVE  /\ inbox[r][p] \in Seq(Messages) /\ Len(inbox[r][p]) \in Nat
             /\ taken[r][p] \in 0 .. Len(inbox[r][p])
  <2>1. inbox[r][p] \in Seq(Messages) /\ taken[r][p] \in Nat
    BY DEF IndInv, Typed, TypeOK
  <2>2. taken[r][p] <= Len(inbox[r][p])
    BY DEF IndInv, InputOK, RingOK, Ports
  <2> QED
    BY <2>1, <2>2
<1>2. ASSUME NEW p \in Ports
      PROVE  /\ rest(p) \in Seq(Messages) /\ Len(rest(p)) = Len(inbox[r][p]) - taken[r][p]
             /\ \A i \in 1 .. Len(inbox[r][p]) - taken[r][p] : rest(p)[i] = inbox[r][p][taken[r][p] + i]
  BY <1>1, DropElements
<1>3. /\ inbox' = [inbox EXCEPT ![r] = [p \in Ports |-> rest(p)]]
      /\ taken' = [taken EXCEPT ![r] = [p \in Ports |-> 0]]
  BY DEF AckAll
<1> HIDE DEF rest
<1>4. /\ \A p \in Ports : inbox'[r][p] = rest(p) /\ taken'[r][p] = 0
      /\ \A q \in Replica \ {r} : inbox'[q] = inbox[q] /\ taken'[q] = taken[q]
  BY <1>3 DEF IndInv, Typed, TypeOK
<1>5. inbox' \in [Replica -> [Ports -> Seq(Messages)]] /\ taken' \in [Replica -> [Ports -> Nat]]
  <2>1. [p \in Ports |-> rest(p)] \in [Ports -> Seq(Messages)]
    BY <1>2
  <2> QED
    BY <1>3, <2>1 DEF IndInv, Typed, TypeOK
<1>6. \A t : TokenOK(t) => TokenOK(t)'
  BY KeptGrows
(* Where the elements of the rest were before. *)
<1>7. ASSUME NEW p \in Ports, NEW i \in 1 .. Len(rest(p))
      PROVE  taken[r][p] + i \in 1 .. Len(inbox[r][p]) /\ rest(p)[i] = inbox[r][p][taken[r][p] + i]
  <2> DEFINE n == Len(inbox[r][p])
             t == taken[r][p]
  <2>1. n \in Nat /\ t \in 0 .. n
    BY <1>1
  <2>2. i \in 1 .. n - t /\ rest(p)[i] = inbox[r][p][t + i]
    BY <1>2
  <2> HIDE DEF n, t
  <2>3. t + i \in 1 .. n
    BY <2>1, <2>2
  <2> QED
    BY <2>2, <2>3 DEF n, t
<1>8. ASSUME NEW q \in Replica PROVE InputOK(q)' /\ RingOK(q)'
  <2>1. CASE q = r
    <3>1. \A p \in Ports : taken'[r][p] <= Len(inbox'[r][p])
      <4>1. \A p \in Ports : Len(rest(p)) \in Nat
        BY <1>2
      <4> QED
        BY <1>4, <4>1
    <3>2. InputOK(r)'
      <4>1. ASSUME NEW i \in 1 .. Len(rest("input")), NEW e, e = rest("input")[i]
            PROVE  \/ /\ e \in BatchMessages /\ home[e.batch] = r
                      /\ ~(i <= 0)
                   \/ e \in EOFMessages /\ r = 0
        <5>1. PICK j \in 1 .. Len(inbox[r]["input"]) : e = inbox[r]["input"][j]
          BY <1>7, <4>1 DEF Ports
        <5> QED
          BY <5>1 DEF IndInv, InputOK
      <4>2. taken'[r]["input"] = 0 /\ inbox'[r]["input"] = rest("input")
        BY <1>4 DEF Ports
      <4> QED
        BY <3>1, <4>1, <4>2 DEF InputOK, Ports
    <3>3. RingOK(r)'
      <4>1. ASSUME NEW i \in 1 .. Len(rest("ring")), NEW t, t = rest("ring")[i]
            PROVE  Successor(t.sender) = r /\ TokenOK(t)'
        <5>1. PICK j \in 1 .. Len(inbox[r]["ring"]) : t = inbox[r]["ring"][j]
          BY <1>7, <4>1 DEF Ports
        <5>2. Successor(t.sender) = r /\ TokenOK(t)
          BY <5>1 DEF IndInv, RingOK
        <5> QED
          BY <1>6, <5>2
      <4>2. inbox'[r]["ring"] = rest("ring")
        BY <1>4 DEF Ports
      <4> QED
        BY <3>1, <4>1, <4>2 DEF RingOK, Ports
    <3> QED
      BY <2>1, <3>2, <3>3
  <2>2. CASE q # r
    BY <1>4, <2>2, Unchanged
  <2> QED
    BY <2>1, <2>2
<1>9. ASSUME NEW i \in 1 .. Len(inbox[r]["input"]), ~(i <= taken[r]["input"])
      PROVE  \E j \in 1 .. Len(inbox'[r]["input"]) : inbox'[r]["input"][j] = inbox[r]["input"][i]
  <2> DEFINE n == taken[r]["input"]
  <2>1. n \in Nat /\ Len(inbox[r]["input"]) \in Nat
    BY <1>1 DEF Ports
  <2>2. i - n \in 1 .. Len(rest("input")) /\ n + (i - n) = i
    BY <1>2, <1>9, <2>1 DEF Ports
  <2>3. rest("input")[i - n] = inbox[r]["input"][i]
    BY <1>7, <2>2 DEF Ports
  <2> QED
    BY <1>4, <2>2, <2>3 DEF Ports
<1>10. taken'[r]["input"] = 0 /\ taken[r]["input"] \in Nat
  BY <1>1, <1>4 DEF Ports
<1> QED
  BY <1>4, <1>5, <1>8, <1>9, <1>10

LEMMA CheckpointInd ==
  ASSUME IndInv, NEW r \in Replica, Checkpoint(r)
  PROVE  IndInv' /\ Kept \subseteq Kept'
<1>1. /\ AckAll(r) /\ UNCHANGED <<mem, tomb, outbox, out, crashes, redeliveries>>
      /\ disk' = [disk EXCEPT ![r] = mem[r]] /\ phase' = [phase EXCEPT ![r] = "idle"]
      /\ outbox[r] = <<>> /\ sent' = sent \ {r}
  BY DEF Checkpoint
<1>7. disk'[r] = mem[r] /\ \A q \in Replica \ {r} : disk'[q] = disk[q]
  BY <1>1 DEF IndInv, Typed, TypeOK
<1>2. Secure' = Secure /\ Kept \subseteq Kept'
  <2>1. Secure' = Secure
    BY <1>1 DEF Secure, Delivered, Lossy
  <2>2. ASSUME NEW b \in Batch, b \in Saved(home[b]) PROVE b \in Saved(home[b])'
    <3>1. home[b] \in Replica /\ disk[home[b]].seen \subseteq mem[home[b]].seen
      BY DEF IndInv, SeenIsOwn
    <3> QED
      BY <1>1, <1>7, <2>2, <3>1 DEF Saved
  <2> QED
    BY <1>1, <2>1, <2>2, KeptStays
<1>3. Typed'
  <2>1. disk' \in [Replica -> State]
    BY <1>1 DEF IndInv, Typed, TypeOK
  <2> QED
    BY <1>1, <1>2, <2>1, AckAllInd DEF IndInv, Typed, TypeOK
<1>4. SeenIsOwn' /\ EndIsComplete' /\ Flushing'
  <2>2. \A q \in Replica : phase'[q] = "complete" => phase[q] = "complete"
    BY <1>1 DEF IndInv, Typed, TypeOK
  <2>3. SeenIsOwn'
    BY <1>1, <1>7 DEF IndInv, SeenIsOwn
  <2>4. EndIsComplete'
    BY <1>1, <1>2, <2>2, EndStays DEF HasClosed
  <2>5. ASSUME NEW b \in Batch
        PROVE  /\ phase'[home[b]] = "complete" \/ (Forwards /\ b \in mem'[home[b]].seen)
                    => b \in Secure' \/ Carried(outbox'[home[b]], b)
               /\ home[b] \in tomb' \/ (Forwards /\ b \in disk'[home[b]].seen) => b \in Secure'
    <3>1. home[b] \in Replica
      OBVIOUS
    <3>2. /\ phase[home[b]] = "complete" \/ (Forwards /\ b \in mem[home[b]].seen)
               => b \in Secure \/ Carried(outbox[home[b]], b)
          /\ home[b] \in tomb \/ (Forwards /\ b \in disk[home[b]].seen) => b \in Secure
      BY DEF IndInv, Flushing
    <3>3. ~Carried(outbox[r], b)
      BY <1>1 DEF Carried
    <3> QED
      BY <1>1, <1>2, <1>7, <2>2, <3>1, <3>2, <3>3
  <2>6. Flushing'
    BY <2>5 DEF Flushing, Carried, Carries
  <2> QED
    BY <2>3, <2>4, <2>6
<1>5. \A q \in Replica : OutboxOK(q)' /\ EndsLast(q, outbox[q])'
  BY <1>1, <1>2, Unchanged
<1>6. SecureOrWaits'
  <2>1. ASSUME NEW b \in Batch \ Secure PROVE b \in disk'[home[b]].seen \/ Waits(b)'
    <3>1. home[b] \in Replica /\ (b \in disk[home[b]].seen \/ Waits(b))
      BY DEF IndInv, SecureOrWaits
    <3>2. CASE home[b] = r
      <4>1. disk'[r] = mem[r] /\ mem' = mem /\ disk[r].seen \subseteq mem[r].seen
        BY <1>1, <1>7 DEF IndInv, SeenIsOwn
      <4>4. ASSUME Waits(b), b \notin mem[r].seen PROVE Waits(b)'
        <5>1. PICK i \in 1 .. Len(inbox[r]["input"]) : inbox[r]["input"][i] = BatchMsg(b)
          BY <3>2, <4>4 DEF Waits
        <5>2. ~(i <= taken[r]["input"])
          <6>1. BatchMsg(b).batch = b /\ BatchMsg(b) \notin EOFMessages
            BY DEF BatchMsg, EOFMessages
          <6> QED
            BY <4>4, <5>1, <6>1 DEF IndInv, InputOK
        <5>3. PICK j \in 1 .. Len(inbox'[r]["input"]) : inbox'[r]["input"][j] = inbox[r]["input"][i]
          <6>1. \A x \in 1 .. Len(inbox[r]["input"]) :
                  \/ x <= taken[r]["input"]
                  \/ \E j \in 1 .. Len(inbox'[r]["input"]) : inbox'[r]["input"][j] = inbox[r]["input"][x]
            BY <1>1, <1>2, AckAllInd
          <6> QED
            BY <5>2, <6>1
        <5> QED
          BY <3>2, <4>1, <4>4, <5>1, <5>3 DEF Waits
      <4> QED
        BY <3>1, <3>2, <4>1, <4>4
    <3>3. CASE home[b] # r
      <4>2. inbox'[home[b]] = inbox[home[b]] /\ taken'[home[b]] = taken[home[b]]
        BY <1>1, <1>2, <3>1, <3>3, AckAllInd
      <4> QED
        BY <1>1, <1>7, <3>1, <3>3, <4>2, WaitsUnchanged
    <3> QED
      BY <3>2, <3>3
  <2> QED
    BY <1>2, <2>1 DEF SecureOrWaits
<1> QED
  BY <1>1, <1>2, <1>3, <1>4, <1>5, <1>6, AckAllInd DEF IndInv

LEMMA CompleteInd ==
  ASSUME IndInv, NEW r \in Replica, Complete(r)
  PROVE  IndInv' /\ Kept \subseteq Kept'
<1>1. /\ AckAll(r) /\ UNCHANGED <<outbox, out, crashes, redeliveries>> /\ tomb' = tomb \cup {r}
      /\ mem' = [mem EXCEPT ![r] = Fresh] /\ disk' = [disk EXCEPT ![r] = Fresh]
      /\ phase' = [phase EXCEPT ![r] = "idle"] /\ sent' = sent \ {r}
      /\ phase[r] = "complete" /\ outbox[r] = <<>>
  BY DEF Complete
(* The result is out, with all that was at r. *)
<1>3. \A b \in Batch : home[b] = r => b \in Secure
  <2>1. \A b : ~Carried(outbox[r], b)
    BY <1>1 DEF Carried
  <2> QED
    BY <1>1, <2>1 DEF IndInv, Flushing
<1>2. Secure' = Secure /\ Kept = Batch
  <2>1. Secure' = Secure
    BY <1>1 DEF Secure, Delivered, Lossy
  <2>2. OthersKept(r)
    BY <1>1 DEF IndInv, EndIsComplete
  <2> QED
    BY <1>3, <2>1, <2>2 DEF OthersKept, Kept
<1>4. /\ mem'[r] = Fresh /\ disk'[r] = Fresh
      /\ \A q \in Replica \ {r} : mem'[q] = mem[q] /\ disk'[q] = disk[q] /\ (q \in sent' <=> q \in sent)
  BY <1>1 DEF IndInv, Typed, TypeOK
<1>5. Kept' = Batch
  <2>1. ASSUME NEW b \in Batch PROVE b \in Kept'
    <3>1. home[b] \in Replica /\ b \in Kept
      BY <1>2
    <3>2. home[b] # r => Saved(home[b])' = Saved(home[b])
      BY <1>4, <3>1 DEF Saved
    <3> QED
      BY <1>2, <1>3, <3>1, <3>2 DEF Kept
  <2> QED
    BY <2>1 DEF Kept
<1>6. Kept \subseteq Kept' /\ \A q : OthersKept(q)'
  BY <1>2, <1>5 DEF OthersKept
<1>7. Typed'
  BY <1>1, <1>2, <1>4, <1>6, AckAllInd, FreshType DEF IndInv, Typed, TypeOK
<1>8. SeenIsOwn' /\ EndIsComplete'
  BY <1>2, <1>4, <1>5, <1>6, FreshType DEF IndInv, SeenIsOwn, EndIsComplete
<1>9. Flushing'
  <2>1. \A q \in Replica : phase'[q] = "complete" => phase[q] = "complete"
    BY <1>1 DEF IndInv, Typed, TypeOK
  <2>2. ASSUME NEW b \in Batch
        PROVE  /\ phase'[home[b]] = "complete" \/ (Forwards /\ b \in mem'[home[b]].seen)
                    => b \in Secure' \/ Carried(outbox'[home[b]], b)
               /\ home[b] \in tomb' \/ (Forwards /\ b \in disk'[home[b]].seen) => b \in Secure'
    <3>1. home[b] \in Replica
      OBVIOUS
    <3>2. /\ phase[home[b]] = "complete" \/ (Forwards /\ b \in mem[home[b]].seen)
               => b \in Secure \/ Carried(outbox[home[b]], b)
          /\ home[b] \in tomb \/ (Forwards /\ b \in disk[home[b]].seen) => b \in Secure
      BY DEF IndInv, Flushing
    <3>3. CASE home[b] = r
      BY <1>2, <1>3, <3>3
    <3>4. CASE home[b] # r
      BY <1>1, <1>2, <1>4, <2>1, <3>1, <3>2, <3>4
    <3> QED
      BY <3>3, <3>4
  <2> QED
    BY <2>2 DEF Flushing, Carried, Carries
<1>10. ASSUME NEW q \in Replica PROVE OutboxOK(q)' /\ EndsLast(q, outbox[q])'
  <2>1. CASE q = r
    BY <1>1, <2>1 DEF OutboxOK, SendsOK, EndsLast
  <2>2. CASE q # r
    BY <1>1, <1>2, <1>4, <1>6, <2>2, Unchanged
  <2> QED
    BY <2>1, <2>2
<1>11. SecureOrWaits'
  <2>1. ASSUME NEW b \in Batch \ Secure PROVE b \in disk'[home[b]].seen \/ Waits(b)'
    <3>1. home[b] \in Replica /\ home[b] # r /\ (b \in disk[home[b]].seen \/ Waits(b))
      BY <1>3 DEF IndInv, SecureOrWaits
    <3>2. inbox'[home[b]] = inbox[home[b]] /\ taken'[home[b]] = taken[home[b]]
      BY <1>1, <1>2, <1>4, <1>6, <3>1, AckAllInd
    <3> QED
      BY <1>4, <3>1, <3>2, WaitsUnchanged
  <2> QED
    BY <1>2, <2>1 DEF SecureOrWaits
<1>12. /\ inbox' \in [Replica -> [Ports -> Seq(Messages)]]
       /\ \A q \in Replica : InputOK(q)' /\ RingOK(q)'
  BY <1>1, <1>2, <1>4, <1>6, AckAllInd
<1> QED
  BY <1>6, <1>7, <1>8, <1>9, <1>10, <1>11, <1>12 DEF IndInv

LEMMA CrashInd ==
  ASSUME IndInv, NEW r \in Replica, Crash(r)
  PROVE  IndInv' /\ Kept \subseteq Kept'
<1>1. /\ UNCHANGED <<inbox, disk, tomb, out, redeliveries>>
      /\ mem' = [mem EXCEPT ![r] = disk[r]]
      /\ taken' = [taken EXCEPT ![r] = [p \in Ports |-> 0]]
      /\ outbox' = [outbox EXCEPT ![r] = <<>>]
      /\ phase' = [phase EXCEPT ![r] = "idle"]
      /\ crashes' = crashes + 1
      /\ sent' = sent \ {r} /\ (r \in sent => Lossy)
  BY DEF Crash, Lossy
<1>3. /\ mem'[r] = disk[r] /\ taken'[r] = [p \in Ports |-> 0] /\ outbox'[r] = <<>> /\ phase'[r] = "idle"
      /\ \A q \in Replica \ {r} : /\ mem'[q] = mem[q] /\ taken'[q] = taken[q]
                                  /\ outbox'[q] = outbox[q] /\ phase'[q] = phase[q]
                                  /\ (q \in sent' <=> q \in sent)
  BY <1>1 DEF IndInv, Typed, TypeOK
(* No token of r has left that is not saved, so what is kept of it is. *)
<1>2. Secure' = Secure /\ Kept \subseteq Kept'
  <2>1. Secure' = Secure
    BY <1>1 DEF Secure, Delivered, Lossy
  <2>2. CASE Lossy
    BY <2>1, <2>2 DEF Kept, Secure
  <2>3. CASE ~Lossy
    <3>1. ASSUME NEW b \in Batch, b \in Saved(home[b]) PROVE b \in Saved(home[b])'
      <4>1. home[b] \in Replica
        OBVIOUS
      <4> QED
        BY <1>1, <1>3, <2>3, <3>1, <4>1 DEF Saved
    <3> QED
      BY <1>1, <3>1, <2>1, KeptStays
  <2> QED
    BY <2>2, <2>3
<1>4. Typed'
  <2>1. outbox' \in [Replica -> Seq(Sendable)] /\ outbox' \in [Replica -> Seq(Messages \cup Outputs)]
    <3>1. \A S : <<>> \in Seq(S)
      OBVIOUS
    <3>2. outbox \in [Replica -> Seq(Sendable)] /\ outbox \in [Replica -> Seq(Messages \cup Outputs)]
      BY DEF IndInv, Typed, TypeOK
    <3>3. outbox' \in [Replica -> Seq(Sendable)]
      BY <1>1, <3>1, <3>2
    <3>4. outbox' \in [Replica -> Seq(Messages \cup Outputs)]
      BY <1>1, <3>1, <3>2
    <3> QED
      BY <3>3, <3>4
  <2> QED
    BY <1>1, <2>1 DEF IndInv, Typed, TypeOK
<1>5. SeenIsOwn' /\ EndIsComplete' /\ Flushing'
  <2>1. \A q \in Replica : phase'[q] = "complete" => phase[q] = "complete" /\ q # r
    BY <1>3
  <2>2. SeenIsOwn'
    BY <1>1, <1>3 DEF IndInv, SeenIsOwn
  <2>3. EndIsComplete'
    BY <1>1, <1>2, <2>1, EndStays DEF HasClosed
  <2>4. ASSUME NEW b \in Batch
        PROVE  /\ phase'[home[b]] = "complete" \/ (Forwards /\ b \in mem'[home[b]].seen)
                    => b \in Secure' \/ Carried(outbox'[home[b]], b)
               /\ home[b] \in tomb' \/ (Forwards /\ b \in disk'[home[b]].seen) => b \in Secure'
    <3>1. home[b] \in Replica
      OBVIOUS
    <3>2. /\ phase[home[b]] = "complete" \/ (Forwards /\ b \in mem[home[b]].seen)
               => b \in Secure \/ Carried(outbox[home[b]], b)
          /\ home[b] \in tomb \/ (Forwards /\ b \in disk[home[b]].seen) => b \in Secure
      BY DEF IndInv, Flushing
    <3>3. CASE home[b] = r
      BY <1>1, <1>2, <1>3, <2>1, <3>2, <3>3
    <3>4. CASE home[b] # r
      BY <1>1, <1>2, <1>3, <3>1, <3>2, <3>4
    <3> QED
      BY <3>3, <3>4
  <2>5. Flushing'
    BY <2>4 DEF Flushing, Carried, Carries
  <2> QED
    BY <2>2, <2>3, <2>5
<1>6. ASSUME NEW q \in Replica PROVE InputOK(q)' /\ RingOK(q)' /\ OutboxOK(q)' /\ EndsLast(q, outbox[q])'
  <2>1. CASE q = r
    <3>1. /\ taken'[r]["input"] = 0 /\ taken'[r]["ring"] = 0
          /\ Len(inbox[r]["input"]) \in Nat /\ Len(inbox[r]["ring"]) \in Nat
      BY <1>3 DEF IndInv, Typed, TypeOK, Ports
    <3>2. InputOK(r)'
      BY <1>1, <3>1 DEF IndInv, InputOK
    <3>3. RingOK(r)'
      <4>1. \A t : TokenOK(t) => TokenOK(t)'
        BY <1>2, KeptGrows
      <4> QED
        BY <1>1, <3>1, <4>1 DEF IndInv, RingOK
    <3>4. OutboxOK(r)' /\ EndsLast(r, outbox[r])'
      BY <1>3 DEF OutboxOK, SendsOK, EndsLast
    <3> QED
      BY <2>1, <3>2, <3>3, <3>4
  <2>2. CASE q # r
    BY <1>1, <1>2, <1>3, <2>2, Unchanged
  <2> QED
    BY <2>1, <2>2
<1>7. SecureOrWaits'
  <2>1. ASSUME NEW b \in Batch \ Secure PROVE b \in disk'[home[b]].seen \/ Waits(b)'
    <3>1. home[b] \in Replica /\ (b \in disk[home[b]].seen \/ Waits(b))
      BY DEF IndInv, SecureOrWaits
    <3>2. CASE home[b] = r
      BY <1>1, <1>3, <3>1, <3>2 DEF Waits
    <3>3. CASE home[b] # r
      BY <1>1, <1>3, <3>1, <3>3, WaitsUnchanged
    <3> QED
      BY <3>2, <3>3
  <2> QED
    BY <1>2, <2>1 DEF SecureOrWaits
<1> QED
  BY <1>2, <1>4, <1>5, <1>6, <1>7 DEF IndInv

-----------------------------------------------------------------------------
(* The theorems *)

LEMMA NextInd ==
  ASSUME IndInv, [Next]_vars
  PROVE  IndInv' /\ Kept \subseteq Kept'
<1>1. CASE Next
  <2>1. PICK r \in Replica : \/ ConsumeInput(r) \/ ConsumeRing(r) \/ Finish(r) \/ Crash(r)
                             \/ \E m \in Arriving(r) : Redeliver(r, m)
    BY <1>1 DEF Next
  <2>2. CASE ConsumeInput(r)
    BY <2>2, DiscardInd, HandleBatchInd, HandleEOFInd DEF ConsumeInput, Ports
  <2>3. CASE ConsumeRing(r)
    BY <2>3, DiscardInd, HandleTokenInd DEF ConsumeRing, Ports
  <2>4. CASE Finish(r)
    BY <2>4, PublishInd, CheckpointInd, CompleteInd DEF Finish
  <2>5. CASE Crash(r)
    BY <2>5, CrashInd
  <2>6. CASE \E m \in Arriving(r) : Redeliver(r, m)
    BY <2>6, RedeliverInd
  <2> QED
    BY <2>1, <2>2, <2>3, <2>4, <2>5, <2>6
<1>2. CASE UNCHANGED vars
  <2>1. /\ inbox' = inbox /\ taken' = taken /\ mem' = mem /\ disk' = disk /\ tomb' = tomb
        /\ outbox' = outbox /\ sent' = sent /\ phase' = phase /\ out' = out
        /\ crashes' = crashes /\ redeliveries' = redeliveries
    BY <1>2 DEF vars
  <2>2. Secure' = Secure /\ Kept \subseteq Kept'
    BY <2>1, KeptSame
  <2>3. Typed' /\ SeenIsOwn'
    BY <2>1 DEF IndInv, Typed, TypeOK, SeenIsOwn
  <2>4. \A q \in Replica : InputOK(q)' /\ RingOK(q)' /\ OutboxOK(q)' /\ EndsLast(q, outbox[q])'
    BY <2>1, <2>2, Unchanged
  <2>5. EndIsComplete' /\ Flushing'
    BY <2>1, <2>2, EndStays, FlushingStays DEF HasClosed
  <2>6. SecureOrWaits'
    BY <2>1, <2>2, WaitsUnchanged, StillWaiting
  <2> QED
    BY <2>2, <2>3, <2>4, <2>5, <2>6 DEF IndInv
<1> QED
  BY <1>1, <1>2

LEMMA AlwaysInd == Spec => []IndInv
<1>1. IndInv /\ [Next]_vars => IndInv'
  BY NextInd
<1> QED
  BY <1>1, InitInd, PTL DEF Spec

(* Every stage keeps its types, whatever crashes and repetitions there are:  *)
(* no sum of a ring exceeds the announced total, the case tryFinalize takes  *)
(* for impossible (ring.go:104-109).                                         *)
THEOREM TypeCorrect == Spec => []TypeOK
<1>1. IndInv => TypeOK
  BY DEF IndInv, Typed
<1> QED
  BY <1>1, AlwaysInd, PTL

(* A stage, whether it forwards or accumulates, that no crash catches        *)
(* between a token and its checkpoint (the code does not exclude that: run   *)
(* ringLoss) loses no batch of a client, whatever else crashes, whatever of  *)
(* its messages a crash leaves unpublished, and whatever its neighbours      *)
(* repeat: what it has not passed on is saved or waits in a queue, and its   *)
(* replica still knows the client (checkpointAndAck and completeClient,      *)
(* runtime.go:1128-1161 and 1304-1325).                                      *)
THEOREM NothingIsLost ==
  ASSUME ~KillAfterSend
  PROVE  Spec => []NoBatchLost
<1>1. IndInv => NoBatchLost
  BY IndInvSuffices DEF Lossy
<1> QED
  BY <1>1, AlwaysInd, PTL

(* Such a stage announces the end of the client after all its batches: the   *)
(* sums of a ring in which counts are rolled back and tokens repeated never  *)
(* reach the total too early (tryFinalize, ring.go:101-116).                 *)
THEOREM ClosesComplete ==
  ASSUME ~KillAfterSend
  PROVE  Spec => []ClosedIsComplete
<1>1. IndInv => ClosedIsComplete
  BY IndInvSuffices DEF Lossy
<1> QED
  BY <1>1, AlwaysInd, PTL

-----------------------------------------------------------------------------
(* Every step is one of StageTermination, or does not concern it. *)

ClosedReplicas == {r \in Closer : HasClosed(r)}

LEMMA AbsorbedIsKept ==
  ASSUME ~Lossy
  PROVE  Absorbed = Kept /\ Absorbed' = Kept'
  BY DEF Absorbed, Kept, Secure, Lossy

(* An end is announced with all batches kept, and by one replica at a time. *)
LEMMA StepCloses ==
  ASSUME IndInv, [Next]_vars, ClosedReplicas' # ClosedReplicas
  PROVE  Kept = Batch /\ \E r \in Closer \ ClosedReplicas : ClosedReplicas' = ClosedReplicas \cup {r}
<1>1. out' # out
  BY DEF ClosedReplicas, HasClosed, Closer
<1>2. PICK r \in Replica : \E i \in 1 .. Len(outbox[r]) : Publish(r, i)
  BY <1>1 DEF Next, vars, ConsumeInput, ConsumeRing, Finish, Discard, HandleBatch, HandleEOF, HandleToken,
              Accept, Checkpoint, Complete, Crash, Redeliver
<1>3. PICK i \in 1 .. Len(outbox[r]) : Publish(r, i)
  BY <1>2
<1>4. PICK m : Released(r, i, m)
  BY <1>3, PublishReleases
<1>5. out' = out \cup {m}
  BY <1>1, <1>3, <1>4 DEF Publish, Released
<1>6. m.type = "outeof"
  BY <1>5 DEF ClosedReplicas, HasClosed, Closer
<1>7. ClosedReplicas' = ClosedReplicas \cup ({m.sender} \cap Closer)
  BY <1>5, <1>6 DEF ClosedReplicas, HasClosed, Closer
<1>8. m.sender \in Closer \ ClosedReplicas /\ ClosedReplicas' = ClosedReplicas \cup {m.sender}
  BY <1>7
<1> QED
  BY <1>4, <1>6, <1>8, EndLeavesNothing

LEMMA StepKeepsPromise ==
  ASSUME IndInv, [Next]_vars, ~Lossy
  PROVE  \/ Promise!Next
         \/ Absorbed' = Absorbed /\ ClosedReplicas' = ClosedReplicas
<1>1. Absorbed = Kept /\ Absorbed' = Kept' /\ Kept \subseteq Kept' /\ Kept' \subseteq Batch
  BY AbsorbedIsKept, NextInd, KeptGrows
<1>2. CASE ClosedReplicas' # ClosedReplicas
  <2>1. Kept = Batch /\ \E r \in Closer \ ClosedReplicas : ClosedReplicas' = ClosedReplicas \cup {r}
    BY <1>2, StepCloses
  <2>2. Promise!Close
    BY <1>1, <2>1 DEF Promise!Close, ClosedReplicas
  <2> QED
    BY <2>2 DEF Promise!Next
<1>3. CASE ClosedReplicas' = ClosedReplicas /\ Kept' # Kept
  <2> DEFINE new == Kept' \ Kept
  <2>1. new \in SUBSET (Batch \ Absorbed) /\ new # {} /\ Absorbed' = Absorbed \cup new
    BY <1>1, <1>3
  <2>2. Promise!Absorb
    BY <1>3, <2>1 DEF Promise!Absorb, ClosedReplicas
  <2> QED
    BY <2>2 DEF Promise!Next
<1> QED
  BY <1>1, <1>2, <1>3

(* Such a stage implements the safety part of StageTermination: its steps    *)
(* absorb batches for good, and announce the end after the last.             *)
THEOREM KeepsPromise ==
  ASSUME ~KillAfterSend
  PROVE  Spec => Promise!Init /\ [][Promise!Next]_<<Absorbed, ClosedReplicas>>
<1>1. Init => Promise!Init
  <2> SUFFICES ASSUME Init PROVE Promise!Init
    OBVIOUS
  <2>1. \A b \in Batch : home[b] \in Replica
    OBVIOUS
  <2>2. Absorbed = {} /\ ClosedReplicas = {}
    BY <2>1, FreshType DEF Init, Absorbed, Delivered, Saved, ClosedReplicas, HasClosed
  <2> QED
    BY <2>2 DEF Promise!Init, ClosedReplicas
<1>2. IndInv /\ [Next]_vars => [Promise!Next]_<<Absorbed, ClosedReplicas>>
  BY StepKeepsPromise DEF Lossy
<1> QED
  BY <1>1, <1>2, AlwaysInd, PTL DEF Spec

-----------------------------------------------------------------------------
(* The round.  What a restart of r would handle (again) of its queues: all   *)
(* that is there, or, once a token or EOF of its has left, what is not       *)
(* handled yet.  One EOF or token is among it at all replicas together, and  *)
(* what a replica is about to send is due to the one it has taken in.        *)
Live(r, p) == {i \in Coordination(inbox[r][p]) : r \in sent => i > taken[r][p]}

Alone == \A r, s \in Replica, p, o \in Ports :
           \A i \in Live(r, p), j \in Live(s, o) : r = s /\ p = o /\ i = j

TakenIn(r) == \E p \in Ports : \E i \in Live(r, p) : i <= taken[r][p]

Sending(r) == /\ \A i, j \in Coordination(outbox[r]) : i = j
              /\ r \in sent => phase[r] # "idle"
              /\ Coordination(outbox[r]) # {} => r \notin sent /\ phase[r] # "idle" /\ TakenIn(r)

RoundInv == Alone /\ \A r \in Replica : Sending(r)

LEMMA QueueTypes ==
  ASSUME IndInv, NEW r \in Replica, NEW p \in Ports
  PROVE  /\ inbox[r][p] \in Seq(Messages) /\ Len(inbox[r][p]) \in Nat
         /\ taken[r][p] \in Nat /\ taken[r][p] <= Len(inbox[r][p])
         /\ Unhandled(r, p) = SubSeq(inbox[r][p], taken[r][p] + 1, Len(inbox[r][p]))
<1>1. inbox[r][p] \in Seq(Messages) /\ taken[r][p] \in Nat
  BY DEF IndInv, Typed, TypeOK
<1>2. taken[r][p] <= Len(inbox[r][p])
  BY DEF IndInv, InputOK, RingOK, Ports
<1> QED
  BY <1>1, <1>2, LenProperties DEF Unhandled, Ports

(* Where a message that is not handled yet is in the queue. *)
LEMMA UnhandledIs ==
  ASSUME NEW q \in Seq(Messages), NEW n \in Nat, n <= Len(q)
  PROVE  /\ Len(q) \in Nat /\ Len(SubSeq(q, n + 1, Len(q))) = Len(q) - n
         /\ \A i \in 1 .. Len(SubSeq(q, n + 1, Len(q))) :
              n + i \in 1 .. Len(q) /\ n + i > n /\ SubSeq(q, n + 1, Len(q))[i] = q[n + i]
<1> DEFINE u == SubSeq(q, n + 1, Len(q))
<1>1. Len(q) \in Nat /\ n \in 0 .. Len(q)
  BY LenProperties
<1>2. Len(u) = Len(q) - n /\ \A i \in 1 .. Len(q) - n : u[i] = q[n + i]
  BY <1>1, DropElements
<1> HIDE DEF u
<1>3. \A i \in 1 .. Len(u) : i \in 1 .. Len(q) - n /\ n + i \in 1 .. Len(q) /\ n + i > n
  BY <1>1, <1>2
<1> QED
  BY <1>1, <1>2, <1>3 DEF u

LEMMA UnhandledIsLive ==
  ASSUME IndInv, NEW r \in Replica, NEW p \in Ports, NEW i \in Coordination(Unhandled(r, p))
  PROVE  i \in Nat /\ taken[r][p] + i \in Live(r, p) /\ ~(taken[r][p] + i <= taken[r][p])
<1> DEFINE q == inbox[r][p]
           n == taken[r][p]
           u == SubSeq(q, n + 1, Len(q))
<1>1. /\ q \in Seq(Messages) /\ n \in Nat /\ n <= Len(q)
      /\ Unhandled(r, p) = u
  BY QueueTypes
<1> HIDE DEF q, n
<1>2. \A k \in 1 .. Len(u) : n + k \in 1 .. Len(q) /\ n + k > n /\ u[k] = q[n + k]
  BY <1>1, UnhandledIs
<1> HIDE DEF u
<1>3. i \in 1 .. Len(u) /\ u[i].type \in {"eof", "token"}
  BY <1>1 DEF Coordination
<1>4. n + i \in 1 .. Len(q) /\ n + i > n /\ q[n + i].type \in {"eof", "token"} /\ i \in Nat
  BY <1>2, <1>3
<1>5. n + i \in Coordination(q) /\ ~(n + i <= n)
  BY <1>1, <1>4 DEF Coordination
<1> QED
  BY <1>4, <1>5 DEF Live, q, n

LEMMA RoundSuffices ==
  ASSUME IndInv, RoundInv
  PROVE  OneRound
<1>1. ASSUME NEW r \in Replica, NEW s \in Replica, NEW p \in Ports, NEW o \in Ports,
             NEW i \in Coordination(Unhandled(r, p)), NEW j \in Coordination(Unhandled(s, o))
      PROVE  r = s /\ p = o /\ i = j
  <2>1. /\ i \in Nat /\ taken[r][p] + i \in Live(r, p) /\ taken[r][p] \in Nat
        /\ j \in Nat /\ taken[s][o] + j \in Live(s, o)
    BY UnhandledIsLive, QueueTypes
  <2>2. r = s /\ p = o /\ taken[r][p] + i = taken[s][o] + j
    BY <2>1 DEF RoundInv, Alone
  <2> QED
    BY <2>1, <2>2
<1>2. ASSUME NEW r \in Replica, Coordination(outbox[r]) # {}, NEW s \in Replica, NEW o \in Ports,
             NEW j \in Coordination(Unhandled(s, o))
      PROVE  FALSE
  <2>1. PICK p \in Ports : \E i \in Live(r, p) : i <= taken[r][p]
    BY <1>2 DEF RoundInv, Sending, TakenIn
  <2>2. PICK i \in Live(r, p) : i <= taken[r][p]
    BY <2>1
  <2>3. taken[s][o] + j \in Live(s, o) /\ ~(taken[s][o] + j <= taken[s][o])
    BY UnhandledIsLive
  <2>4. r = s /\ p = o /\ i = taken[s][o] + j
    BY <2>2, <2>3 DEF RoundInv, Alone
  <2> QED
    BY <2>2, <2>3, <2>4
<1>3. ASSUME NEW r \in Replica, Coordination(outbox[r]) # {}, NEW s \in Replica, Coordination(outbox[s]) # {}
      PROVE  r = s
  <2>1. PICK p \in Ports : \E i \in Live(r, p) : i <= taken[r][p]
    BY <1>3 DEF RoundInv, Sending, TakenIn
  <2>2. PICK o \in Ports : \E j \in Live(s, o) : j <= taken[s][o]
    BY <1>3 DEF RoundInv, Sending, TakenIn
  <2> QED
    BY <2>1, <2>2 DEF RoundInv, Alone
<1>4. ASSUME NEW r \in Replica PROVE \A i, j \in Coordination(outbox[r]) : i = j
  BY DEF RoundInv, Sending
<1> SUFFICES ASSUME NEW r \in Replica, NEW s \in Replica, NEW p \in Places, NEW o \in Places,
                    NEW i \in Coordination(Unhandled(r, p)), NEW j \in Coordination(Unhandled(s, o))
             PROVE  r = s /\ p = o /\ i = j
  BY DEF OneRound
<1>5. (p \in Ports \/ p = "outbox") /\ (o \in Ports \/ o = "outbox")
  BY DEF Places
<1>6. \A x : Unhandled(x, "outbox") = outbox[x]
  BY DEF Unhandled
<1> QED
  BY <1>1, <1>2, <1>3, <1>4, <1>5, <1>6

(* What is live after a step was live before, each message in a place of its *)
(* own.                                                                      *)
Injects(r, p) == \E f : /\ \A i \in Live(r, p)' : f[i] \in Live(r, p)
                        /\ \A i, j \in Live(r, p)' : f[i] = f[j] => i = j

LEMMA AloneMoves ==
  ASSUME Alone, \A r \in Replica, p \in Ports : Injects(r, p)
  PROVE  Alone'
<1> SUFFICES ASSUME NEW r \in Replica, NEW s \in Replica, NEW p \in Ports, NEW o \in Ports,
                    NEW i \in Live(r, p)', NEW j \in Live(s, o)'
             PROVE  r = s /\ p = o /\ i = j
  BY DEF Alone
<1>1. PICK f : /\ \A x \in Live(r, p)' : f[x] \in Live(r, p)
               /\ \A x, y \in Live(r, p)' : f[x] = f[y] => x = y
  BY DEF Injects
<1>2. PICK g : \A y \in Live(s, o)' : g[y] \in Live(s, o)
  BY DEF Injects
<1>3. r = s /\ p = o
  BY <1>1, <1>2 DEF Alone
<1>4. f[i] = f[j]
  BY <1>1, <1>3 DEF Alone
<1> QED
  BY <1>1, <1>3, <1>4

LEMMA SubsetInjects ==
  ASSUME NEW r, NEW p, Live(r, p)' \subseteq Live(r, p)
  PROVE  Injects(r, p)
<1> DEFINE f == [i \in Live(r, p)' |-> i]
<1>1. /\ \A i \in Live(r, p)' : f[i] \in Live(r, p)
      /\ \A i, j \in Live(r, p)' : f[i] = f[j] => i = j
  OBVIOUS
<1> QED
  BY <1>1 DEF Injects

LEMMA SameInjects ==
  ASSUME NEW r, NEW p, inbox'[r][p] = inbox[r][p],
         r \in sent' => r \in sent /\ taken'[r][p] = taken[r][p],
         r \in sent => r \in sent'
  PROVE  Live(r, p)' \subseteq Live(r, p)
  BY DEF Live, Coordination

(* A replica that is not concerned by a step. *)
LEMMA SendingStays ==
  ASSUME NEW r, Sending(r), outbox'[r] = outbox[r], phase'[r] = phase[r], r \in sent' <=> r \in sent,
         inbox'[r] = inbox[r], taken'[r] = taken[r]
  PROVE  Sending(r)'
<1>1. Coordination(outbox[r])' = Coordination(outbox[r])
  BY DEF Coordination
<1>2. TakenIn(r) => TakenIn(r)'
  BY DEF TakenIn, Live, Coordination
<1> QED
  BY <1>1, <1>2 DEF Sending

(* A replica with nothing to coordinate in its outbox. *)
LEMMA SendingNothing ==
  ASSUME NEW r, Coordination(outbox[r])' = {}, r \in sent' => phase'[r] # "idle"
  PROVE  Sending(r)'
  BY DEF Sending

LEMMA DiscardRound ==
  ASSUME IndInv, RoundInv, NEW r \in Replica, NEW p \in Ports, Discard(r, p)
  PROVE  RoundInv'
<1> DEFINE q == inbox[r][p]
           k == taken[r][p] + 1
           w == RemoveAt(q, k)
<1>1. /\ q \in Seq(Messages) /\ Len(q) \in Nat /\ k \in 1 .. Len(q) /\ phase[r] = "idle"
      /\ inbox' = [inbox EXCEPT ![r][p] = w]
      /\ UNCHANGED <<taken, outbox, sent, phase>>
  BY QueueTypes DEF Discard, Waiting
<1>2. Len(w) = Len(q) - 1 /\ \A i \in 1 .. Len(q) - 1 : w[i] = IF i < k THEN q[i] ELSE q[i + 1]
  BY <1>1, RemoveAtElements
<1> HIDE DEF w
<1>3. inbox'[r][p] = w /\ \A s \in Replica, o \in Ports : s # r \/ o # p => inbox'[s][o] = inbox[s][o]
  BY <1>1 DEF IndInv, Typed, TypeOK
<1>9. \A s \in Replica \ {r} : inbox'[s] = inbox[s]
  BY <1>1 DEF IndInv, Typed, TypeOK
<1>4. r \notin sent /\ Coordination(outbox[r]) = {}
  BY <1>1 DEF RoundInv, Sending
<1>5. Live(r, p) = Coordination(q) /\ Live(r, p)' = Coordination(w)
  BY <1>1, <1>3, <1>4 DEF Live, Coordination
<1> HIDE DEF q, k
<1>6. Injects(r, p)
  <2> DEFINE f == [i \in Live(r, p)' |-> IF i < k THEN i ELSE i + 1]
  <2>1. ASSUME NEW i \in Coordination(w)
        PROVE  i \in Int /\ (IF i < k THEN i ELSE i + 1) \in Coordination(q)
    <3>1. i \in 1 .. Len(q) - 1 /\ w[i].type \in {"eof", "token"}
      BY <1>2, <2>1 DEF Coordination
    <3>2. i \in 1 .. Len(q) /\ i + 1 \in 1 .. Len(q)
      BY <1>1, <3>1
    <3> QED
      BY <1>2, <3>1, <3>2 DEF Coordination
  <2>2. \A i \in Live(r, p)' : f[i] \in Live(r, p)
    BY <1>5, <2>1
  <2>3. ASSUME NEW i \in Live(r, p)', NEW j \in Live(r, p)', f[i] = f[j] PROVE i = j
    <3>1. i \in Int /\ j \in Int /\ k \in Int
      BY <1>1, <1>5, <2>1
    <3> QED
      BY <2>3, <3>1
  <2> QED
    BY <2>2, <2>3 DEF Injects
<1>7. \A s \in Replica, o \in Ports : Injects(s, o)
  BY <1>1, <1>3, <1>6, SameInjects, SubsetInjects
<1>8. ASSUME NEW s \in Replica PROVE Sending(s)'
  <2>1. CASE s = r
    <3>1. Coordination(outbox[r])' = {}
      BY <1>1, <1>4 DEF Coordination
    <3> QED
      BY <1>1, <1>4, <2>1, <3>1, SendingNothing
  <2>2. CASE s # r
    BY <1>1, <1>9, <2>2, SendingStays DEF RoundInv
  <2> QED
    BY <2>1, <2>2
<1> QED
  BY <1>7, <1>8, AloneMoves DEF RoundInv

LEMMA HandleBatchRound ==
  ASSUME IndInv, RoundInv, NEW r \in Replica, HandleBatch(r)
  PROVE  RoundInv'
<1> DEFINE d == Data(r, Message(r, "input").batch)
<1>1. /\ phase[r] = "idle" /\ UNCHANGED <<inbox, sent, phase>>
      /\ taken' = [taken EXCEPT ![r]["input"] = @ + 1]
      /\ outbox' = IF Forwards THEN [outbox EXCEPT ![r] = Append(@, d)] ELSE outbox
  BY DEF HandleBatch, Accept, Waiting
<1>2. d.type = "data"
  BY DEF Data
<1>3. r \notin sent /\ Coordination(outbox[r]) = {}
  BY <1>1 DEF RoundInv, Sending
<1> HIDE DEF d
<1>4. outbox[r] \in Seq(Sendable) /\ \A s \in Replica \ {r} : outbox'[s] = outbox[s] /\ taken'[s] = taken[s]
  BY <1>1 DEF IndInv, Typed, TypeOK
<1>5. Coordination(outbox[r])' = {}
  <2>1. CASE Forwards
    <3> DEFINE a == Append(outbox[r], d)
    <3>1. outbox'[r] = a
      BY <1>1, <2>1 DEF IndInv, Typed
    <3>2. /\ Len(outbox[r]) \in Nat /\ Len(a) = Len(outbox[r]) + 1 /\ a[Len(outbox[r]) + 1] = d
          /\ \A i \in 1 .. Len(outbox[r]) : a[i] = outbox[r][i]
      BY <1>4, AppendProperties, LenProperties
    <3> HIDE DEF a
    <3>3. \A i \in 1 .. Len(a) : i \in 1 .. Len(outbox[r]) \/ i = Len(outbox[r]) + 1
      BY <3>2
    <3>4. ASSUME NEW i \in 1 .. Len(a), a[i].type \in {"eof", "token"} PROVE FALSE
      <4>1. i \in 1 .. Len(outbox[r]) /\ outbox[r][i].type \in {"eof", "token"}
        BY <1>2, <3>2, <3>3, <3>4
      <4> QED
        BY <1>3, <4>1 DEF Coordination
    <3> QED
      BY <3>1, <3>4 DEF Coordination
  <2>2. CASE ~Forwards
    BY <1>1, <1>3, <2>2 DEF Coordination
  <2> QED
    BY <2>1, <2>2
<1>6. ASSUME NEW s \in Replica, NEW o \in Ports PROVE Injects(s, o)
  BY <1>1, <1>3, <1>4, SameInjects, SubsetInjects
<1>7. ASSUME NEW s \in Replica PROVE Sending(s)'
  <2>1. CASE s = r
    BY <1>1, <1>3, <1>5, <2>1, SendingNothing
  <2>2. CASE s # r
    BY <1>1, <1>4, <2>2, SendingStays DEF RoundInv
  <2> QED
    BY <2>1, <2>2
<1> QED
  BY <1>6, <1>7, AloneMoves DEF RoundInv


(* A handler sends at most one EOF or token. *)
OnlyOne(q) == \A i, j \in Coordination(q) : i = j

LEMMA SingleSend == \A m : OnlyOne(<<m>>) /\ OnlyOne(<<>>)
<1> SUFFICES ASSUME NEW m PROVE OnlyOne(<<m>>) /\ OnlyOne(<<>>)
  OBVIOUS
<1>1. \A i \in Coordination(<<m>>) : i \in 1 .. 1
  BY DEF Coordination
<1>2. \A i \in Coordination(<<>>) : FALSE
  BY DEF Coordination
<1> QED
  BY <1>1, <1>2 DEF OnlyOne

LEMMA NothingBefore ==
  ASSUME NEW e \in Seq(Sendable), NEW sends \in Seq(Sendable), Coordination(e) = {}, OnlyOne(sends)
  PROVE  OnlyOne(e \o sends)
<1> DEFINE a == e \o sends
<1>1. /\ Len(e) \in Nat /\ Len(sends) \in Nat
      /\ \A i \in 1 .. Len(a) : \/ i \in 1 .. Len(e) /\ a[i] = e[i]
                                \/ \E j \in 1 .. Len(sends) : i = Len(e) + j /\ a[i] = sends[j]
  BY ConcatElements
<1> HIDE DEF a
<1>2. ASSUME NEW i \in Coordination(a) PROVE \E j \in Coordination(sends) : i = Len(e) + j
  <2>1. i \in 1 .. Len(a) /\ a[i].type \in {"eof", "token"}
    BY <1>2 DEF Coordination
  <2>2. ~(i \in 1 .. Len(e) /\ a[i] = e[i])
    BY <2>1 DEF Coordination
  <2> QED
    BY <1>1, <2>1, <2>2 DEF Coordination
<1>3. OnlyOne(a)
  BY <1>2 DEF OnlyOne
<1> QED
  BY <1>3 DEF a

LEMMA EmissionPlain ==
  ASSUME NEW r \in Replica, NEW s \in State
  PROVE  Emission(r, s) \in Seq(Sendable) /\ Coordination(Emission(r, s)) = {}
<1> DEFINE x == Result(r, s.outSeq + 1, s.seen)
           y == OutEOF(r, s.outSeq + 2)
           z == OutEOF(r, s.outSeq + 1)
<1>1. s.seen \in SUBSET Batch /\ s.outSeq + 1 \in Nat /\ s.outSeq + 2 \in Nat
  BY DEF State
<1>2. /\ x \in Sendable /\ y \in Sendable /\ z \in Sendable
      /\ x.type = "result" /\ y.type = "outeof" /\ z.type = "outeof"
  BY <1>1 DEF Result, OutEOF, Emitted, Sendable
<1>3. Emission(r, s) = IF Forwards THEN <<z>> ELSE <<x, y>>
  BY DEF Emission
<1> HIDE DEF x, y, z
<1>4. <<x, y>> \in Seq(Sendable) /\ Coordination(<<x, y>>) = {}
  <2>1. /\ <<x, y>> \in Seq(Sendable) /\ Len(<<x, y>>) = 2 /\ <<x, y>>[1] = x /\ <<x, y>>[2] = y
        /\ \A i \in 1 .. 2 : i = 1 \/ i = 2
    BY <1>2
  <2> QED
    BY <1>2, <2>1 DEF Coordination
<1>5. <<z>> \in Seq(Sendable) /\ Coordination(<<z>>) = {}
  <2>1. <<z>> \in Seq(Sendable) /\ Len(<<z>>) = 1 /\ <<z>>[1] = z /\ \A i \in 1 .. 1 : i = 1
    BY <1>2
  <2> QED
    BY <1>2, <2>1 DEF Coordination
<1> QED
  BY <1>3, <1>4, <1>5

LEMMA EmitSends ==
  ASSUME NEW r \in Replica, NEW s \in State, NEW sends \in Seq(Sendable), OnlyOne(sends)
  PROVE  OnlyOne(Emit(r, s, sends).sends)
<1>1. Emit(r, s, sends).sends = Emission(r, s) \o sends
  BY DEF Emit, Outcome
<1>2. OnlyOne(Emission(r, s) \o sends)
  BY EmissionPlain, NothingBefore
<1> QED
  BY <1>1, <1>2

LEMMA TryFinalizeSends ==
  ASSUME NEW s \in State, NEW agg
  PROVE  OnlyOne(TryFinalize(s, agg).sends)
<1>1. \/ \E m : TryFinalize(s, agg).sends = <<m>>
      \/ TryFinalize(s, agg) = Emit(0, s, <<>>)
  BY DEF TryFinalize, Outcome
<1> QED
  BY <1>1, SingleSend, EmitSends, NothingToSend, ReplicaFacts

LEMMA UpstreamEOFSends ==
  ASSUME NEW s \in State
  PROVE  OnlyOne(UpstreamEOFOutcome(s).sends)
<1>1. \/ \E m : UpstreamEOFOutcome(s).sends = <<m>>
      \/ UpstreamEOFOutcome(s) = TryFinalize(s, Processed(s))
  BY DEF UpstreamEOFOutcome, Outcome
<1> QED
  BY <1>1, SingleSend, TryFinalizeSends

LEMMA TokenSendsOne ==
  ASSUME NEW r \in Replica, NEW s \in State, NEW t \in Tokens
  PROVE  OnlyOne(TokenOutcome(r, s, t).sends)
<1> DEFINE n == s.outSeq + Len(Emission(r, s)) + 1
           m == Token(r, n, t.agg, TRUE)
<1>1. \/ TokenOutcome(r, s, t).sends = <<>>
      \/ \E x : TokenOutcome(r, s, t).sends = <<x>>
      \/ TokenOutcome(r, s, t) = TryFinalize(s, t.agg)
      \/ TokenOutcome(r, s, t) = Emit(0, s, <<>>)
      \/ TokenOutcome(r, s, t) = Emit(r, s, <<m>>)
  BY DEF TokenOutcome, Outcome
<1>2. <<m>> \in Seq(Sendable)
  <2>1. s.outSeq \in Nat /\ Len(Emission(r, s)) \in Nat
    BY EmissionPlain, LenProperties DEF State
  <2>2. m \in Sendable
    BY <2>1 DEF Token, Tokens, Sendable
  <2> HIDE DEF m
  <2> QED
    BY <2>2
<1> HIDE DEF m
<1>3. OnlyOne(Emit(r, s, <<m>>).sends) /\ OnlyOne(Emit(0, s, <<>>).sends)
  BY <1>2, SingleSend, EmitSends, NothingToSend, ReplicaFacts
<1> QED
  BY <1>1, <1>3, SingleSend, TryFinalizeSends

(* The message a handler takes in is the only live one, and what it sends is *)
(* due to it.                                                                *)
LEMMA HandleRound ==
  ASSUME IndInv, RoundInv, NEW r \in Replica, NEW p \in Ports, NEW o, NEW m,
         Waiting(r, p), Message(r, p).type \in {"eof", "token"},
         taken' = [taken EXCEPT ![r][p] = @ + 1], UNCHANGED <<inbox, sent>>,
         Apply(r, m, o), o.sends \in Seq(Sendable), o.end # "idle", OnlyOne(o.sends)
  PROVE  RoundInv'
<1> DEFINE k == taken[r][p] + 1
           a == outbox[r] \o o.sends
<1>1. /\ inbox[r][p] \in Seq(Messages) /\ Len(inbox[r][p]) \in Nat /\ k \in 1 .. Len(inbox[r][p])
      /\ phase[r] = "idle"
      /\ inbox[r][p][k].type \in {"eof", "token"}
  <2>1. /\ inbox[r][p] \in Seq(Messages) /\ Len(inbox[r][p]) \in Nat /\ taken[r][p] \in Nat
        /\ taken[r][p] < Len(inbox[r][p]) /\ phase[r] = "idle"
    BY QueueTypes DEF Waiting
  <2>2. k \in 1 .. Len(inbox[r][p])
    BY <2>1
  <2> QED
    BY <2>1, <2>2 DEF Message
<1>2. r \notin sent /\ Coordination(outbox[r]) = {}
  BY <1>1 DEF RoundInv, Sending
<1>3. /\ outbox'[r] = a /\ phase'[r] # "idle" /\ taken'[r][p] = k /\ k \in Nat
      /\ \A s \in Replica \ {r} : outbox'[s] = outbox[s] /\ taken'[s] = taken[s] /\ phase'[s] = phase[s]
  <2>1. /\ outbox' = [outbox EXCEPT ![r] = a] /\ phase' = [phase EXCEPT ![r] = o.end]
        /\ taken' = [taken EXCEPT ![r][p] = k]
    BY DEF Apply
  <2> HIDE DEF a
  <2>2. k \in Nat
    BY <1>1
  <2> HIDE DEF k
  <2>3. taken'[r][p] = k /\ \A s \in Replica \ {r} : taken'[s] = taken[s]
    BY <2>1 DEF IndInv, Typed, TypeOK
  <2>4. outbox'[r] = a /\ \A s \in Replica \ {r} : outbox'[s] = outbox[s]
    BY <2>1 DEF IndInv, Typed
  <2>5. phase'[r] # "idle" /\ \A s \in Replica \ {r} : phase'[s] = phase[s]
    BY <2>1 DEF IndInv, Typed, TypeOK
  <2> QED
    BY <2>2, <2>3, <2>4, <2>5
<1>4. outbox[r] \in Seq(Sendable)
  BY DEF IndInv, Typed
<1>5. OnlyOne(a)
  BY <1>2, <1>4, NothingBefore
<1> HIDE DEF a
<1>6. k \in Live(r, p)'
  BY <1>1, <1>2 DEF Live, Coordination
<1>7. ASSUME NEW s \in Replica, NEW x \in Ports PROVE Injects(s, x)
  BY <1>2, <1>3, SameInjects, SubsetInjects
<1>8. ASSUME NEW s \in Replica PROVE Sending(s)'
  <2>1. CASE s = r
    <3>1. TakenIn(r)'
      BY <1>3, <1>6 DEF TakenIn
    <3>2. \A i, j \in Coordination(outbox[r])' : i = j
      BY <1>3, <1>5 DEF OnlyOne, Coordination
    <3> QED
      BY <1>2, <1>3, <2>1, <3>1, <3>2 DEF Sending
  <2>2. CASE s # r
    BY <1>3, <2>2, SendingStays DEF RoundInv
  <2> QED
    BY <2>1, <2>2
<1> QED
  BY <1>7, <1>8, AloneMoves DEF RoundInv

LEMMA HandleEOFRound ==
  ASSUME IndInv, RoundInv, NEW r \in Replica, HandleEOF(r)
  PROVE  RoundInv'
<1> DEFINE m == Message(r, "input")
           s == [mem[r] EXCEPT !.initiator = TRUE, !.cached = m.seq]
<1>1. /\ Waiting(r, "input") /\ m.type = "eof" /\ UNCHANGED <<inbox, sent>>
      /\ taken' = [taken EXCEPT ![r]["input"] = @ + 1] /\ Apply(r, m, UpstreamEOFOutcome(s))
      /\ "input" \in Ports
  BY DEF HandleEOF, Accept, Ports
<1>2. r = 0 /\ s \in State /\ s.seen = mem[0].seen
  <2>1. mem[r] \in State /\ inbox[r]["input"] \in Seq(Messages) /\ taken[r]["input"] \in Nat
    BY <1>1 DEF IndInv, Typed, TypeOK
  <2>2. taken[r]["input"] + 1 \in 1 .. Len(inbox[r]["input"])
    BY <1>1, <2>1 DEF Waiting
  <2>3. m \in EOFMessages /\ r = 0
    BY <1>1, <2>2 DEF IndInv, InputOK, Message, BatchMessages
  <2>4. m.seq \in Nat
    BY <2>3 DEF EOFMessages
  <2> QED
    BY <2>1, <2>3, <2>4 DEF State
<1> HIDE DEF m, s
<1>3. OnlyOne(UpstreamEOFOutcome(s).sends)
  BY <1>2, UpstreamEOFSends
<1>4. GoodOutcome(0, s, UpstreamEOFOutcome(s))
  <2>1. mem[0].seen \subseteq {b \in Batch : home[b] = 0}
    BY ReplicaFacts DEF IndInv, SeenIsOwn
  <2> QED
    BY <1>2, <2>1, UpstreamEOFOutcomeOK
<1>5. UpstreamEOFOutcome(s).sends \in Seq(Sendable) /\ UpstreamEOFOutcome(s).end # "idle"
  BY <1>4 DEF GoodOutcome
<1>6. Message(r, "input").type \in {"eof", "token"}
  BY <1>1 DEF m
<1> QED
  BY <1>1, <1>3, <1>5, <1>6, HandleRound

LEMMA HandleTokenRound ==
  ASSUME IndInv, RoundInv, NEW r \in Replica, HandleToken(r)
  PROVE  RoundInv'
<1> DEFINE t == Message(r, "ring")
           o == TokenOutcome(r, mem[r], t)
<1>1. /\ Waiting(r, "ring") /\ t.type = "token" /\ UNCHANGED <<inbox, sent>>
      /\ taken' = [taken EXCEPT ![r]["ring"] = @ + 1] /\ Apply(r, t, o)
      /\ "ring" \in Ports
  BY DEF HandleToken, Accept, Ports
<1>2. mem[r] \in State /\ inbox[r]["ring"] \in Seq(Messages) /\ taken[r]["ring"] \in Nat
  BY <1>1 DEF IndInv, Typed, TypeOK
<1>3. Successor(t.sender) = r /\ TokenOK(t) /\ t \in Tokens
  <2>1. taken[r]["ring"] + 1 \in 1 .. Len(inbox[r]["ring"])
    BY <1>1, <1>2 DEF Waiting
  <2> QED
    BY <2>1 DEF IndInv, RingOK, TokenOK, Message
<1> HIDE DEF t
<1>4. OnlyOne(o.sends)
  BY <1>2, <1>3, TokenSendsOne
<1>5. GoodOutcome(r, mem[r], o)
  <2>1. /\ mem[r].seen \subseteq {b \in Batch : home[b] = r}
        /\ disk[r].seen \subseteq mem[r].seen
    BY DEF IndInv, SeenIsOwn
  <2>2. Saved(r) \subseteq mem[r].seen
    BY <2>1 DEF Saved
  <2> QED
    BY <1>2, <1>3, <2>1, <2>2, TokenOutcomeOK
<1>6. o.sends \in Seq(Sendable) /\ o.end # "idle"
  BY <1>5 DEF GoodOutcome
<1>7. Message(r, "ring").type \in {"eof", "token"}
  BY <1>1 DEF t
<1> QED
  BY <1>1, <1>4, <1>6, <1>7, HandleRound

(* Once everything is accepted, what is left to handle is in its old order. *)
LEMMA FinishRound ==
  ASSUME IndInv, RoundInv, NEW r \in Replica, Checkpoint(r) \/ Complete(r)
  PROVE  RoundInv'
<1>1. /\ AckAll(r) /\ outbox[r] = <<>> /\ outbox' = outbox /\ sent' = sent \ {r}
      /\ phase' = [phase EXCEPT ![r] = "idle"]
  BY DEF Checkpoint, Complete
<1>2. /\ \A p \in Ports : /\ inbox'[r][p] = SubSeq(inbox[r][p], taken[r][p] + 1, Len(inbox[r][p]))
                          /\ taken'[r][p] = 0
      /\ \A s \in Replica \ {r} : inbox'[s] = inbox[s] /\ taken'[s] = taken[s]
  BY <1>1 DEF AckAll, IndInv, Typed, TypeOK
<1>3. \A s \in Replica \ {r} : phase'[s] = phase[s]
  BY <1>1 DEF IndInv, Typed, TypeOK
<1>4. ASSUME NEW p \in Ports PROVE Injects(r, p)
  <2> DEFINE q == inbox[r][p]
             n == taken[r][p]
             u == SubSeq(q, n + 1, Len(q))
             f == [i \in Live(r, p)' |-> n + i]
  <2>1. q \in Seq(Messages) /\ n \in Nat /\ n <= Len(q)
    BY QueueTypes
  <2>2. inbox'[r][p] = u /\ r \notin sent' /\ q = inbox[r][p] /\ n = taken[r][p]
    BY <1>1, <1>2
  <2> HIDE DEF q, n
  <2>3. \A i \in 1 .. Len(u) : n + i \in 1 .. Len(q) /\ n + i > n /\ u[i] = q[n + i]
    BY <2>1, UnhandledIs
  <2> HIDE DEF u
  <2>4. ASSUME NEW i \in Live(r, p)' PROVE i \in Int /\ n + i \in Live(r, p)
    <3>1. i \in 1 .. Len(u) /\ u[i].type \in {"eof", "token"}
      BY <2>2 DEF Live, Coordination
    <3>2. n + i \in 1 .. Len(q) /\ n + i > n /\ q[n + i].type \in {"eof", "token"}
      BY <2>3, <3>1
    <3> QED
      BY <2>2, <3>1, <3>2 DEF Live, Coordination
  <2>5. \A i \in Live(r, p)' : f[i] \in Live(r, p)
    BY <2>4
  <2>6. ASSUME NEW i \in Live(r, p)', NEW j \in Live(r, p)', f[i] = f[j] PROVE i = j
    <3>1. i \in Int /\ j \in Int /\ n \in Int /\ n + i = n + j
      BY <2>1, <2>4, <2>6
    <3> QED
      BY <3>1
  <2> QED
    BY <2>5, <2>6 DEF Injects
<1>5. ASSUME NEW s \in Replica, NEW o \in Ports PROVE Injects(s, o)
  <2>1. CASE s = r
    BY <1>4, <2>1
  <2>2. CASE s # r
    BY <1>1, <1>2, <2>2, SameInjects, SubsetInjects
  <2> QED
    BY <2>1, <2>2
<1>6. ASSUME NEW s \in Replica PROVE Sending(s)'
  <2>1. CASE s = r
    <3>1. Coordination(outbox[r])' = {}
      BY <1>1 DEF Coordination
    <3> QED
      BY <1>1, <2>1, <3>1, SendingNothing
  <2>2. CASE s # r
    BY <1>1, <1>2, <1>3, <2>2, SendingStays DEF RoundInv
  <2> QED
    BY <2>1, <2>2
<1> QED
  BY <1>5, <1>6, AloneMoves DEF RoundInv

(* A crash gives back what was taken in, and loses what was due to it. *)
LEMMA CrashRound ==
  ASSUME IndInv, RoundInv, ~KillAfterSend, NEW r \in Replica, Crash(r)
  PROVE  RoundInv'
<1>1. /\ r \notin sent /\ inbox' = inbox /\ sent' = sent \ {r}
      /\ taken' = [taken EXCEPT ![r] = [p \in Ports |-> 0]]
      /\ outbox' = [outbox EXCEPT ![r] = <<>>] /\ phase' = [phase EXCEPT ![r] = "idle"]
  BY DEF Crash
<1>2. /\ \A s \in Replica \ {r} : taken'[s] = taken[s] /\ phase'[s] = phase[s]
      /\ outbox'[r] = <<>> /\ \A s \in Replica \ {r} : outbox'[s] = outbox[s]
  BY <1>1 DEF IndInv, Typed, TypeOK
<1>3. ASSUME NEW s \in Replica, NEW o \in Ports PROVE Injects(s, o)
  <2>1. Live(s, o)' \subseteq Live(s, o)
    BY <1>1, <1>2 DEF Live, Coordination
  <2> QED
    BY <2>1, SubsetInjects
<1>4. ASSUME NEW s \in Replica PROVE Sending(s)'
  <2>1. CASE s = r
    <3>1. Coordination(outbox[r])' = {}
      BY <1>2 DEF Coordination
    <3> QED
      BY <1>1, <2>1, <3>1, SendingNothing
  <2>2. CASE s # r
    BY <1>1, <1>2, <2>2, SendingStays DEF RoundInv
  <2> QED
    BY <2>1, <2>2
<1> QED
  BY <1>3, <1>4, AloneMoves DEF RoundInv

(* What is left of an outbox, in places of its own. *)
LEMMA ReleasedPlaces ==
  ASSUME NEW r \in Replica, NEW i \in 1 .. Len(outbox[r]), NEW m, Released(r, i, m),
         OnlyOne(outbox[r])
  PROVE  /\ OnlyOne(outbox[r])'
         /\ Coordination(outbox[r])' # {} => Coordination(outbox[r]) # {} /\ i \notin Coordination(outbox[r])
<1> DEFINE n == Len(outbox[r])
           before(j) == IF j < i THEN j ELSE j + 1
<1>1. /\ n \in Nat /\ Len(outbox'[r]) = n - 1 /\ i \in 1 .. n
      /\ \A j \in 1 .. n - 1 : outbox'[r][j] = IF j < i THEN outbox[r][j] ELSE outbox[r][j + 1]
  BY DEF Released
<1>2. ASSUME NEW j \in Coordination(outbox[r])'
      PROVE  j \in Int /\ before(j) \in Coordination(outbox[r]) /\ before(j) # i
  <2>1. j \in 1 .. n - 1 /\ outbox'[r][j].type \in {"eof", "token"}
    BY <1>1, <1>2 DEF Coordination
  <2>2. before(j) \in 1 .. n /\ before(j) # i /\ outbox'[r][j] = outbox[r][before(j)]
    <3>1. CASE j < i
      BY <1>1, <2>1, <3>1
    <3>2. CASE ~(j < i)
      BY <1>1, <2>1, <3>2
    <3> QED
      BY <3>1, <3>2
  <2> QED
    BY <2>1, <2>2 DEF Coordination
<1>3. ASSUME NEW j \in Coordination(outbox[r])', NEW k \in Coordination(outbox[r])' PROVE j = k
  <2>1. before(j) = before(k) /\ j \in Int /\ k \in Int /\ i \in Int
    BY <1>1, <1>2, <1>3 DEF OnlyOne
  <2> QED
    BY <2>1
<1>4. ASSUME NEW j \in Coordination(outbox[r])', i \in Coordination(outbox[r]) PROVE FALSE
  BY <1>2, <1>4 DEF OnlyOne
<1> QED
  BY <1>2, <1>3, <1>4 DEF OnlyOne

(* An EOF or token that leaves takes the place of the one it is due to. *)
LEMMA LeavesAlone ==
  ASSUME IndInv, RoundInv, NEW r \in Replica, TakenIn(r), r \notin sent, sent' = sent \cup {r},
         taken' = taken, NEW u \in Replica, NEW p \in Ports, NEW m \in Messages,
         inbox' = [inbox EXCEPT ![u][p] = Append(@, m)]
  PROVE  Alone' /\ \A s \in Replica \ {r} : ~TakenIn(s)
<1>1. PICK q \in Ports : \E i \in Live(r, q) : i <= taken[r][q]
  BY DEF TakenIn
<1>2. PICK i \in Live(r, q) : i <= taken[r][q]
  BY <1>1
<1>3. \A s \in Replica, o \in Ports : \A j \in Live(s, o) : s = r /\ o = q /\ j <= taken[r][q]
  BY <1>2 DEF RoundInv, Alone
<1>4. /\ inbox'[u][p] = Append(inbox[u][p], m)
      /\ \A s \in Replica, o \in Ports : s # u \/ o # p => inbox'[s][o] = inbox[s][o]
  BY DEF IndInv, Typed, TypeOK
<1> DEFINE l == Len(inbox[u][p])
<1>5. /\ inbox[u][p] \in Seq(Messages) /\ l \in Nat /\ Len(inbox'[u][p]) = l + 1
      /\ \A j \in 1 .. l : inbox'[u][p][j] = inbox[u][p][j]
  BY <1>4, QueueTypes, AppendProperties
<1> HIDE DEF l
(* What is live of the old messages. *)
<1>6. ASSUME NEW s \in Replica, NEW o \in Ports, NEW j \in Coordination(inbox[s][o]),
             s \in sent' => j > taken[s][o]
      PROVE  FALSE
  <2>1. j \in Live(s, o)
    BY <1>6 DEF Live
  <2>2. s = r /\ o = q /\ j <= taken[r][q]
    BY <1>3, <2>1
  <2>3. j \in Nat /\ taken[r][q] \in Nat
    BY <2>2, QueueTypes DEF Coordination
  <2> QED
    BY <1>6, <2>2, <2>3
<1>7. ASSUME NEW s \in Replica, NEW o \in Ports, NEW j \in Live(s, o)'
      PROVE  s = u /\ o = p /\ j = l + 1
  <2>1. j \in Coordination(inbox'[s][o]) /\ (s \in sent' => j > taken[s][o])
    BY <1>7 DEF Live, Coordination
  <2>2. CASE s # u \/ o # p
    BY <1>4, <1>6, <2>1, <2>2
  <2>3. CASE s = u /\ o = p
    <3>1. j \in 1 .. l + 1 /\ inbox'[u][p][j].type \in {"eof", "token"}
      BY <1>5, <2>1, <2>3 DEF Coordination
    <3>2. CASE j \in 1 .. l
      <4>1. j \in Coordination(inbox[u][p])
        BY <1>5, <3>1, <3>2 DEF Coordination, l
      <4> QED
        BY <1>6, <2>1, <2>3, <4>1
    <3> QED
      BY <1>5, <2>3, <3>1, <3>2
  <2> QED
    BY <2>2, <2>3
<1>8. Alone'
  BY <1>7 DEF Alone
<1>9. ASSUME NEW s \in Replica \ {r}, TakenIn(s) PROVE FALSE
  BY <1>3, <1>9 DEF TakenIn
<1> QED
  BY <1>8, <1>9

LEMMA PublishRound ==
  ASSUME IndInv, RoundInv, NEW r \in Replica, NEW i \in 1 .. Len(outbox[r]), Publish(r, i)
  PROVE  RoundInv'
<1>1. PICK m : Released(r, i, m)
  BY PublishReleases
<1>2. /\ m = outbox[r][i] /\ \A s \in Replica \ {r} : outbox'[s] = outbox[s]
      /\ \/ m.type = "token" /\ m \in Tokens
         \/ m.type = "eof" /\ m \in EOFMessages
         \/ m.type \in {"data", "result", "outeof"} /\ m \in Outputs
  BY <1>1 DEF Released
<1>3. UNCHANGED <<taken, phase>>
  BY DEF Publish
<1>4. /\ OnlyOne(outbox[r])'
      /\ Coordination(outbox[r])' # {} => Coordination(outbox[r]) # {} /\ i \notin Coordination(outbox[r])
  <2>1. OnlyOne(outbox[r])
    BY DEF RoundInv, Sending, OnlyOne
  <2> QED
    BY <1>1, <2>1, ReleasedPlaces
<1>5. CASE m.type \notin {"eof", "token"}
  <2>1. inbox' = inbox /\ sent' = sent
    BY <1>2, <1>5 DEF Publish, Target
  <2>2. ASSUME NEW s \in Replica, NEW o \in Ports PROVE Injects(s, o)
    BY <1>3, <2>1, SameInjects, SubsetInjects
  <2>3. ASSUME NEW s \in Replica PROVE Sending(s)'
    <3>1. CASE s = r
      <4>1. TakenIn(r)' <=> TakenIn(r)
        BY <1>3, <2>1 DEF TakenIn, Live, Coordination
      <4>2. Sending(r)
        BY DEF RoundInv
      <4>3. \A j, k \in Coordination(outbox[r])' : j = k
        BY <1>4 DEF OnlyOne
      <4> QED
        BY <1>3, <1>4, <2>1, <3>1, <4>1, <4>2, <4>3 DEF Sending
    <3>2. CASE s # r
      BY <1>2, <1>3, <2>1, <3>2, SendingStays DEF RoundInv
    <3> QED
      BY <3>1, <3>2
  <2> QED
    BY <2>2, <2>3, AloneMoves DEF RoundInv
<1>6. ASSUME m.type \in {"eof", "token"}, NEW u \in Replica, NEW p \in Ports,
             inbox' = [inbox EXCEPT ![u][p] = Append(@, m)]
      PROVE  RoundInv'
  <2>1. i \in Coordination(outbox[r])
    BY <1>2, <1>6 DEF Coordination
  <2>2. r \notin sent /\ phase[r] # "idle" /\ TakenIn(r) /\ Coordination(outbox[r])' = {}
    BY <1>4, <2>1 DEF RoundInv, Sending
  <2>3. sent' = sent \cup {r}
    BY <1>2, <1>6 DEF Publish, Target
  <2>4. m \in Messages
    BY <1>2, <1>6 DEF Tokens, EOFMessages, Messages
  <2>5. Alone' /\ \A s \in Replica \ {r} : ~TakenIn(s)
    BY <1>3, <1>6, <2>2, <2>3, <2>4, LeavesAlone
  <2>6. ASSUME NEW s \in Replica PROVE Sending(s)'
    <3>1. CASE s = r
      BY <1>3, <2>2, <3>1, SendingNothing
    <3>2. CASE s # r
      <4>1. Sending(s) /\ ~TakenIn(s)
        BY <2>5, <3>2 DEF RoundInv
      <4>2. Coordination(outbox[s])' = {}
        BY <1>2, <3>2, <4>1 DEF Sending, Coordination
      <4>3. s \in sent' => phase'[s] # "idle"
        BY <1>3, <2>3, <3>2, <4>1 DEF Sending
      <4> QED
        BY <4>2, <4>3, SendingNothing
    <3> QED
      BY <3>1, <3>2
  <2> QED
    BY <2>5, <2>6 DEF RoundInv
<1>7. CASE m.type = "token"
  <2>1. Successor(r) \in Replica
    BY SuccessorIs, ReplicaFacts DEF Replica
  <2>2. inbox' = [inbox EXCEPT ![Successor(r)]["ring"] = Append(@, m)]
    BY <1>2, <1>7 DEF Publish, Target
  <2> QED
    BY <1>6, <1>7, <2>1, <2>2 DEF Ports
<1>8. CASE m.type = "eof"
  <2>1. inbox' = [inbox EXCEPT ![r]["input"] = Append(@, m)]
    BY <1>2, <1>8 DEF Publish, Target
  <2> QED
    BY <1>6, <1>8, <2>1 DEF Ports
<1> QED
  BY <1>5, <1>7, <1>8

LEMMA NextRound ==
  ASSUME IndInv, RoundInv, ~KillAfterSend, MaxRedeliveries = 0, [Next]_vars
  PROVE  RoundInv'
<1>1. CASE Next
  <2>1. PICK r \in Replica : \/ ConsumeInput(r) \/ ConsumeRing(r) \/ Finish(r) \/ Crash(r)
                             \/ \E m \in Arriving(r) : Redeliver(r, m)
    BY <1>1 DEF Next
  <2>2. CASE ConsumeInput(r)
    BY <2>2, DiscardRound, HandleBatchRound, HandleEOFRound DEF ConsumeInput, Ports
  <2>3. CASE ConsumeRing(r)
    BY <2>3, DiscardRound, HandleTokenRound DEF ConsumeRing, Ports
  <2>4. CASE Finish(r)
    BY <2>4, PublishRound, FinishRound DEF Finish
  <2>5. CASE Crash(r)
    BY <2>5, CrashRound
  <2>6. ~ \E m \in Arriving(r) : Redeliver(r, m)
    BY DEF Redeliver, IndInv, Typed, TypeOK
  <2> QED
    BY <2>1, <2>2, <2>3, <2>4, <2>5, <2>6
<1>2. CASE UNCHANGED vars
  <2>1. UNCHANGED <<inbox, taken, outbox, sent, phase>>
    BY <1>2 DEF vars
  <2>2. ASSUME NEW s \in Replica, NEW o \in Ports PROVE Injects(s, o)
    BY <2>1, SameInjects, SubsetInjects
  <2>3. ASSUME NEW s \in Replica PROVE Sending(s)'
    BY <2>1, SendingStays DEF RoundInv
  <2> QED
    BY <2>2, <2>3, AloneMoves DEF RoundInv
<1> QED
  BY <1>1, <1>2

LEMMA InitRound == Init => RoundInv
<1> SUFFICES ASSUME Init PROVE RoundInv
  OBVIOUS
<1>1. ASSUME NEW r \in Replica, NEW p \in Ports, NEW i \in Live(r, p)
      PROVE  r = 0 /\ p = "input" /\ i \in 1 .. Len(inbox[0]["input"]) /\ inbox[0]["input"][i] = EOFMsg(1)
  <2>1. i \in 1 .. Len(inbox[r][p]) /\ inbox[r][p][i].type \in {"eof", "token"}
    BY <1>1 DEF Live, Coordination
  <2>2. p = "input"
    BY <2>1 DEF Init, Ports
  <2>3. inbox[r]["input"] \in Seq(Arriving(r))
    BY ArrivingFacts, OrderOfSet DEF Init
  <2>4. inbox[r]["input"][i] \in Arriving(r)
    BY <2>1, <2>2, <2>3, ElementOfSeq
  <2>5. r = 0 /\ inbox[r]["input"][i] = EOFMsg(1)
    BY <2>1, <2>2, <2>4, ArrivingFacts DEF BatchMessages
  <2> QED
    BY <2>1, <2>2, <2>5
<1>2. \A i, j \in 1 .. Len(inbox[0]["input"]) : inbox[0]["input"][i] = inbox[0]["input"][j] => i = j
  <2>1. inbox[0]["input"] \in SetToSeqs(Arriving(0)) /\ IsFiniteSet(Arriving(0))
    BY ReplicaFacts, ArrivingFacts DEF Init
  <2> QED
    BY <2>1, OrderOfSet
<1>3. Alone
  BY <1>1, <1>2 DEF Alone
<1>4. ASSUME NEW r \in Replica PROVE Sending(r)
  <2>1. Coordination(outbox[r]) = {} /\ r \notin sent
    BY DEF Init, Coordination
  <2> QED
    BY <2>1 DEF Sending
<1> QED
  BY <1>3, <1>4 DEF RoundInv

(* As long as upstream repeats nothing and no crash catches a replica        *)
(* between a token and its checkpoint, an EOF or a token of the client is in *)
(* one place of the ring, however often replicas crash, so that no two sums  *)
(* are compared with the same ring state (OnUpstreamEOF and OnRingToken,     *)
(* ring.go:43-134).                                                          *)
THEOREM OneRoundAtATime ==
  ASSUME ~KillAfterSend, MaxRedeliveries = 0
  PROVE  Spec => []OneRound
<1>1. Init => IndInv /\ RoundInv
  BY InitInd, InitRound
<1>2. IndInv /\ RoundInv /\ [Next]_vars => (IndInv /\ RoundInv)'
  BY NextInd, NextRound
<1>3. IndInv /\ RoundInv => OneRound
  BY RoundSuffices
<1> QED
  BY <1>1, <1>2, <1>3, PTL DEF Spec
=============================================================================
