---------------------------- MODULE FilterQ3Proofs ----------------------------
(* Theorems about FilterQ3, for any number of replicas and batches, any      *)
(* threshold, and any number of crashes and repeated messages.               *)
EXTENDS FilterQ3, FiniteSetTheorems, SequenceTheorems, FunctionTheorems, TLAPS

USE ConstantsAssumption

-----------------------------------------------------------------------------
(* Counting *)

(* The elements of a finite set of numbers can be told apart by their place  *)
(* in its order.                                                             *)
LEMMA Ranks ==
  ASSUME NEW S \in SUBSET Int, IsFiniteSet(S)
  PROVE  /\ \A i \in S : Cardinality({j \in S : j <= i}) \in 1 .. Cardinality(S)
         /\ \A i, k \in S : Cardinality({j \in S : j <= i}) = Cardinality({j \in S : j <= k}) => i = k
<1> DEFINE Upto(i) == {j \in S : j <= i}
           c == Cardinality(S)
<1>1. c \in Nat
  BY FS_CardinalityType
<1>2. \A i \in S : Upto(i) \in SUBSET S /\ i \in Upto(i)
  OBVIOUS
<1>3. ASSUME NEW i \in S
      PROVE  IsFiniteSet(Upto(i)) /\ Cardinality(Upto(i)) \in 1 .. c
  <2> HIDE DEF Upto, c
  <2>1. IsFiniteSet(Upto(i)) /\ Cardinality(Upto(i)) <= Cardinality(S)
    BY <1>2, FS_Subset
  <2>2. Cardinality(Upto(i)) \in Nat /\ Cardinality(Upto(i)) # 0
    BY <1>2, <2>1, FS_CardinalityType, FS_EmptySet
  <2> QED
    BY <1>1, <2>1, <2>2 DEF c
<1>4. ASSUME NEW i \in S, NEW k \in S, i < k
      PROVE  Cardinality(Upto(i)) # Cardinality(Upto(k))
  <2>1. Upto(i) \in SUBSET Upto(k) /\ k \in Upto(k) /\ k \notin Upto(i)
    <3>1. i \in Int /\ k \in Int /\ k <= k /\ ~(k <= i)
      BY <1>4
    <3>2. \A j \in S : j <= i => j <= k
      BY <1>4
    <3> QED
      BY <3>1, <3>2
  <2> HIDE DEF Upto
  <2>2. Upto(i) # Upto(k)
    BY <2>1
  <2> QED
    BY <1>3, <2>1, <2>2, FS_Subset
<1> HIDE DEF Upto, c
<1>5. \A i, k \in S : i < k \/ k < i \/ i = k
  OBVIOUS
<1>6. \A i, k \in S : Cardinality(Upto(i)) = Cardinality(Upto(k)) => i = k
  BY <1>4, <1>5
<1> QED
  BY <1>3, <1>6 DEF Upto, c

(* Every place is taken. *)
LEMMA NthIs ==
  ASSUME NEW S \in SUBSET Int, IsFiniteSet(S), NEW n \in 1 .. Cardinality(S)
  PROVE  Nth(S, n) \in S
<1> DEFINE Upto(i) == {j \in S : j <= i}
           rank == [i \in S |-> Cardinality(Upto(i))]
           c == Cardinality(S)
<1>1. c \in Nat
  BY FS_CardinalityType
<1>2. /\ \A i \in S : Cardinality(Upto(i)) \in 1 .. c
      /\ \A i, k \in S : Cardinality(Upto(i)) = Cardinality(Upto(k)) => i = k
  BY Ranks
<1> HIDE DEF Upto
<1>3. rank \in Injection(S, 1 .. c)
  <2>1. rank \in [S -> 1 .. c]
    BY <1>2
  <2>2. \A i, k \in S : rank[i] = rank[k] => i = k
    BY <1>2
  <2> HIDE DEF rank
  <2> QED
    BY <2>1, <2>2 DEF Injection, IsInjective
<1>4. IsFiniteSet(1 .. c) /\ Cardinality(1 .. c) = c
  BY <1>1, FS_Interval
<1>5. rank \in Surjection(S, 1 .. c)
  BY <1>3, <1>4, FS_Injection
<1>6. PICK i \in S : rank[i] = n
  BY <1>5 DEF Surjection
<1>7. \E j \in S : Cardinality({k \in S : k <= j}) = n
  BY <1>6 DEF Upto
<1> QED
  BY <1>7 DEF Nth

(* A sequence without repetitions whose first k elements are in a set and    *)
(* whose others are not adds as many as there are others.                    *)
LEMMA CardinalityWithRest ==
  ASSUME NEW S, IsFiniteSet(S), NEW T, NEW f \in Seq(T), NEW k \in Nat, k <= Len(f),
         \A i, j \in 1 .. Len(f) : f[i] = f[j] => i = j,
         \A i \in 1 .. Len(f) : (i <= k => f[i] \in S) /\ (i > k => f[i] \notin S)
  PROVE  Cardinality(S \cup ToSet(f)) = Cardinality(S) + (Len(f) - k)
<1> DEFINE n == Len(f)
           R == {f[i] : i \in k + 1 .. n}
           g == [i \in k + 1 .. n |-> f[i]]
<1>1. n \in Nat
  BY LenProperties
<1>2. \A i \in k + 1 .. n : i \in 1 .. n /\ i > k
  BY <1>1
<1>3. S \cup ToSet(f) = S \cup R
  <2>1. ToSet(f) = {f[i] : i \in 1 .. n}
    BY DEF ToSet
  <2>2. \A i \in 1 .. n : i <= k \/ i \in k + 1 .. n
    BY <1>1
  <2> HIDE DEF n
  <2>3. \A i \in 1 .. n : i <= k => f[i] \in S
    BY DEF n
  <2> QED
    BY <1>2, <2>1, <2>2, <2>3
<1>4. S \cap R = {}
  BY <1>2
<1>5. g \in Bijection(k + 1 .. n, R)
  <2>1. g \in [k + 1 .. n -> R] /\ \A y \in R : \E i \in k + 1 .. n : g[i] = y
    OBVIOUS
  <2>2. \A i, j \in k + 1 .. n : g[i] = g[j] => i = j
    BY <1>2
  <2> HIDE DEF g, R, n
  <2> QED
    BY <2>1, <2>2 DEF Bijection, Injection, Surjection, IsInjective
<1>6. IsFiniteSet(k + 1 .. n) /\ Cardinality(k + 1 .. n) = n - k
  <2>1. k + 1 \in Int /\ n \in Int
    BY <1>1
  <2>2. IsFiniteSet(k + 1 .. n) /\ Cardinality(k + 1 .. n) = IF k + 1 > n THEN 0 ELSE n - (k + 1) + 1
    BY <2>1, FS_Interval
  <2> QED
    BY <1>1, <2>2
<1> HIDE DEF g, R
<1>7. IsFiniteSet(R) /\ Cardinality(R) = n - k
  BY <1>5, <1>6, FS_Bijection DEF ExistsBijection
<1>8. Cardinality(S \cup R) = Cardinality(S) + Cardinality(R) - Cardinality({})
  BY <1>4, <1>7, FS_Union
<1>9. Cardinality({}) = 0 /\ Cardinality(S) \in Nat /\ Cardinality(R) \in Nat
  BY <1>7, FS_EmptySet, FS_CardinalityType
<1> HIDE DEF n
<1>10. Cardinality(S \cup R) = Cardinality(S) + (n - k)
  BY <1>1, <1>7, <1>8, <1>9
<1> QED
  BY <1>3, <1>10 DEF n

-----------------------------------------------------------------------------
(* The invariant *)

Sendable == Coordination \cup Outputs \cup {Removal}

(* A round that waits for its token has the EOF that a retry needs. *)
Ready(s) == s.initiator => s.cached # NoEOF

(* A kill never falls between the file and its first checkpoint, nor between *)
(* the drain and the end; the counts and the file are spoken of in this case *)
(* only, and the types in every case.                                        *)
Unharmed == Windows \subseteq {"forward"}

(* What CountIsExact says of a state, in memory or saved. *)
Exact(s) == Unharmed => s.p2Seen = Cardinality(s.seen)

NoRemoval(q) == \A i \in 1 .. Len(q) : q[i] # Removal

(* The file f of a replica with state s and saved state d: its first records *)
(* are those the checkpoint counts, the others are of batches that the       *)
(* checkpoint does not know, and no batch has two.                           *)
FileOK(s, d, f) ==
  Unharmed =>
  /\ s.records = Len(f) /\ s.buffered = Len(f) /\ d.buffered <= Len(f)
  /\ \A i \in 1 .. Len(f) : /\ f[i] \in s.seen
                            /\ i <= d.buffered => f[i] \in d.seen
                            /\ i > d.buffered => f[i] \notin d.seen
  /\ \A i, j \in 1 .. Len(f) : f[i] = f[j] => i = j

ReplicaOK(r) ==
  /\ Exact(mem[r]) /\ Exact(disk[r].state)
  /\ Ready(disk[r].state) /\ (phase[r] # "complete" => Ready(mem[r]))
  /\ ~disk[r].exists => disk[r].state = Fresh
  /\ disk[r].state.seen \subseteq mem[r].seen
  /\ NoRemoval(outbox[r]) \/ (phase[r] = "complete" /\ mem[r].records > 0)
  /\ r \in tomb => pending[r] = {} /\ phase[r] = "idle"
  /\ r \in tomb \/ AfterDrain(r) \/ FileOK(mem[r], disk[r].state, file[r])

IndInv == TypeOK /\ \A r \in Replica : ReplicaOK(r)

(* A step of one replica leaves what is said of the others as it was. *)
LEMMA OthersStay ==
  ASSUME IndInv, NEW r \in Replica, TypeOK', ReplicaOK(r)',
         \A q \in Replica \ {r} :
           /\ mem'[q] = mem[q] /\ disk'[q] = disk[q] /\ file'[q] = file[q]
           /\ outbox'[q] = outbox[q] /\ phase'[q] = phase[q] /\ pending'[q] = pending[q]
           /\ q \in tomb' <=> q \in tomb
  PROVE  IndInv'
<1>1. ASSUME NEW q \in Replica \ {r} PROVE ReplicaOK(q)'
  <2>1. ReplicaOK(q)
    BY DEF IndInv
  <2> QED
    BY <2>1 DEF ReplicaOK, AfterDrain
<1> QED
  BY <1>1 DEF IndInv

LEMMA FreshOK == Fresh \in State /\ Exact(Fresh) /\ Ready(Fresh) /\ Fresh.buffered = 0 /\ Fresh.seen = {} /\ Fresh.records = 0
<1>1. Cardinality({}) = 0
  BY FS_EmptySet
<1> QED
  BY <1>1 DEF Fresh, State, Sender, Exact, Ready, NoEOF

LEMMA EmptyFileOK ==
  ASSUME NEW s, s.records = 0, s.buffered = 0, NEW d, d.buffered = 0
  PROVE  FileOK(s, d, <<>>)
  BY DEF FileOK

-----------------------------------------------------------------------------
(* What a coordination message leads to *)

SameCounts(s, t) ==
  t.seen = s.seen /\ t.p2Seen = s.p2Seen /\ t.buffered = s.buffered /\ t.records = s.records

GoodOutcome(s, o) ==
  /\ o.state \in State /\ SameCounts(s, o.state)
  /\ o.sends \in Seq(Sendable)
  /\ o.end \in {"checkpoint", "forward", "complete"}
  /\ o.end # "complete" => Ready(o.state)
  /\ NoRemoval(o.sends) \/ (o.end = "complete" /\ s.records > 0)

LEMMA GoodParts ==
  ASSUME NEW s, NEW t \in State, SameCounts(s, t), NEW sends \in Seq(Sendable),
         NEW end \in {"checkpoint", "forward", "complete"},
         end # "complete" => Ready(t),
         NoRemoval(sends) \/ (end = "complete" /\ s.records > 0)
  PROVE  GoodOutcome(s, Outcome(t, sends, end))
  BY DEF GoodOutcome, Outcome

(* The counts are kept by whatever does not touch them. *)
LEMMA GoodFor ==
  ASSUME NEW s, NEW t, SameCounts(s, t), NEW o, GoodOutcome(t, o)
  PROVE  GoodOutcome(s, o)
  BY DEF GoodOutcome, SameCounts

LEMMA NothingSent == <<>> \in Seq(Sendable) /\ NoRemoval(<<>>)
  BY DEF NoRemoval

LEMMA OneSent ==
  ASSUME NEW m \in Coordination \cup Outputs
  PROVE  <<m>> \in Seq(Sendable) /\ NoRemoval(<<m>>) /\ Len(<<m>>) = 1
<1>1. m \in Sendable /\ m # Removal
  BY DEF Sendable, Coordination, EOFs, Tokens, Outputs, Removal
<1> HIDE DEF Sendable
<1> QED
  BY <1>1 DEF NoRemoval

LEMMA TokenIs ==
  ASSUME NEW r \in Replica, NEW n \in Nat, NEW agg \in Nat, NEW closing \in BOOLEAN
  PROVE  Token(r, n, agg, closing) \in Coordination
  BY DEF Token, Coordination, Tokens

(* What Forward makes of no sum and of one sum. *)
LEMMA ForwardOK ==
  ASSUME NEW r \in Replica, NEW n \in Nat, NEW sums \in Seq(Nat), NEW closing \in BOOLEAN
  PROVE  /\ Forward(r, n, sums, closing) \in Seq(Sendable)
         /\ NoRemoval(Forward(r, n, sums, closing))
<1> DEFINE q == Forward(r, n, sums, closing)
<1>1. Len(sums) \in Nat
  BY LenProperties
<1>2. \A i \in 1 .. Len(sums) : sums[i] \in Nat
  BY ElementOfSeq
<1>3. \A i \in 1 .. Len(sums) : /\ Token(r, n + i, sums[i], closing) \in Sendable
                                /\ Token(r, n + i, sums[i], closing) # Removal
  <2> SUFFICES ASSUME NEW i \in 1 .. Len(sums)
               PROVE  /\ Token(r, n + i, sums[i], closing) \in Sendable
                      /\ Token(r, n + i, sums[i], closing) # Removal
    OBVIOUS
  <2>1. n + i \in Nat /\ sums[i] \in Nat
    BY <1>1, <1>2
  <2>2. Token(r, n + i, sums[i], closing) \in Coordination
    BY <2>1, TokenIs
  <2>3. Token(r, n + i, sums[i], closing).type # Removal.type
    BY DEF Token, Removal
  <2> QED
    BY <2>2, <2>3 DEF Sendable
<1>4. q \in [1 .. Len(sums) -> Sendable]
  BY <1>3 DEF Forward
<1>5. q \in Seq(Sendable) /\ Len(q) = Len(sums)
  BY <1>1, <1>4
<1>6. NoRemoval(q)
  BY <1>3, <1>5 DEF NoRemoval, Forward
<1> QED
  BY <1>5, <1>6

LEMMA BothNoRemoval ==
  ASSUME NEW p \in Seq(Sendable), NEW q \in Seq(Sendable), NoRemoval(p), NoRemoval(q)
  PROVE  NoRemoval(p \o q)
<1>1. Len(p) \in Nat /\ Len(q) \in Nat
  BY LenProperties
<1>2. /\ Len(p \o q) = Len(p) + Len(q)
      /\ \A i \in 1 .. Len(p) + Len(q) : (p \o q)[i] = IF i <= Len(p) THEN p[i] ELSE q[i - Len(p)]
  BY ConcatProperties
<1> DEFINE a == p \o q
<1> HIDE DEF a
<1>3. ASSUME NEW i \in 1 .. Len(a) PROVE a[i] # Removal
  <2>1. CASE i <= Len(p)
    <3>1. i \in 1 .. Len(p) /\ a[i] = p[i]
      BY <1>1, <1>2, <1>3, <2>1 DEF a
    <3> QED
      BY <3>1 DEF NoRemoval
  <2>2. CASE ~(i <= Len(p))
    <3>1. i - Len(p) \in 1 .. Len(q) /\ a[i] = q[i - Len(p)]
      BY <1>1, <1>2, <1>3, <2>2 DEF a
    <3> QED
      BY <3>1 DEF NoRemoval
  <2> QED
    BY <2>1, <2>2
<1> QED
  BY <1>3 DEF NoRemoval, a

LEMMA SendableRow ==
  ASSUME NEW r \in Replica, NEW n \in Nat, NEW b \in Batch
  PROVE  Row(r, n, b) \in Sendable
  BY DEF Row, Sendable, Outputs

LEMMA PassingIs ==
  ASSUME NEW s \in State, NEW f \in Seq(Batch)
  PROVE  /\ PassingRecords(s, f) \in SUBSET (1 .. Len(f)) /\ IsFiniteSet(PassingRecords(s, f))
         /\ CountRows(s, f) \in Nat
<1>1. PassingRecords(s, f) \in SUBSET (1 .. Len(f))
  BY DEF PassingRecords
<1>2. IsFiniteSet(1 .. Len(f))
  BY LenProperties, FS_Interval
<1>3. IsFiniteSet(PassingRecords(s, f))
  BY <1>1, <1>2, FS_Subset
<1> QED
  BY <1>1, <1>3, FS_CardinalityType DEF CountRows

(* A drain publishes rows of batches, and removes the file if it is not      *)
(* empty.                                                                    *)
LEMMA DrainOK ==
  ASSUME NEW r \in Replica, NEW s \in State, NEW f \in Seq(Batch)
  PROVE  /\ Drain(r, s, f) \in Seq(Sendable)
         /\ s.records = 0 => Drain(r, s, f) = <<>>
<1> DEFINE n == CountRows(s, f)
           rows == [i \in 1 .. n |-> Row(r, s.outSeq + i, f[Nth(PassingRecords(s, f), i)])]
<1>1. n \in Nat
  BY PassingIs
<1>2. \A i \in 1 .. n : Row(r, s.outSeq + i, f[Nth(PassingRecords(s, f), i)]) \in Sendable
  <2> SUFFICES ASSUME NEW i \in 1 .. n
               PROVE  Row(r, s.outSeq + i, f[Nth(PassingRecords(s, f), i)]) \in Sendable
    OBVIOUS
  <2>1. PassingRecords(s, f) \in SUBSET Int /\ IsFiniteSet(PassingRecords(s, f))
    BY PassingIs
  <2>2. i \in 1 .. Cardinality(PassingRecords(s, f))
    BY DEF CountRows
  <2>3. Nth(PassingRecords(s, f), i) \in PassingRecords(s, f)
    BY <2>1, <2>2, NthIs
  <2>4. f[Nth(PassingRecords(s, f), i)] \in Batch
    BY <2>3, PassingIs, ElementOfSeq
  <2>5. s.outSeq + i \in Nat
    BY <1>1 DEF State
  <2> QED
    BY <2>4, <2>5, SendableRow
<1> HIDE DEF n
<1>3. rows \in Seq(Sendable)
  <2>1. rows \in [1 .. n -> Sendable]
    BY <1>2
  <2> HIDE DEF rows
  <2> QED
    BY <1>1, <2>1
<1>4. Removal \in Sendable
  BY DEF Sendable
<1>5. Drain(r, s, f) \in {<<>>, <<Removal>>, InsertAt(rows, Len(rows), Removal)}
  BY DEF Drain, n
<1>6. Drain(r, s, f) = InsertAt(rows, Len(rows), Removal) => rows # <<>> \/ Drain(r, s, f) \in {<<>>, <<Removal>>}
  BY DEF Drain, n
<1>7. s.records = 0 => Drain(r, s, f) = <<>>
  BY DEF Drain
<1> HIDE DEF rows
<1>8. CASE rows # <<>>
  <2> DEFINE k == Len(rows)
             left == SubSeq(rows, 1, k - 1)
             right == SubSeq(rows, k, k)
  <2>1. k \in Nat /\ k # 0
    BY <1>3, <1>8, LenProperties, EmptySeq
  <2>2. left \in Seq(Sendable) /\ right \in Seq(Sendable)
    <3>1. \A i \in 1 .. k : rows[i] \in Sendable
      BY <1>3, ElementOfSeq
    <3> HIDE DEF k
    <3>2. \A i \in 1 .. k - 1 : rows[i] \in Sendable
      BY <2>1, <3>1
    <3>3. \A i \in k .. k : rows[i] \in Sendable
      BY <2>1, <3>1
    <3> QED
      BY <1>3, <2>1, <3>2, <3>3, SubSeqProperties DEF k
  <2>3. <<Removal>> \in Seq(Sendable)
    BY <1>4
  <2>4. InsertAt(rows, k, Removal) = left \o <<Removal>> \o right
    BY DEF InsertAt
  <2> HIDE DEF left, right
  <2>5. InsertAt(rows, k, Removal) \in Seq(Sendable)
    BY <2>2, <2>3, <2>4, ConcatProperties
  <2> QED
    BY <1>4, <1>5, <1>7, <2>3, <2>5, NothingSent
<1>9. CASE rows = <<>>
  <2>1. Drain(r, s, f) = <<>> \/ Drain(r, s, f) = <<Removal>>
    BY <1>5, <1>6, <1>9
  <2>2. <<Removal>> \in Seq(Sendable)
    BY <1>4
  <2> QED
    BY <1>7, <2>1, <2>2, NothingSent
<1> QED
  BY <1>8, <1>9

LEMMA RowsIs == \A q \in Seq(Sendable) : Rows(q) \in Nat
<1> SUFFICES ASSUME NEW q \in Seq(Sendable) PROVE Rows(q) \in Nat
  OBVIOUS
<1> DEFINE S == {i \in 1 .. Len(q) : q[i].type = "row"}
<1>1. S \in SUBSET (1 .. Len(q)) /\ IsFiniteSet(1 .. Len(q))
  BY LenProperties, FS_Interval
<1>2. IsFiniteSet(S)
  BY <1>1, FS_Subset
<1> QED
  BY <1>2, FS_CardinalityType DEF Rows

(* The state after a message has its EOF out of the slot, and a new number.  *)
LEMMA NewNumber ==
  ASSUME NEW s \in State, NEW n \in Nat
  PROVE  /\ [s EXCEPT !.outSeq = n] \in State
         /\ SameCounts(s, [s EXCEPT !.outSeq = n])
         /\ Ready(s) => Ready([s EXCEPT !.outSeq = n])
         /\ [s EXCEPT !.outSeq = n, !.cached = NoEOF] \in State
         /\ SameCounts(s, [s EXCEPT !.outSeq = n, !.cached = NoEOF])
  BY DEF State, SameCounts, Ready

LEMMA FinalizeOK ==
  ASSUME NEW r \in Replica, NEW s \in State, NEW f \in Seq(Batch), NEW sums \in Seq(Nat)
  PROVE  GoodOutcome(s, FinalizeAndEmit(r, s, f, sums))
<1> DEFINE drain == Drain(r, s, f)
           n == s.outSeq + Rows(drain) + 1
           t == [s EXCEPT !.outSeq = n + Len(sums), !.cached = NoEOF]
           eof == OutEOF(r, n, CountRows(s, f))
           rest == Forward(r, n, sums, TRUE)
           sends == drain \o <<eof>> \o rest
<1>1. drain \in Seq(Sendable) /\ (s.records = 0 => drain = <<>>)
  BY DrainOK
<1>2. Rows(drain) \in Nat /\ Len(sums) \in Nat /\ s.outSeq \in Nat
  BY <1>1, RowsIs, LenProperties DEF State
<1>3. FinalizeAndEmit(r, s, f, sums) = Outcome(t, sends, "complete")
  BY DEF FinalizeAndEmit
<1> HIDE DEF drain
<1>4. n \in Nat /\ n + Len(sums) \in Nat
  BY <1>2
<1> HIDE DEF n
<1>5. t \in State /\ SameCounts(s, t)
  BY <1>4, NewNumber
<1> HIDE DEF t
<1>6. eof \in Outputs
  BY <1>4, PassingIs DEF OutEOF, Outputs
<1> HIDE DEF eof
<1>7. <<eof>> \in Seq(Sendable) /\ NoRemoval(<<eof>>)
  BY <1>6, OneSent
<1>8. rest \in Seq(Sendable) /\ NoRemoval(rest)
  BY <1>4, ForwardOK
<1> HIDE DEF rest
<1>9. sends \in Seq(Sendable)
  BY <1>1, <1>7, <1>8, ConcatProperties
<1>10. CASE s.records = 0
  <2>1. sends = <<eof>> \o rest
    <3>1. <<>> \o <<eof>> = <<eof>>
      BY <1>7, ConcatEmptySeq
    <3> QED
      BY <1>1, <1>10, <3>1
  <2>2. NoRemoval(sends)
    BY <1>7, <1>8, <2>1, BothNoRemoval
  <2> HIDE DEF sends
  <2> QED
    BY <1>3, <1>5, <1>9, <2>2, GoodParts
<1>11. CASE s.records # 0
  <2>1. s.records > 0
    BY <1>11 DEF State
  <2> HIDE DEF sends
  <2> QED
    BY <1>3, <1>5, <1>9, <2>1, GoodParts
<1> QED
  BY <1>10, <1>11

LEMMA PTwoEnds ==
  ASSUME NEW s \in State
  PROVE  /\ [s EXCEPT !.p2EOF = TRUE] \in State /\ SameCounts(s, [s EXCEPT !.p2EOF = TRUE])
         /\ Ready(s) => Ready([s EXCEPT !.p2EOF = TRUE])
         /\ [s EXCEPT !.averagesEOF = TRUE] \in State /\ SameCounts(s, [s EXCEPT !.averagesEOF = TRUE])
         /\ Ready(s) => Ready([s EXCEPT !.averagesEOF = TRUE])
  BY DEF State, SameCounts, Ready

LEMMA InitiatorIs ==
  ASSUME NEW s \in State, NEW v \in BOOLEAN
  PROVE  /\ [s EXCEPT !.initiator = v] \in State /\ SameCounts(s, [s EXCEPT !.initiator = v])
         /\ Ready([s EXCEPT !.initiator = FALSE])
         /\ [s EXCEPT !.initiator = FALSE, !.cached = NoEOF] \in State
         /\ SameCounts(s, [s EXCEPT !.initiator = FALSE, !.cached = NoEOF])
         /\ Ready([s EXCEPT !.initiator = FALSE, !.cached = NoEOF])
  BY DEF State, SameCounts, Ready

LEMMA TransactionsEndOK ==
  ASSUME NEW r \in Replica, NEW s \in State, Ready(s), NEW f \in Seq(Batch), NEW sums \in Seq(Nat)
  PROVE  GoodOutcome(s, TransactionsEnd(r, s, f, sums))
<1> DEFINE t == [s EXCEPT !.p2EOF = TRUE]
<1>1. t \in State /\ SameCounts(s, t) /\ Ready(t) /\ t.outSeq \in Nat
  BY PTwoEnds DEF State
<1>2. TransactionsEnd(r, s, f, sums) =
        IF s.averagesEOF THEN FinalizeAndEmit(r, t, f, sums)
        ELSE IF sums = <<>> THEN Outcome(t, <<>>, "checkpoint")
        ELSE Outcome([t EXCEPT !.outSeq = @ + 1], Forward(r, t.outSeq, sums, TRUE), "forward")
  BY DEF TransactionsEnd
<1> HIDE DEF t
<1>3. GoodOutcome(t, FinalizeAndEmit(r, t, f, sums))
  BY <1>1, FinalizeOK
<1>4. GoodOutcome(t, Outcome(t, <<>>, "checkpoint"))
  BY <1>1, NothingSent, GoodParts DEF SameCounts
<1>5. GoodOutcome(t, Outcome([t EXCEPT !.outSeq = @ + 1], Forward(r, t.outSeq, sums, TRUE), "forward"))
  <2> DEFINE n == t.outSeq + 1
             u == [t EXCEPT !.outSeq = n]
             q == Forward(r, t.outSeq, sums, TRUE)
  <2>1. n \in Nat
    BY <1>1
  <2> HIDE DEF n
  <2>2. u \in State /\ SameCounts(t, u) /\ Ready(u)
    BY <1>1, <2>1, NewNumber
  <2>3. q \in Seq(Sendable) /\ NoRemoval(q)
    BY <1>1, ForwardOK
  <2>4. u = [t EXCEPT !.outSeq = @ + 1]
    BY DEF n
  <2> HIDE DEF u, q
  <2>5. GoodOutcome(t, Outcome(u, q, "forward"))
    BY <2>2, <2>3, GoodParts
  <2> QED
    BY <2>4, <2>5 DEF q
<1>6. GoodOutcome(t, TransactionsEnd(r, s, f, sums))
  <2>1. CASE s.averagesEOF
    BY <1>2, <1>3, <2>1
  <2>2. CASE ~s.averagesEOF /\ sums = <<>>
    BY <1>2, <1>4, <2>2
  <2>3. CASE ~s.averagesEOF /\ sums # <<>>
    <3>1. TransactionsEnd(r, s, f, sums) =
            Outcome([t EXCEPT !.outSeq = @ + 1], Forward(r, t.outSeq, sums, TRUE), "forward")
      BY <1>2, <2>3
    <3> QED
      BY <1>5, <3>1
  <2> QED
    BY <2>1, <2>2, <2>3
<1> QED
  BY <1>1, <1>6, GoodFor

LEMMA AveragesEndOK ==
  ASSUME NEW r \in Replica, NEW s \in State, Ready(s), NEW f \in Seq(Batch)
  PROVE  GoodOutcome(s, AveragesEnd(r, s, f))
<1> DEFINE t == [s EXCEPT !.averagesEOF = TRUE]
<1>1. t \in State /\ SameCounts(s, t) /\ Ready(t)
  BY PTwoEnds
<1>2. \/ AveragesEnd(r, s, f) = Outcome(s, <<>>, "checkpoint")
      \/ AveragesEnd(r, s, f) = FinalizeAndEmit(r, t, f, <<>>)
      \/ AveragesEnd(r, s, f) = Outcome(t, <<>>, "checkpoint")
  BY DEF AveragesEnd
<1> HIDE DEF t
<1>3. GoodOutcome(t, FinalizeAndEmit(r, t, f, <<>>))
  BY <1>1, FinalizeOK, EmptySeq
<1>4. GoodOutcome(t, Outcome(t, <<>>, "checkpoint")) /\ GoodOutcome(s, Outcome(s, <<>>, "checkpoint"))
  BY <1>1, NothingSent, GoodParts DEF SameCounts
<1> QED
  BY <1>1, <1>2, <1>3, <1>4, GoodFor

LEMMA RetryOK ==
  ASSUME NEW s \in State, s.cached # NoEOF
  PROVE  Retry(s) \in EOFs
<1>1. s.cached \in EOFs
  BY DEF State
<1>2. s.cached.sender \in Sender /\ s.cached.seq \in Nat
  BY <1>1 DEF EOFs
<1>3. s.coord[s.cached.sender] \in Nat
  BY <1>2 DEF State
<1>4. RetrySeq(s) \in Nat
  BY <1>2, <1>3 DEF RetrySeq
<1> QED
  BY <1>2, <1>4 DEF Retry, EOFMsg, EOFs

(* A token that a handler sends, with a number of its own. *)
LEMMA OneToken ==
  ASSUME NEW s \in State, Ready(s), NEW r \in Replica, NEW agg \in Nat, NEW closing \in BOOLEAN,
         NEW n, n = s.outSeq + 1
  PROVE  GoodOutcome(s, Outcome([s EXCEPT !.outSeq = @ + 1], <<Token(r, n, agg, closing)>>, "forward"))
<1> DEFINE u == [s EXCEPT !.outSeq = n]
           m == Token(r, n, agg, closing)
<1>1. n \in Nat
  BY DEF State
<1>2. u \in State /\ SameCounts(s, u) /\ Ready(u)
  BY <1>1, NewNumber
<1>3. u = [s EXCEPT !.outSeq = @ + 1]
  OBVIOUS
<1>4. m \in Coordination
  BY <1>1, TokenIs
<1> HIDE DEF u, m
<1>5. <<m>> \in Seq(Sendable) /\ NoRemoval(<<m>>)
  BY <1>4, OneSent
<1>6. GoodOutcome(s, Outcome(u, <<m>>, "forward"))
  BY <1>2, <1>5, GoodParts
<1> QED
  BY <1>3, <1>6 DEF m

LEMMA FirstReplica == 0 \in Replica
  BY DEF Replica

LEMMA TryFinalizeOK ==
  ASSUME NEW s \in State, Ready(s), s.initiator, NEW f \in Seq(Batch), NEW agg \in Nat
  PROVE  GoodOutcome(s, TryFinalize(s, f, agg))
<1>1. CASE agg # Total
  <2> DEFINE u == [s EXCEPT !.initiator = FALSE, !.cached = NoEOF]
             m == Retry(s)
  <2>1. u \in State /\ SameCounts(s, u) /\ Ready(u)
    BY InitiatorIs
  <2>2. m \in EOFs
    BY RetryOK DEF Ready
  <2>3. TryFinalize(s, f, agg) = Outcome(u, <<m>>, "forward")
    BY <1>1 DEF TryFinalize
  <2> HIDE DEF u, m
  <2>4. <<m>> \in Seq(Sendable) /\ NoRemoval(<<m>>)
    BY <2>2, OneSent DEF Coordination
  <2> QED
    BY <2>1, <2>3, <2>4, GoodParts
<1>2. CASE agg = Total /\ N > 1
  <2>1. TryFinalize(s, f, agg) = Outcome([s EXCEPT !.outSeq = @ + 1], <<Token(0, s.outSeq + 1, agg, TRUE)>>, "forward")
    BY <1>2 DEF TryFinalize
  <2> QED
    BY <2>1, OneToken, FirstReplica
<1>3. CASE agg = Total /\ ~(N > 1)
  <2> DEFINE u == [s EXCEPT !.initiator = FALSE]
  <2>1. u \in State /\ SameCounts(s, u) /\ Ready(u)
    BY InitiatorIs
  <2>2. TryFinalize(s, f, agg) = TransactionsEnd(0, u, f, <<>>)
    BY <1>3 DEF TryFinalize
  <2> HIDE DEF u
  <2>3. GoodOutcome(u, TransactionsEnd(0, u, f, <<>>))
    BY <2>1, TransactionsEndOK, FirstReplica, EmptySeq
  <2> QED
    BY <2>1, <2>2, <2>3, GoodFor
<1> QED
  BY <1>1, <1>2, <1>3

LEMMA TransactionsEOFOK ==
  ASSUME NEW s \in State, s.cached # NoEOF, NEW f \in Seq(Batch)
  PROVE  GoodOutcome(s, TransactionsEOF(s, f))
<1> DEFINE t == [s EXCEPT !.initiator = TRUE]
<1>1. t \in State /\ SameCounts(s, t)
  BY InitiatorIs
<1>2. Ready(t) /\ t.initiator /\ t.outSeq = s.outSeq /\ s.p2Seen \in Nat
  BY DEF Ready, State
<1>3. TransactionsEOF(s, f) =
        IF N = 1 THEN TryFinalize(t, f, s.p2Seen)
        ELSE Outcome([t EXCEPT !.outSeq = @ + 1], <<Token(0, s.outSeq + 1, s.p2Seen, FALSE)>>, "forward")
  BY DEF TransactionsEOF, TryFinalize
<1> HIDE DEF t
<1>4. GoodOutcome(t, TryFinalize(t, f, s.p2Seen))
  BY <1>1, <1>2, TryFinalizeOK
<1>5. GoodOutcome(t, Outcome([t EXCEPT !.outSeq = @ + 1], <<Token(0, s.outSeq + 1, s.p2Seen, FALSE)>>, "forward"))
  BY <1>1, <1>2, OneToken, FirstReplica
<1> QED
  BY <1>1, <1>3, <1>4, <1>5, GoodFor

LEMMA RingTokenOK ==
  ASSUME NEW r \in Replica, NEW s \in State, Ready(s), NEW f \in Seq(Batch), NEW t \in Tokens
  PROVE  GoodOutcome(s, RingToken(r, s, f, t))
<1>1. t.agg \in Nat /\ t.agg + s.p2Seen \in Nat
  BY DEF Tokens, State
<1>2. CASE r = 0 /\ t.closing
  <2> DEFINE u == [s EXCEPT !.initiator = FALSE]
  <2>1. u \in State /\ SameCounts(s, u) /\ Ready(u)
    BY InitiatorIs
  <2>2. RingToken(r, s, f, t) = TransactionsEnd(0, u, f, <<>>)
    BY <1>2 DEF RingToken
  <2> HIDE DEF u
  <2>3. GoodOutcome(u, TransactionsEnd(0, u, f, <<>>))
    BY <2>1, TransactionsEndOK, FirstReplica, EmptySeq
  <2> QED
    BY <2>1, <2>2, <2>3, GoodFor
<1>3. CASE r = 0 /\ ~t.closing /\ s.initiator
  <2>1. RingToken(r, s, f, t) = TryFinalize(s, f, t.agg)
    BY <1>3 DEF RingToken
  <2> QED
    BY <1>1, <1>3, <2>1, TryFinalizeOK
<1>4. CASE r = 0 /\ ~t.closing /\ ~s.initiator
  <2>1. RingToken(r, s, f, t) = Outcome(s, <<>>, "checkpoint")
    BY <1>4 DEF RingToken
  <2> QED
    BY <2>1, NothingSent, GoodParts DEF SameCounts
<1>5. CASE r # 0 /\ t.closing
  <2>1. RingToken(r, s, f, t) = TransactionsEnd(r, s, f, <<t.agg>>)
    BY <1>5 DEF RingToken
  <2>2. <<t.agg>> \in Seq(Nat)
    BY <1>1
  <2> QED
    BY <2>1, <2>2, TransactionsEndOK
<1>6. CASE r # 0 /\ ~t.closing
  <2>1. RingToken(r, s, f, t) =
          Outcome([s EXCEPT !.outSeq = @ + 1], <<Token(r, s.outSeq + 1, t.agg + s.p2Seen, FALSE)>>, "forward")
    BY <1>6 DEF RingToken
  <2> QED
    BY <1>1, <2>1, OneToken
<1> QED
  BY <1>2, <1>3, <1>4, <1>5, <1>6

-----------------------------------------------------------------------------
(* The steps *)

LEMMA FieldsAre ==
  ASSUME IndInv, NEW r \in Replica
  PROVE  /\ mem[r] \in State /\ disk[r] \in [exists : BOOLEAN, state : State]
         /\ inbox[r] \in SUBSET Messages /\ pending[r] \in SUBSET Messages /\ file[r] \in Seq(Batch)
         /\ outbox[r] \in Seq(Sendable)
         /\ ReplicaOK(r)
  BY DEF IndInv, TypeOK, Sendable

LEMMA ArrivingMessages == \A r \in Replica : Arriving(r) \subseteq Messages
<1>1. \A b \in Batch : BatchMsg(b) \in Messages
  BY DEF BatchMsg, Messages
<1>2. EOFMsg(Aggregator, 1) \in Messages /\ EOFMsg(Transactions, 1) \in Messages
  BY DEF EOFMsg, Messages, Coordination, EOFs, Sender, Aggregator, Transactions
<1>3. Averages \in Messages
  BY DEF Messages
<1> QED
  BY <1>1, <1>2, <1>3 DEF Arriving

LEMMA InitInd == Init => IndInv
<1> SUFFICES ASSUME Init PROVE IndInv
  OBVIOUS
<1>1. NoCheckpoint \in [exists : BOOLEAN, state : State]
  BY FreshOK DEF NoCheckpoint
<1>2. TypeOK
  <2>1. <<>> \in Seq(Batch) /\ <<>> \in Seq(Coordination \cup Outputs \cup {Removal})
    OBVIOUS
  <2> QED
    BY <1>1, <2>1, FreshOK, ArrivingMessages DEF Init, TypeOK
<1>3. ASSUME NEW r \in Replica PROVE ReplicaOK(r)
  <2>1. mem[r] = Fresh /\ disk[r] = NoCheckpoint /\ file[r] = <<>> /\ outbox[r] = <<>> /\ tomb = {}
    BY DEF Init
  <2>2. disk[r].state = Fresh /\ ~disk[r].exists
    BY <2>1 DEF NoCheckpoint
  <2>3. FileOK(mem[r], disk[r].state, file[r])
    BY <2>1, <2>2, FreshOK, EmptyFileOK
  <2> QED
    BY <2>1, <2>2, <2>3, FreshOK, NothingSent DEF ReplicaOK
<1> QED
  BY <1>2, <1>3 DEF IndInv

(* A step that leaves what ReplicaOK speaks of. *)
LEMMA QueuesOnly ==
  ASSUME IndInv, TypeOK', UNCHANGED <<mem, disk, file, outbox, phase, pending, tomb>>
  PROVE  IndInv'
  BY DEF IndInv, ReplicaOK, AfterDrain

LEMMA DiscardInd ==
  ASSUME IndInv, NEW r \in Replica, NEW m, Discard(r, m)
  PROVE  IndInv'
<1>1. TypeOK'
  BY DEF IndInv, TypeOK, Discard
<1> QED
  BY <1>1, QueuesOnly DEF Discard

LEMMA RedeliverInd ==
  ASSUME IndInv, NEW r \in Replica, NEW m, Redeliver(r, m)
  PROVE  IndInv'
<1>1. m \in Messages
  BY ArrivingMessages DEF Redeliver
<1>2. TypeOK'
  BY <1>1 DEF IndInv, TypeOK, Redeliver
<1> QED
  BY <1>2, QueuesOnly DEF Redeliver

(* What Accept leaves, and of which kind the message is. *)
LEMMA AcceptIs ==
  ASSUME IndInv, NEW r \in Replica, NEW m, NEW type, Accept(r, m, type)
  PROVE  /\ m \in Messages /\ m.type = type /\ phase[r] = "idle" /\ r \notin tomb
         /\ ~AfterDrain(r)
         /\ inbox' \in [Replica -> SUBSET Messages] /\ pending' \in [Replica -> SUBSET Messages]
         /\ \A q \in Replica \ {r} : pending'[q] = pending[q]
         /\ UNCHANGED <<disk, tomb, out, crashes, redeliveries>>
  BY DEF Accept, Deliverable, Discarded, AfterDrain, IndInv, TypeOK

LEMMA MessageKinds ==
  ASSUME NEW m \in Messages
  PROVE  /\ m.type = "batch" => m.batch \in Batch
         /\ m.type = "eof" => m \in EOFs
         /\ m.type = "token" => m \in Tokens
  BY DEF Messages, Averages, Coordination, EOFs, Tokens

LEMMA TakenOK ==
  ASSUME NEW s \in State, Exact(s), NEW b \in Batch, b \notin s.seen
  PROVE  /\ Taken(s, b) \in State /\ Exact(Taken(s, b))
         /\ Taken(s, b).seen = s.seen \cup {b}
         /\ Taken(s, b).buffered = s.buffered /\ Taken(s, b).records = s.records
         /\ Ready(s) => Ready(Taken(s, b))
<1>1. /\ Taken(s, b) \in State /\ Taken(s, b).seen = s.seen \cup {b} /\ Taken(s, b).p2Seen = s.p2Seen + 1
      /\ Taken(s, b).buffered = s.buffered /\ Taken(s, b).records = s.records
      /\ Taken(s, b).initiator = s.initiator /\ Taken(s, b).cached = s.cached
  <2> DEFINE x == s.seen \cup {b}
             y == s.p2Seen + 1
             t == [s EXCEPT !.seen = x, !.p2Seen = y]
  <2>1. x \in SUBSET Batch /\ y \in Nat
    BY DEF State
  <2>2. Taken(s, b) = t
    BY DEF Taken
  <2> HIDE DEF x, y
  <2>3. t \in State
    BY <2>1 DEF State
  <2>4. /\ t.seen = x /\ t.p2Seen = y /\ t.buffered = s.buffered /\ t.records = s.records
        /\ t.initiator = s.initiator /\ t.cached = s.cached
    BY DEF State
  <2> HIDE DEF t
  <2> QED
    BY <2>2, <2>3, <2>4 DEF x, y
<1>2. s.seen \in SUBSET Batch
  BY DEF State
<1>3. IsFiniteSet(s.seen)
  BY <1>2, FS_Subset
<1>4. Cardinality(s.seen \cup {b}) = Cardinality(s.seen) + 1
  BY <1>3, FS_AddElement
<1> QED
  BY <1>1, <1>4 DEF Exact, Ready

LEMMA ElementsAfterAppend ==
  ASSUME NEW S, NEW f \in Seq(S), NEW b \in S
  PROVE  /\ Append(f, b) \in Seq(S) /\ Len(Append(f, b)) = Len(f) + 1 /\ Len(f) \in Nat
         /\ Append(f, b)[Len(f) + 1] = b
         /\ \A i \in 1 .. Len(f) : Append(f, b)[i] = f[i]
  BY AppendProperties, LenProperties

(* The file grows by a record that the checkpoint does not know.             *)
LEMMA FileGrows ==
  ASSUME NEW f \in Seq(Batch), NEW b \in Batch, NEW s, NEW d, NEW t,
         FileOK(s, d, f), b \notin s.seen, d.seen \subseteq s.seen, d.buffered \in Nat,
         t.seen = s.seen \cup {b}, t.records = s.records + 1, t.buffered = s.buffered + 1
  PROVE  FileOK(t, d, Append(f, b))
<1> SUFFICES ASSUME Unharmed PROVE FileOK(t, d, Append(f, b))
  BY DEF FileOK
<1> DEFINE a == Append(f, b)
           n == Len(f)
<1>1. /\ Len(a) = n + 1 /\ n \in Nat /\ a[n + 1] = b
      /\ \A i \in 1 .. n : a[i] = f[i]
  BY ElementsAfterAppend
<1> HIDE DEF a
<1>2. \A i \in 1 .. n + 1 : i \in 1 .. n \/ i = n + 1
  BY <1>1
<1>3. /\ s.records = n /\ s.buffered = n /\ d.buffered <= n
      /\ \A i \in 1 .. n : /\ f[i] \in s.seen
                           /\ i <= d.buffered => f[i] \in d.seen
                           /\ i > d.buffered => f[i] \notin d.seen
      /\ \A i, j \in 1 .. n : f[i] = f[j] => i = j
  BY DEF FileOK
<1> HIDE DEF n
<1>4. t.records = n + 1 /\ t.buffered = n + 1 /\ d.buffered <= n + 1 /\ n + 1 > d.buffered
  BY <1>1, <1>3
<1>5. \A i \in 1 .. n + 1 : /\ a[i] \in t.seen
                            /\ i <= d.buffered => a[i] \in d.seen
                            /\ i > d.buffered => a[i] \notin d.seen
  <2> SUFFICES ASSUME NEW i \in 1 .. n + 1
               PROVE  /\ a[i] \in t.seen
                      /\ i <= d.buffered => a[i] \in d.seen
                      /\ i > d.buffered => a[i] \notin d.seen
    OBVIOUS
  <2>1. CASE i \in 1 .. n
    BY <1>1, <1>3, <2>1
  <2>2. CASE i = n + 1
    <3>1. ~(i <= d.buffered)
      BY <1>1, <1>3, <2>2
    <3> QED
      BY <1>1, <2>2, <3>1
  <2> QED
    BY <1>2, <2>1, <2>2
<1>6. \A i, j \in 1 .. n + 1 : a[i] = a[j] => i = j
  <2>1. \A i \in 1 .. n : a[i] # b
    BY <1>1, <1>3
  <2> QED
    BY <1>1, <1>2, <1>3, <2>1
<1>7. Len(a) = n + 1
  BY <1>1
<1>8. FileOK(t, d, a)
  BY <1>4, <1>5, <1>6, <1>7 DEF FileOK
<1> QED
  BY <1>8 DEF a

(* More is known, and the file is the same. *)
LEMMA FileStays ==
  ASSUME NEW s, NEW d, NEW f, FileOK(s, d, f), NEW t,
         s.seen \subseteq t.seen, t.records = s.records, t.buffered = s.buffered
  PROVE  FileOK(t, d, f)
  BY DEF FileOK

LEMMA BufferBatchInd ==
  ASSUME IndInv, NEW r \in Replica, NEW m, BufferBatch(r, m)
  PROVE  IndInv'
<1> DEFINE b == m.batch
           s == mem[r]
           u == Taken(s, b)
           t == Recorded(u)
<1>1. Accept(r, m, "batch")
  BY DEF BufferBatch
<1>2. b \in Batch /\ b \notin s.seen /\ r \notin tomb
  BY <1>1, AcceptIs, MessageKinds DEF Accept, Discarded
<1>3. s \in State /\ disk[r].state \in State /\ ReplicaOK(r) /\ file[r] \in Seq(Batch)
  BY FieldsAre
<1>4. /\ mem' = [mem EXCEPT ![r] = t] /\ file' = [file EXCEPT ![r] = Append(@, b)]
      /\ UNCHANGED <<unconfirmed, outbox, phase>>
  BY DEF BufferBatch
<1>5. Exact(s) /\ Ready(s) /\ FileOK(s, disk[r].state, file[r]) /\ disk[r].state.seen \subseteq s.seen
  BY <1>1, <1>3, AcceptIs DEF ReplicaOK
<1> HIDE DEF b, s
<1>6. /\ u \in State /\ Exact(u) /\ u.seen = s.seen \cup {b}
      /\ u.buffered = s.buffered /\ u.records = s.records /\ Ready(u)
  BY <1>2, <1>3, <1>5, TakenOK
<1> HIDE DEF u
<1>7. /\ t \in State /\ t.seen = u.seen /\ t.p2Seen = u.p2Seen
      /\ t.buffered = u.buffered + 1 /\ t.records = u.records + 1
      /\ t.initiator = u.initiator /\ t.cached = u.cached
  <2> DEFINE x == u.buffered + 1
             y == u.records + 1
             w == [u EXCEPT !.buffered = x, !.records = y]
  <2>1. x \in Nat /\ y \in Nat
    BY <1>6 DEF State
  <2>2. t = w
    BY DEF Recorded
  <2> HIDE DEF x, y, t
  <2>3. w \in State
    BY <1>6, <2>1 DEF State
  <2>4. /\ w.seen = u.seen /\ w.p2Seen = u.p2Seen /\ w.buffered = x /\ w.records = y
        /\ w.initiator = u.initiator /\ w.cached = u.cached
    BY <1>6 DEF State
  <2> HIDE DEF w
  <2> QED
    BY <2>2, <2>3, <2>4 DEF x, y
<1> HIDE DEF t
<1>8. FileOK(t, disk[r].state, Append(file[r], b))
  <2>1. disk[r].state.buffered \in Nat
    BY <1>3 DEF State
  <2>2. t.seen = s.seen \cup {b} /\ t.records = s.records + 1 /\ t.buffered = s.buffered + 1
    BY <1>6, <1>7
  <2> QED
    BY <1>2, <1>3, <1>5, <2>1, <2>2, FileGrows
<1>9. TypeOK'
  <2>1. Append(file[r], b) \in Seq(Batch)
    BY <1>2, <1>3, AppendProperties
  <2>2. mem' \in [Replica -> State] /\ file' \in [Replica -> Seq(Batch)]
    BY <1>4, <1>7, <2>1 DEF IndInv, TypeOK
  <2> QED
    BY <1>1, <1>4, <2>2, AcceptIs DEF IndInv, TypeOK
<1>10. ReplicaOK(r)'
  <2>1. /\ mem'[r] = t /\ disk'[r] = disk[r] /\ file'[r] = Append(file[r], b)
        /\ outbox'[r] = outbox[r] /\ phase'[r] = "idle" /\ phase[r] = "idle" /\ tomb' = tomb
    BY <1>1, <1>4, AcceptIs DEF IndInv, TypeOK
  <2>2. Exact(t) /\ Ready(t) /\ disk[r].state.seen \subseteq t.seen
    BY <1>5, <1>6, <1>7 DEF Exact, Ready
  <2>3. NoRemoval(outbox[r])
    BY <1>3, <2>1 DEF ReplicaOK
  <2> QED
    BY <1>2, <1>3, <1>8, <2>1, <2>2, <2>3 DEF ReplicaOK
<1> QED
  BY <1>1, <1>4, <1>9, <1>10, AcceptIs, OthersStay DEF IndInv, TypeOK

(* A step of a handler that changes the state in memory only. *)
LEMMA MemoryOnly ==
  ASSUME IndInv, NEW r \in Replica, NEW m, NEW type, Accept(r, m, type), NEW t \in State,
         mem' = [mem EXCEPT ![r] = t], UNCHANGED <<file, outbox, phase>>,
         unconfirmed' \in [Replica -> SUBSET Batch],
         Exact(t), Ready(t), mem[r].seen \subseteq t.seen,
         t.buffered = mem[r].buffered, t.records = mem[r].records
  PROVE  IndInv'
<1>1. disk[r].state \in State /\ ReplicaOK(r)
  BY FieldsAre
<1>2. TypeOK'
  <2>1. mem' \in [Replica -> State]
    BY DEF IndInv, TypeOK
  <2> QED
    BY <2>1, AcceptIs DEF IndInv, TypeOK
<1>3. ReplicaOK(r)'
  <2>1. /\ mem'[r] = t /\ disk'[r] = disk[r] /\ file'[r] = file[r] /\ outbox'[r] = outbox[r]
        /\ phase'[r] = "idle" /\ phase[r] = "idle" /\ tomb' = tomb /\ r \notin tomb /\ ~AfterDrain(r)
    BY AcceptIs DEF IndInv, TypeOK
  <2>2. FileOK(t, disk[r].state, file[r])
    BY <1>1, <2>1, FileStays DEF ReplicaOK
  <2>3. NoRemoval(outbox[r]) /\ disk[r].state.seen \subseteq t.seen
    BY <1>1, <2>1 DEF ReplicaOK
  <2> QED
    BY <1>1, <2>1, <2>2, <2>3 DEF ReplicaOK
<1> QED
  BY <1>2, <1>3, AcceptIs, OthersStay DEF IndInv, TypeOK

LEMMA AcceptedOK == ASSUME TypeOK, NEW m \in Outputs PROVE Accepted(m) \subseteq Outputs
  BY DEF TypeOK, Accepted

LEMMA FilterBatchInd ==
  ASSUME IndInv, NEW r \in Replica, NEW m, FilterBatch(r, m)
  PROVE  IndInv'
<1>1. Accept(r, m, "batch")
  BY DEF FilterBatch
<1>2. m.batch \in Batch /\ m.batch \notin mem[r].seen
  BY <1>1, AcceptIs, MessageKinds DEF Accept, Discarded
<1>3. mem[r] \in State /\ Exact(mem[r]) /\ Ready(mem[r])
  BY <1>1, FieldsAre, AcceptIs DEF ReplicaOK
<1> DEFINE t == Taken(mem[r], m.batch)
<1>4. /\ t \in State /\ Exact(t) /\ Ready(t) /\ mem[r].seen \subseteq t.seen
      /\ t.buffered = mem[r].buffered /\ t.records = mem[r].records
  BY <1>2, <1>3, TakenOK
<1>5. mem' = [mem EXCEPT ![r] = t] /\ UNCHANGED <<file, outbox, phase>>
  BY DEF FilterBatch
<1>6. unconfirmed' \in [Replica -> SUBSET Batch]
  BY <1>2 DEF FilterBatch, IndInv, TypeOK
<1> HIDE DEF t
<1> QED
  BY <1>1, <1>4, <1>5, <1>6, MemoryOnly

LEMMA StoreAveragesInd ==
  ASSUME IndInv, NEW r \in Replica, NEW m, StoreAverages(r, m)
  PROVE  IndInv'
<1>1. Accept(r, m, "averages")
  BY DEF StoreAverages
<1>2. mem[r] \in State /\ Exact(mem[r]) /\ Ready(mem[r])
  BY <1>1, FieldsAre, AcceptIs DEF ReplicaOK
<1> DEFINE t == [mem[r] EXCEPT !.avg = TRUE]
<1>3. /\ t \in State /\ t.seen = mem[r].seen /\ t.p2Seen = mem[r].p2Seen
      /\ t.buffered = mem[r].buffered /\ t.records = mem[r].records
      /\ t.initiator = mem[r].initiator /\ t.cached = mem[r].cached
  BY <1>2 DEF State
<1>4. mem' = [mem EXCEPT ![r] = t] /\ UNCHANGED <<file, unconfirmed, outbox, phase>>
  BY DEF StoreAverages
<1> HIDE DEF t
<1>5. Exact(t) /\ Ready(t)
  BY <1>2, <1>3 DEF Exact, Ready
<1>6. unconfirmed' \in [Replica -> SUBSET Batch]
  BY <1>4 DEF IndInv, TypeOK
<1> QED
  BY <1>1, <1>3, <1>4, <1>5, <1>6, MemoryOnly

(* A handler that ends with an outcome: the state gets the message's number. *)
LEMMA ApplyInd ==
  ASSUME IndInv, NEW r \in Replica, NEW m \in Coordination, NEW type, Accept(r, m, type),
         NEW s, SameCounts(mem[r], s), NEW o, GoodOutcome(s, o), Apply(r, m, o)
  PROVE  IndInv'
<1> DEFINE t == [o.state EXCEPT !.coord[m.sender] = m.seq]
<1>1. mem[r] \in State /\ disk[r].state \in State /\ ReplicaOK(r)
  BY FieldsAre
<1>2. m.seq \in Nat /\ m.sender \in Sender
  BY DEF Coordination, EOFs, Tokens, Sender, Replica
<1>3. GoodOutcome(mem[r], o)
  BY GoodFor
<1>4. /\ t \in State /\ SameCounts(o.state, t)
      /\ t.initiator = o.state.initiator /\ t.cached = o.state.cached
  BY <1>2, <1>3 DEF GoodOutcome, State, SameCounts
<1>5. /\ mem' = [mem EXCEPT ![r] = t] /\ outbox' = [outbox EXCEPT ![r] = o.sends]
      /\ phase' = [phase EXCEPT ![r] = o.end] /\ UNCHANGED <<file, unconfirmed>>
  BY DEF Apply
<1> HIDE DEF t
<1>6. /\ t.seen = mem[r].seen /\ t.p2Seen = mem[r].p2Seen
      /\ t.buffered = mem[r].buffered /\ t.records = mem[r].records
      /\ o.end # "complete" => Ready(t)
  BY <1>3, <1>4 DEF GoodOutcome, SameCounts, Ready
<1>7. o.sends \in Seq(Sendable) /\ o.end \in {"idle", "checkpoint", "forward", "complete"}
  BY <1>3 DEF GoodOutcome
<1>8. TypeOK'
  <2>1. mem' \in [Replica -> State] /\ outbox' \in [Replica -> Seq(Sendable)]
    BY <1>4, <1>5, <1>7 DEF IndInv, TypeOK, Sendable
  <2>2. phase' \in [Replica -> {"idle", "checkpoint", "forward", "complete"}]
    BY <1>5, <1>7 DEF IndInv, TypeOK
  <2> QED
    BY <1>5, <2>1, <2>2, AcceptIs DEF IndInv, TypeOK, Sendable
<1>9. ReplicaOK(r)'
  <2>1. /\ mem'[r] = t /\ disk'[r] = disk[r] /\ file'[r] = file[r] /\ outbox'[r] = o.sends
        /\ phase'[r] = o.end /\ phase[r] = "idle" /\ tomb' = tomb /\ r \notin tomb /\ ~AfterDrain(r)
    BY <1>5, AcceptIs DEF IndInv, TypeOK
  <2>2. FileOK(t, disk[r].state, file[r])
    BY <1>1, <1>6, <2>1, FileStays DEF ReplicaOK
  <2>3. Exact(t) /\ disk[r].state.seen \subseteq t.seen
    BY <1>1, <1>6 DEF ReplicaOK, Exact
  <2>4. NoRemoval(o.sends) \/ (o.end = "complete" /\ t.records > 0)
    BY <1>3, <1>6 DEF GoodOutcome
  <2> QED
    BY <1>1, <1>6, <2>1, <2>2, <2>3, <2>4 DEF ReplicaOK
<1> QED
  BY <1>5, <1>8, <1>9, AcceptIs, OthersStay DEF IndInv, TypeOK

LEMMA HandleEOFInd ==
  ASSUME IndInv, NEW r \in Replica, NEW m, HandleEOF(r, m)
  PROVE  IndInv'
<1> DEFINE s == [mem[r] EXCEPT !.cached = m]
           f == file[r]
           o == IF m.sender = Aggregator THEN AveragesEnd(r, s, f) ELSE TransactionsEOF(s, f)
<1>1. Accept(r, m, "eof") /\ Apply(r, m, o)
  BY DEF HandleEOF
<1>2. m \in EOFs /\ m \in Coordination /\ m # NoEOF
  <2>1. m \in EOFs
    BY <1>1, AcceptIs, MessageKinds
  <2>2. m.type = "eof" /\ NoEOF.type = "none"
    BY <2>1 DEF EOFs, NoEOF
  <2> QED
    BY <2>1, <2>2 DEF Coordination
<1>3. mem[r] \in State /\ f \in Seq(Batch)
  BY FieldsAre
<1>4. s \in State /\ SameCounts(mem[r], s) /\ s.cached # NoEOF
  BY <1>2, <1>3 DEF State, SameCounts
<1> HIDE DEF s, f
<1>5. GoodOutcome(s, o)
  <2>1. GoodOutcome(s, AveragesEnd(r, s, f))
    BY <1>3, <1>4, AveragesEndOK DEF Ready
  <2>2. GoodOutcome(s, TransactionsEOF(s, f))
    BY <1>3, <1>4, TransactionsEOFOK
  <2> QED
    BY <2>1, <2>2
<1> HIDE DEF o
<1> QED
  BY <1>1, <1>2, <1>4, <1>5, ApplyInd

LEMMA HandleTokenInd ==
  ASSUME IndInv, NEW r \in Replica, NEW m, HandleToken(r, m)
  PROVE  IndInv'
<1>1. Accept(r, m, "token") /\ Apply(r, m, RingToken(r, mem[r], file[r], m))
  BY DEF HandleToken
<1>2. m \in Tokens /\ m \in Coordination
  BY <1>1, AcceptIs, MessageKinds DEF Coordination
<1>3. mem[r] \in State /\ file[r] \in Seq(Batch) /\ Ready(mem[r])
  BY <1>1, FieldsAre, AcceptIs DEF ReplicaOK
<1>4. GoodOutcome(mem[r], RingToken(r, mem[r], file[r], m))
  BY <1>2, <1>3, RingTokenOK
<1>5. SameCounts(mem[r], mem[r])
  BY DEF SameCounts
<1> QED
  BY <1>1, <1>2, <1>4, <1>5, ApplyInd

LEMMA ConfirmInd ==
  ASSUME IndInv, NEW r \in Replica, NEW b, Confirm(r, b)
  PROVE  IndInv'
<1>1. b \in Batch
  BY DEF Confirm, IndInv, TypeOK
<1>2. Row(home[b], 0, b) \in Outputs
  BY <1>1, ConstantsAssumption DEF Row, Outputs
<1>3. out' \subseteq Outputs
  BY <1>2, AcceptedOK DEF Confirm, IndInv
<1>4. TypeOK'
  BY <1>3 DEF Confirm, IndInv, TypeOK
<1> QED
  BY <1>4, QueuesOnly DEF Confirm

(* The file is removed in a drain only, and a crash is not expected until    *)
(* the client is over.                                                       *)
LEMMA PublishInd ==
  ASSUME IndInv, NEW r \in Replica, Publish(r)
  PROVE  IndInv'
<1> DEFINE m == Head(outbox[r])
           rest == Tail(outbox[r])
<1>1. outbox[r] \in Seq(Sendable) /\ outbox[r] # <<>> /\ Len(outbox[r]) \in Nat /\ ReplicaOK(r)
  BY FieldsAre, LenProperties DEF Publish
<1>2. /\ m \in Sendable /\ m = outbox[r][1] /\ 1 \in 1 .. Len(outbox[r])
      /\ rest \in Seq(Sendable) /\ Len(rest) = Len(outbox[r]) - 1
      /\ \A i \in 1 .. Len(rest) : rest[i] = outbox[r][i + 1]
  BY <1>1, HeadTailProperties
<1>3. /\ outbox' = [outbox EXCEPT ![r] = rest] /\ Send(r, m)
      /\ UNCHANGED <<pending, mem, disk, tomb, unconfirmed, phase, crashes, redeliveries>>
  BY DEF Publish
<1> HIDE DEF m, rest
<1>4. outbox' \in [Replica -> Seq(Sendable)]
  BY <1>2, <1>3 DEF IndInv, TypeOK, Sendable
<1>5. NoRemoval(outbox[r]) => NoRemoval(rest)
  <2>1. \A i \in 1 .. Len(rest) : i + 1 \in 1 .. Len(outbox[r])
    BY <1>1, <1>2
  <2> QED
    BY <1>2, <2>1 DEF NoRemoval
<1>6. CASE m = Removal
  <2>1. file' = [file EXCEPT ![r] = <<>>] /\ UNCHANGED <<inbox, out>>
    BY <1>3, <1>6 DEF Send, Removal
  <2>2. phase[r] = "complete" /\ mem[r].records > 0
    BY <1>1, <1>2, <1>6 DEF ReplicaOK, NoRemoval
  <2>3. TypeOK'
    <3>1. file' \in [Replica -> Seq(Batch)]
      BY <2>1 DEF IndInv, TypeOK
    <3> QED
      BY <1>3, <1>4, <2>1, <3>1 DEF IndInv, TypeOK, Sendable
  <2>4. AfterDrain(r)'
    BY <1>3, <2>1, <2>2 DEF AfterDrain, IndInv, TypeOK
  <2>5. ReplicaOK(r)'
    BY <1>1, <1>3, <2>2, <2>4 DEF ReplicaOK
  <2> QED
    BY <1>3, <2>1, <2>3, <2>5, OthersStay DEF IndInv, TypeOK
<1>7. CASE m # Removal
  <2>1. m \in Coordination \cup Outputs
    BY <1>2, <1>7 DEF Sendable
  <2>2. /\ inbox' \in [Replica -> SUBSET Messages] /\ out' \subseteq Outputs /\ file' = file
    <3>1. CASE m.type = "token"
      <4>1. m \in Messages
        BY <2>1, <3>1 DEF Messages, Outputs
      <4>2. inbox' = [inbox EXCEPT ![Successor(r)] = @ \cup {m}] /\ UNCHANGED <<file, out>>
        BY <1>3, <3>1 DEF Send
      <4> QED
        BY <4>1, <4>2 DEF IndInv, TypeOK
    <3>2. CASE m.type = "eof"
      <4>1. m \in Messages
        BY <2>1, <3>2 DEF Messages, Outputs
      <4>2. inbox' = [inbox EXCEPT ![r] = @ \cup {m}] /\ UNCHANGED <<file, out>>
        BY <1>3, <3>2 DEF Send
      <4> QED
        BY <4>1, <4>2 DEF IndInv, TypeOK
    <3>3. CASE m.type \notin {"token", "eof"}
      <4>1. m \in Outputs /\ m.type # "remove"
        BY <2>1, <3>3 DEF Coordination, EOFs, Tokens, Outputs
      <4>2. out' = Accepted(m) /\ UNCHANGED <<inbox, file>>
        BY <1>3, <3>3, <4>1 DEF Send
      <4> QED
        BY <4>1, <4>2, AcceptedOK DEF IndInv, TypeOK
    <3> QED
      BY <3>1, <3>2, <3>3
  <2>3. TypeOK'
    BY <1>3, <1>4, <2>2 DEF IndInv, TypeOK, Sendable
  <2>4. ReplicaOK(r)'
    <3>1. outbox'[r] = rest
      BY <1>3 DEF IndInv, TypeOK
    <3> QED
      BY <1>1, <1>3, <1>5, <2>2, <3>1 DEF ReplicaOK, AfterDrain
  <2> QED
    BY <1>3, <2>2, <2>3, <2>4, OthersStay DEF IndInv, TypeOK
<1> QED
  BY <1>6, <1>7

(* The checkpoint then has what memory has, so that the file agrees with it. *)
LEMMA CheckpointInd ==
  ASSUME IndInv, NEW r \in Replica, Checkpoint(r)
  PROVE  IndInv'
<1> DEFINE d == [exists |-> TRUE, state |-> mem[r]]
<1>1. mem[r] \in State /\ disk[r].state \in State /\ ReplicaOK(r) /\ Len(file[r]) \in Nat
  BY FieldsAre, LenProperties
<1>2. phase[r] # "complete" /\ pending[r] # {} /\ r \notin tomb /\ ~AfterDrain(r)
  BY <1>1 DEF Checkpoint, ReplicaOK, AfterDrain
<1>3. /\ disk' = [disk EXCEPT ![r] = d] /\ pending' = [pending EXCEPT ![r] = {}]
      /\ phase' = [phase EXCEPT ![r] = "idle"]
      /\ UNCHANGED <<inbox, mem, file, tomb, unconfirmed, outbox, out, crashes, redeliveries>>
  BY DEF Checkpoint
<1>4. d \in [exists : BOOLEAN, state : State] /\ d.state = mem[r] /\ d.exists
  BY <1>1
<1> HIDE DEF d
<1>5. TypeOK'
  BY <1>3, <1>4 DEF IndInv, TypeOK
<1>6. ReplicaOK(r)'
  <2>1. /\ mem'[r] = mem[r] /\ disk'[r] = d /\ file'[r] = file[r] /\ outbox'[r] = outbox[r]
        /\ phase'[r] = "idle" /\ tomb' = tomb
    BY <1>3 DEF IndInv, TypeOK
  <2>2. FileOK(mem[r], disk[r].state, file[r])
    BY <1>1, <1>2 DEF ReplicaOK
  <2>3. FileOK(mem[r], mem[r], file[r])
    BY <1>1, <2>2 DEF FileOK
  <2> QED
    BY <1>1, <1>2, <1>4, <2>1, <2>3 DEF ReplicaOK
<1> QED
  BY <1>3, <1>5, <1>6, OthersStay DEF IndInv, TypeOK

LEMMA CompleteInd ==
  ASSUME IndInv, NEW r \in Replica, Complete(r)
  PROVE  IndInv'
<1>1. ReplicaOK(r) /\ phase[r] = "complete" /\ outbox[r] = <<>>
  BY FieldsAre DEF Complete
<1>2. /\ tomb' = tomb \cup {r} /\ mem' = [mem EXCEPT ![r] = Fresh]
      /\ disk' = [disk EXCEPT ![r] = NoCheckpoint] /\ pending' = [pending EXCEPT ![r] = {}]
      /\ phase' = [phase EXCEPT ![r] = "idle"]
      /\ UNCHANGED <<inbox, file, unconfirmed, outbox, out, crashes, redeliveries>>
  BY DEF Complete
<1>3. NoCheckpoint \in [exists : BOOLEAN, state : State] /\ NoCheckpoint.state = Fresh
  BY FreshOK DEF NoCheckpoint
<1>4. TypeOK'
  BY <1>2, <1>3, FreshOK DEF IndInv, TypeOK
<1>5. ReplicaOK(r)'
  <2>1. /\ mem'[r] = Fresh /\ disk'[r] = NoCheckpoint /\ outbox'[r] = <<>>
        /\ phase'[r] = "idle" /\ r \in tomb' /\ pending'[r] = {}
    BY <1>1, <1>2 DEF IndInv, TypeOK
  <2> QED
    BY <1>3, <2>1, FreshOK, NothingSent DEF ReplicaOK
<1> QED
  BY <1>2, <1>4, <1>5, OthersStay DEF IndInv, TypeOK

(* What is loaded has the types, whatever the file is. *)
LEMMA RecoveredIs ==
  ASSUME NEW d \in State, NEW f \in Seq(Batch)
  PROVE  /\ Recovered(d, f) \in State /\ (Ready(d) => Ready(Recovered(d, f)))
         /\ Recovered(d, f).seen = d.seen \cup ToSet(f)
         /\ Recovered(d, f).p2Seen = d.p2Seen + Beyond(d, f)
         /\ Recovered(d, f).buffered = Len(f) /\ Recovered(d, f).records = Len(f)
<1> DEFINE n == Len(f)
           x == d.seen \cup ToSet(f)
           y == d.p2Seen + Beyond(d, f)
           t == [d EXCEPT !.seen = x, !.p2Seen = y, !.buffered = n, !.records = n]
<1>1. n \in Nat /\ d.buffered \in Nat /\ d.p2Seen \in Nat /\ d.seen \in SUBSET Batch
  BY LenProperties DEF State
<1>2. ToSet(f) \subseteq Batch
  BY ElementOfSeq DEF ToSet
<1>3. RecoveredBuffer(f).headers = ToSet(f) /\ RecoveredBuffer(f).items = n
  BY DEF RecoveredBuffer
<1>4. Recovered(d, f) = t
  BY <1>3 DEF Recovered
<1>5. x \in SUBSET Batch
  BY <1>1, <1>2
<1>6. y \in Nat
  BY <1>1, <1>3 DEF Beyond
<1> HIDE DEF x, y, n
<1>7. t \in State
  BY <1>1, <1>5, <1>6 DEF State
<1>8. /\ t.seen = x /\ t.p2Seen = y /\ t.buffered = n /\ t.records = n
      /\ t.initiator = d.initiator /\ t.cached = d.cached
  BY DEF State
<1> HIDE DEF t
<1>9. Ready(d) => Ready(t)
  BY <1>8 DEF Ready
<1> QED
  BY <1>4, <1>7, <1>8, <1>9 DEF x, y, n

(* The file has the first records of the checkpoint and new ones: what is    *)
(* loaded counts each batch once, and agrees with the file again.            *)
LEMMA RecoveredOK ==
  ASSUME NEW s, NEW d \in State, NEW f \in Seq(Batch), FileOK(s, d, f), Exact(d)
  PROVE  Exact(Recovered(d, f)) /\ FileOK(Recovered(d, f), d, f)
<1> SUFFICES ASSUME Unharmed PROVE Exact(Recovered(d, f)) /\ FileOK(Recovered(d, f), d, f)
  BY DEF Exact, FileOK
<1> DEFINE n == Len(f)
           t == Recovered(d, f)
<1>1. /\ n \in Nat /\ d.buffered \in Nat /\ d.buffered <= n /\ d.p2Seen \in Nat
      /\ d.seen \in SUBSET Batch
  BY LenProperties DEF State, FileOK
<1>2. /\ t.seen = d.seen \cup ToSet(f) /\ t.p2Seen = d.p2Seen + Beyond(d, f)
      /\ t.buffered = n /\ t.records = n
  BY RecoveredIs
<1> HIDE DEF t
<1>3. Beyond(d, f) = n - d.buffered
  <2>1. RecoveredBuffer(f).items = n
    BY DEF RecoveredBuffer
  <2> QED
    BY <1>1, <2>1 DEF Beyond
<1>4. Cardinality(d.seen \cup ToSet(f)) = Cardinality(d.seen) + (n - d.buffered)
  <2>1. IsFiniteSet(d.seen)
    BY <1>1, FS_Subset
  <2>2. /\ \A i, j \in 1 .. Len(f) : f[i] = f[j] => i = j
        /\ \A i \in 1 .. Len(f) : /\ i <= d.buffered => f[i] \in d.seen
                                  /\ i > d.buffered => f[i] \notin d.seen
    BY DEF FileOK
  <2> DEFINE S == d.seen
             k == d.buffered
  <2>3. k \in Nat /\ k <= Len(f) /\ IsFiniteSet(S)
    BY <1>1, <2>1
  <2>4. \A i \in 1 .. Len(f) : (i <= k => f[i] \in S) /\ (i > k => f[i] \notin S)
    BY <2>2
  <2> HIDE DEF S, k
  <2>5. Cardinality(S \cup ToSet(f)) = Cardinality(S) + (Len(f) - k)
    BY <2>2, <2>3, <2>4, CardinalityWithRest
  <2> QED
    BY <2>5 DEF S, k
<1>5. Exact(t)
  BY <1>2, <1>3, <1>4 DEF Exact
<1>6. \A i \in 1 .. n : f[i] \in t.seen
  BY <1>2 DEF ToSet
<1>7. FileOK(t, d, f)
  BY <1>2, <1>6 DEF FileOK
<1> QED
  BY <1>5, <1>7 DEF t

LEMMA CrashInd ==
  ASSUME IndInv, NEW r \in Replica, Crash(r)
  PROVE  IndInv'
<1> DEFINE d == disk[r].state
<1>1. mem[r] \in State /\ d \in State /\ ReplicaOK(r) /\ file[r] \in Seq(Batch)
  BY FieldsAre
<1>2. /\ mem' = [mem EXCEPT ![r] = Load(r)] /\ inbox' = [inbox EXCEPT ![r] = @ \cup pending[r]]
      /\ pending' = [pending EXCEPT ![r] = {}] /\ outbox' = [outbox EXCEPT ![r] = <<>>]
      /\ phase' = [phase EXCEPT ![r] = "idle"] /\ crashes' = crashes + 1
      /\ unconfirmed' = [unconfirmed EXCEPT ![r] = {}]
      /\ UNCHANGED <<disk, file, tomb, out, redeliveries>>
  BY DEF Crash
<1>3. r \notin tomb /\ (Unharmed => ~BeforeCheckpoint(r) /\ ~AfterDrain(r))
  BY DEF Crash, Unharmed
<1>4. FileOK(mem[r], d, file[r])
  BY <1>1, <1>3 DEF ReplicaOK, FileOK
<1>5. /\ Load(r) \in State /\ Exact(Load(r)) /\ Ready(Load(r))
      /\ d.seen \subseteq Load(r).seen /\ FileOK(Load(r), d, file[r])
  <2>1. CASE disk[r].exists
    <3>1. Load(r) = Recovered(d, file[r])
      BY <2>1 DEF Load
    <3>2. Exact(d) /\ Ready(d)
      BY <1>1 DEF ReplicaOK
    <3> HIDE DEF d
    <3> QED
      BY <1>1, <1>4, <3>1, <3>2, RecoveredIs, RecoveredOK
  <2>2. CASE ~disk[r].exists
    <3>1. Load(r) = Fresh /\ d = Fresh
      BY <1>1, <2>2 DEF Load, ReplicaOK
    <3>2. Unharmed => file[r] = <<>>
      BY <1>3, <2>2 DEF BeforeCheckpoint
    <3>3. FileOK(Fresh, Fresh, file[r])
      BY <3>2, FreshOK, EmptyFileOK DEF FileOK
    <3> QED
      BY <3>1, <3>3, FreshOK
  <2> QED
    BY <2>1, <2>2
<1>6. TypeOK'
  <2>1. <<>> \in Seq(Sendable)
    BY NothingSent
  <2> QED
    BY <1>2, <1>5, <2>1 DEF IndInv, TypeOK, Sendable
<1>7. ReplicaOK(r)'
  <2>1. /\ mem'[r] = Load(r) /\ disk'[r] = disk[r] /\ file'[r] = file[r] /\ outbox'[r] = <<>>
        /\ phase'[r] = "idle" /\ tomb' = tomb
    BY <1>2 DEF IndInv, TypeOK
  <2> QED
    BY <1>1, <1>3, <1>5, <2>1, NothingSent DEF ReplicaOK
<1> QED
  BY <1>2, <1>6, <1>7, OthersStay DEF IndInv, TypeOK

LEMMA NextInd == IndInv /\ [Next]_vars => IndInv'
<1> SUFFICES ASSUME IndInv, [Next]_vars PROVE IndInv'
  OBVIOUS
<1>1. CASE UNCHANGED vars
  <2>1. TypeOK'
    BY <1>1 DEF vars, IndInv, TypeOK
  <2> QED
    BY <1>1, <2>1, QueuesOnly DEF vars
<1>2. ASSUME NEW r \in Replica, Consume(r) PROVE IndInv'
  BY <1>2, DiscardInd, BufferBatchInd, FilterBatchInd, StoreAveragesInd, HandleEOFInd, HandleTokenInd DEF Consume
<1>3. ASSUME NEW r \in Replica, Finish(r) PROVE IndInv'
  BY <1>3, ConfirmInd, PublishInd, CheckpointInd, CompleteInd DEF Finish
<1>4. ASSUME NEW r \in Replica, Crash(r) PROVE IndInv'
  BY <1>4, CrashInd
<1>5. ASSUME NEW r \in Replica, NEW m \in Arriving(r), Redeliver(r, m) PROVE IndInv'
  BY <1>5, RedeliverInd
<1> QED
  BY <1>1, <1>2, <1>3, <1>4, <1>5 DEF Next

LEMMA AlwaysInd == Spec => []IndInv
<1>1. IndInv /\ [Next]_vars => IndInv'
  BY NextInd
<1> QED
  BY <1>1, InitInd, PTL DEF Spec

-----------------------------------------------------------------------------
(* The replicas of filter_q3 keep their types, whenever they are killed: a   *)
(* retry finds the EOF that it repeats in the slot (reenqueueUpstreamEOF,    *)
(* runtime.go:1038-1087), and a drain publishes rows of records of the file  *)
(* only (drainIterator, filter_q3.go:365-440).                               *)
THEOREM TypeCorrect == Spec => []TypeOK
<1>1. IndInv => TypeOK
  BY DEF IndInv
<1> QED
  BY <1>1, AlwaysInd, PTL

(* What a replica adds to the token is the number of its batches, however    *)
(* often it was killed with a file that is ahead of its checkpoint           *)
(* (UnmarshalClientState, filter_q3.go:505-538), as long as it is not killed *)
(* with records in the file and no checkpoint, or after the file was removed *)
(* and before the client is completed.                                       *)
THEOREM CountsStayExact ==
  ASSUME Windows \subseteq {"forward"}
  PROVE  Spec => []CountIsExact
<1>1. IndInv => CountIsExact
  BY DEF IndInv, ReplicaOK, Exact, Unharmed, CountIsExact
<1> QED
  BY <1>1, AlwaysInd, PTL
-----------------------------------------------------------------------------
(* When a replica announces the end, its rows are in                         *)

(* An element is the one at its own place. *)
LEMMA PlaceOf ==
  ASSUME NEW S \in SUBSET Int, IsFiniteSet(S), NEW p \in S
  PROVE  \E n \in 1 .. Cardinality(S) : Nth(S, n) = p
<1> DEFINE Upto(i) == {j \in S : j <= i}
           n == Cardinality(Upto(p))
<1>1. n \in 1 .. Cardinality(S)
  BY Ranks
<1>2. \A i \in S : Cardinality(Upto(i)) = Cardinality(Upto(p)) => i = p
  BY Ranks
<1>3. Nth(S, n) = CHOOSE i \in S : Cardinality(Upto(i)) = n
  BY DEF Nth
<1> HIDE DEF Upto
<1>4. Nth(S, n) \in S /\ Cardinality(Upto(Nth(S, n))) = n
  BY <1>3
<1>5. Nth(S, n) = p
  BY <1>2, <1>4
<1> QED
  BY <1>1, <1>5

(* The batches of a replica, and those that no crash takes from it any more. *)
Own(r) == {b \in Batch : home[b] = r}
Kept == {b \in Batch : \/ home[b] \in tomb
                       \/ b \in disk[home[b]].state.seen
                       \/ phase[home[b]] = "forward" /\ b \in mem[home[b]].seen}
KeptBy(r) == {b \in Kept : home[b] <= r}

(* A token counts batches that are kept, and closes when all of them are.    *)
TokenOK(t) == IF t.closing THEN Kept = Batch ELSE t.agg <= Cardinality(KeptBy(t.sender))

QueueOK(r) ==
  \A m \in inbox[r] \cup pending[r] :
    /\ m.type = "batch" => home[m.batch] = r
    /\ m.type = "token" => Successor(m.sender) = r /\ TokenOK(m)
    /\ m.type = "eof" => m.sender = Aggregator \/ r = 0

StateOK(r, s) ==
  /\ s.seen \subseteq Own(r)
  /\ s.p2EOF => Own(r) \subseteq s.seen
  /\ s.averagesEOF => s.avg

(* What decides where a drain begins only grows, and between two handlers it *)
(* is saved.                                                                 *)
SavedOK(r) ==
  LET d == disk[r].state
  IN /\ d.outSeq <= mem[r].outSeq
     /\ d.averagesEOF => mem[r].averagesEOF
     /\ phase[r] = "idle" => /\ mem[r].outSeq = d.outSeq
                             /\ mem[r].averagesEOF = d.averagesEOF
                             /\ mem[r].p2EOF = d.p2EOF

IsRow(m) == m.type = "row"
HasRow(b) == \E o \in out : IsRow(o) /\ o.batch = b
Drained(r) == {o \in out : IsRow(o) /\ o.sender = r /\ o.seq > 0}

(* The rows that a drain of f publishes, in their order. *)
Wanted(f) == {i \in 1 .. Len(f) : f[i] \in Passing}
Count(f) == Cardinality(Wanted(f))
RowAt(f, i) == f[Nth(Wanted(f), i)]

(* What a replica has is in its file, waits for a confirm or is in the       *)
(* result; what waits has not been saved, so that a kill gives it back.      *)
LiveOK(r) ==
  /\ unconfirmed[r] \cap disk[r].state.seen = {}
  /\ \/ r \in tomb
     \/ AfterDrain(r)
     \/ \A b \in mem[r].seen \cap Passing : HasRow(b) \/ b \in unconfirmed[r] \/ b \in ToSet(file[r])

(* The file does not change any more. *)
FileIsFinal(r) == disk[r].state.averagesEOF \/ Own(r) \subseteq disk[r].state.seen

(* A drain that was interrupted is repeated: the numbers that are used by    *)
(* then are those of rows that are in.                                       *)
RepeatOK(r) ==
  r \notin tomb =>
    /\ Drained(r) # {} => FileIsFinal(r)
    /\ \A o \in Drained(r), i \in 1 .. Count(file[r]) :
         disk[r].state.outSeq + i <= o.seq => HasRow(RowAt(file[r], i))

Rising(q) == \A i, j \in 1 .. Len(q) : IsRow(q[i]) /\ IsRow(q[j]) /\ i < j => q[i].seq < q[j].seq

(* Nothing but the end of the client publishes rows, and an EOF comes after  *)
(* them.                                                                     *)
SendOK(r, end, q, i) ==
  /\ q[i].type = "token" => q[i].sender = r
  /\ q[i].type = "eof" => r = 0
  /\ IsRow(q[i]) => q[i].sender = r /\ end = "complete"
  /\ q[i].type = "outeof" => /\ q[i].sender = r /\ end = "complete"
                             /\ \A j \in i .. Len(q) : ~IsRow(q[j])

SendsOK(r) ==
  \A i \in 1 .. Len(outbox[r]) :
    /\ SendOK(r, phase[r], outbox[r], i)
    /\ outbox[r][i].type = "token" => TokenOK(outbox[r][i])

(* The end of the client at a replica: every row of its is in or will be     *)
(* published, also one that has the number of another.                       *)
FinishOK(r) ==
  LET q == outbox[r]
  IN phase[r] = "complete" =>
       /\ FileIsFinal(r)
       /\ Rising(q)
       /\ \A b \in Own(r) \cap Passing :
            HasRow(b) \/ b \in unconfirmed[r] \/ \E i \in 1 .. Len(q) : IsRow(q[i]) /\ q[i].batch = b
       /\ \A o \in Drained(r), i \in 1 .. Len(q) : IsRow(q[i]) /\ q[i].seq <= o.seq => HasRow(q[i].batch)
       /\ \A i \in 1 .. Count(file[r]) :
            \/ HasRow(RowAt(file[r], i))
            \/ \E j \in 1 .. Len(q) : q[j] = Row(r, disk[r].state.outSeq + i, RowAt(file[r], i))

EndOK(r) == EOFsOf(r) # {} => \A b \in Own(r) \cap Passing : HasRow(b)

EndInv == IndInv /\ \A r \in Replica : /\ QueueOK(r) /\ SendsOK(r) /\ StateOK(r, mem[r]) /\ StateOK(r, disk[r].state)
                                       /\ SavedOK(r) /\ LiveOK(r) /\ RepeatOK(r) /\ FinishOK(r) /\ EndOK(r)

-----------------------------------------------------------------------------
(* What only grows *)

LEMMA HasRowStays ==
  ASSUME out \subseteq out', NEW b, HasRow(b)
  PROVE  HasRow(b)'
  BY DEF HasRow

LEMMA KeptIsFinite ==
  \A r : KeptBy(r) \in SUBSET Batch /\ IsFiniteSet(KeptBy(r)) /\ Cardinality(KeptBy(r)) \in Nat
<1> SUFFICES ASSUME NEW r
             PROVE  KeptBy(r) \in SUBSET Batch /\ IsFiniteSet(KeptBy(r)) /\ Cardinality(KeptBy(r)) \in Nat
  OBVIOUS
<1>1. KeptBy(r) \in SUBSET Batch
  BY DEF KeptBy, Kept
<1>2. IsFiniteSet(KeptBy(r))
  BY <1>1, FS_Subset
<1> QED
  BY <1>1, <1>2, FS_CardinalityType

(* What the step of a replica has to keep. *)
LEMMA KeptGrows ==
  ASSUME NEW r \in Replica, tomb \subseteq tomb',
         \A q \in Replica \ {r} : mem'[q] = mem[q] /\ disk'[q] = disk[q] /\ phase'[q] = phase[q],
         \/ r \in tomb'
         \/ /\ disk[r].state.seen \subseteq disk'[r].state.seen
            /\ phase[r] = "forward" => \/ mem[r].seen \subseteq disk'[r].state.seen
                                       \/ phase'[r] = "forward" /\ mem[r].seen \subseteq mem'[r].seen
  PROVE  Kept \subseteq Kept'
<1> SUFFICES ASSUME NEW b \in Kept PROVE b \in Kept'
  OBVIOUS
<1>1. b \in Batch /\ home[b] \in Replica
  BY DEF Kept
<1>2. CASE home[b] # r
  <2>1. home[b] \in Replica \ {r}
    BY <1>1, <1>2
  <2> QED
    BY <1>1, <2>1 DEF Kept
<1>3. CASE home[b] = r
  BY <1>1, <1>3 DEF Kept
<1> QED
  BY <1>2, <1>3

LEMMA TokenStays ==
  ASSUME Kept \subseteq Kept', NEW t \in Tokens, TokenOK(t)
  PROVE  TokenOK(t)'
<1>1. Kept' \subseteq Batch
  BY DEF Kept
<1>2. CASE t.closing
  BY <1>1, <1>2 DEF TokenOK
<1>3. CASE ~t.closing
  <2> DEFINE K == KeptBy(t.sender)
             L == KeptBy(t.sender)'
  <2>1. K \subseteq L
    BY DEF KeptBy
  <2>2. L \in SUBSET Batch
    BY <1>1 DEF KeptBy
  <2>3. IsFiniteSet(L)
    BY <2>2, FS_Subset
  <2>4. t.agg <= Cardinality(K)
    BY <1>3 DEF TokenOK
  <2>5. K \in SUBSET Batch /\ IsFiniteSet(K) /\ Cardinality(K) \in Nat
    BY KeptIsFinite
  <2>6. t.agg \in Nat
    BY DEF Tokens
  <2> HIDE DEF K, L
  <2>7. Cardinality(K) <= Cardinality(L) /\ Cardinality(L) \in Nat
    BY <2>1, <2>3, FS_Subset, FS_CardinalityType
  <2>8. t.agg <= Cardinality(L)
    BY <2>4, <2>5, <2>6, <2>7
  <2> QED
    BY <1>3, <2>8 DEF TokenOK, L
<1> QED
  BY <1>2, <1>3

Parts(r) == /\ QueueOK(r) /\ SendsOK(r) /\ StateOK(r, mem[r]) /\ StateOK(r, disk[r].state)
            /\ SavedOK(r) /\ LiveOK(r) /\ RepeatOK(r) /\ FinishOK(r) /\ EndOK(r)

LEMMA QueueStays ==
  ASSUME IndInv, NEW q \in Replica, QueueOK(q), Kept \subseteq Kept',
         \A m \in inbox'[q] \cup pending'[q] :
           \/ m \in inbox[q] \cup pending[q]
           \/ /\ m.type = "batch" => home[m.batch] = q
              /\ m.type = "token" => Successor(m.sender) = q /\ TokenOK(m)'
              /\ m.type = "eof" => m.sender = Aggregator \/ q = 0
  PROVE  QueueOK(q)'
<1> SUFFICES ASSUME NEW m \in inbox[q] \cup pending[q]
             PROVE  /\ m.type = "batch" => home[m.batch] = q
                    /\ m.type = "token" => Successor(m.sender) = q /\ TokenOK(m)'
                    /\ m.type = "eof" => m.sender = Aggregator \/ q = 0
  BY DEF QueueOK
<1>1. m \in Messages
  BY FieldsAre
<1> QED
  BY <1>1, MessageKinds, TokenStays DEF QueueOK

LEMMA SendsStay ==
  ASSUME IndInv, NEW q \in Replica, SendsOK(q), Kept \subseteq Kept', outbox'[q] = outbox[q], phase'[q] = phase[q]
  PROVE  SendsOK(q)'
<1> SUFFICES ASSUME NEW i \in 1 .. Len(outbox[q])
             PROVE  /\ SendOK(q, phase[q], outbox[q], i)
                    /\ outbox[q][i].type = "token" => TokenOK(outbox[q][i])'
  BY DEF SendsOK
<1>1. outbox[q][i] \in Sendable
  BY FieldsAre, ElementOfSeq
<1>2. outbox[q][i].type = "token" => outbox[q][i] \in Tokens
  BY <1>1 DEF Sendable, Coordination, EOFs, Tokens, Outputs, Removal
<1> QED
  BY <1>2, TokenStays DEF SendsOK

LEMMA RepeatStays ==
  ASSUME NEW q, RepeatOK(q), out \subseteq out', Drained(q)' = Drained(q),
         disk'[q] = disk[q], file'[q] = file[q], q \in tomb' <=> q \in tomb
  PROVE  RepeatOK(q)'
<1>1. FileIsFinal(q)' <=> FileIsFinal(q)
  BY DEF FileIsFinal, Own
<1>2. Count(file[q])' = Count(file[q]) /\ \A i : RowAt(file[q], i)' = RowAt(file[q], i)
  BY DEF Count, Wanted, RowAt, Nth
<1> QED
  BY <1>1, <1>2, HasRowStays DEF RepeatOK

(* A replica that a step does not touch, but for new messages in its queue,  *)
(* confirms, and new rows of other replicas, or without a number, in the     *)
(* result.                                                                   *)
LEMMA PartsStay ==
  ASSUME EndInv, NEW q \in Replica, Kept \subseteq Kept', out \subseteq out',
         \A o \in out' \ out : o.sender # q \/ (IsRow(o) /\ o.seq = 0),
         mem'[q] = mem[q], disk'[q] = disk[q], file'[q] = file[q], outbox'[q] = outbox[q], phase'[q] = phase[q],
         q \in tomb' <=> q \in tomb,
         unconfirmed'[q] \subseteq unconfirmed[q], \A b \in unconfirmed[q] \ unconfirmed'[q] : HasRow(b)',
         \A m \in inbox'[q] \cup pending'[q] :
           \/ m \in inbox[q] \cup pending[q]
           \/ /\ m.type = "batch" => home[m.batch] = q
              /\ m.type = "token" => Successor(m.sender) = q /\ TokenOK(m)'
              /\ m.type = "eof" => m.sender = Aggregator \/ q = 0
  PROVE  Parts(q)'
<1>1. Parts(q) /\ IndInv
  BY DEF EndInv, Parts
<1>2. \A b : HasRow(b) => HasRow(b)'
  BY HasRowStays
<1>3. Drained(q)' = Drained(q)
  BY DEF Drained
<1>4. QueueOK(q)'
  BY <1>1, QueueStays DEF Parts
<1>5. SendsOK(q)'
  BY <1>1, SendsStay DEF Parts
<1>6. StateOK(q, mem[q])' /\ StateOK(q, disk[q].state)' /\ SavedOK(q)'
  BY <1>1 DEF Parts, StateOK, SavedOK, Own
<1>7. LiveOK(q)'
  <2>1. AfterDrain(q) => AfterDrain(q)'
    BY DEF AfterDrain
  <2> QED
    BY <1>1, <1>2, <2>1 DEF Parts, LiveOK
<1>8. FileIsFinal(q)' <=> FileIsFinal(q)
  BY DEF FileIsFinal, Own
<1>9. RepeatOK(q)'
  BY <1>1, <1>3, RepeatStays DEF Parts
<1>10. FinishOK(q)'
  <2>1. FinishOK(q)
    BY <1>1 DEF Parts
  <2>2. Count(file[q])' = Count(file[q]) /\ \A i : RowAt(file[q], i)' = RowAt(file[q], i)
    BY DEF Count, Wanted, RowAt, Nth
  <2> QED
    BY <1>2, <1>3, <1>8, <2>1, <2>2 DEF FinishOK, Own, Rising
<1>11. EndOK(q)'
  <2>1. EOFsOf(q)' = EOFsOf(q)
    BY DEF EOFsOf, IsRow
  <2> QED
    BY <1>1, <1>2, <2>1 DEF Parts, EndOK, Own
<1> QED
  BY <1>4, <1>5, <1>6, <1>7, <1>9, <1>10, <1>11 DEF Parts

(* What a step of replica r has to show. *)
LEMMA OneMoves ==
  ASSUME EndInv, IndInv', NEW r \in Replica, Parts(r)', Kept \subseteq Kept', out \subseteq out',
         \A o \in out' \ out : o.sender = r,
         \A q \in Replica \ {r} :
           /\ mem'[q] = mem[q] /\ disk'[q] = disk[q] /\ file'[q] = file[q]
           /\ outbox'[q] = outbox[q] /\ phase'[q] = phase[q] /\ pending'[q] = pending[q]
           /\ q \in tomb' <=> q \in tomb
           /\ unconfirmed'[q] = unconfirmed[q]
           /\ \A m \in inbox'[q] : m \in inbox[q] \/ (m.type = "token" /\ Successor(m.sender) = q /\ TokenOK(m)')
  PROVE  EndInv'
<1>1. ASSUME NEW q \in Replica \ {r} PROVE Parts(q)'
  <2>1. \A o \in out' \ out : o.sender # q
    OBVIOUS
  <2>2. \A m \in inbox'[q] \cup pending'[q] :
           \/ m \in inbox[q] \cup pending[q]
           \/ /\ m.type = "batch" => home[m.batch] = q
              /\ m.type = "token" => Successor(m.sender) = q /\ TokenOK(m)'
              /\ m.type = "eof" => m.sender = Aggregator \/ q = 0
    OBVIOUS
  <2> QED
    BY <2>1, <2>2, PartsStay
<1> QED
  BY <1>1 DEF EndInv, Parts

LEMMA ArrivingIs ==
  \A r \in Replica : \A m \in Arriving(r) :
    /\ m.type = "batch" => home[m.batch] = r
    /\ m.type # "token"
    /\ m.type = "eof" => m.sender = Aggregator \/ r = 0
<1> SUFFICES ASSUME NEW r \in Replica, NEW m \in Arriving(r)
             PROVE  /\ m.type = "batch" => home[m.batch] = r
                    /\ m.type # "token"
                    /\ m.type = "eof" => m.sender = Aggregator \/ r = 0
  OBVIOUS
<1>1. CASE \E b \in {c \in Batch : home[c] = r} : m = BatchMsg(b)
  BY <1>1 DEF BatchMsg
<1>2. CASE m = Averages
  BY <1>2 DEF Averages
<1>3. CASE m = EOFMsg(Aggregator, 1) \/ (m = EOFMsg(Transactions, 1) /\ r = 0)
  BY <1>3 DEF EOFMsg
<1> QED
  BY <1>1, <1>2, <1>3 DEF Arriving

LEMMA InitEnd == Init => EndInv
<1> SUFFICES ASSUME Init PROVE EndInv
  OBVIOUS
<1>1. ASSUME NEW r \in Replica PROVE Parts(r)
  <2>1. /\ inbox[r] = Arriving(r) /\ pending[r] = {} /\ mem[r] = Fresh /\ disk[r] = NoCheckpoint
        /\ file[r] = <<>> /\ outbox[r] = <<>> /\ phase[r] = "idle" /\ out = {} /\ tomb = {}
    BY <1>1 DEF Init
  <2>2. disk[r].state = Fresh
    BY <2>1 DEF NoCheckpoint
  <2>3. Fresh.seen = {} /\ ~Fresh.p2EOF /\ ~Fresh.averagesEOF /\ Fresh.outSeq = 0
    BY DEF Fresh
  <2>4. QueueOK(r)
    BY <2>1, ArrivingIs DEF QueueOK
  <2>5. Len(<<>>) = 0
    BY EmptySeq
  <2>6. SendsOK(r)
    BY <2>1, <2>5 DEF SendsOK
  <2>7. StateOK(r, mem[r]) /\ StateOK(r, disk[r].state) /\ SavedOK(r)
    BY <2>1, <2>2, <2>3 DEF StateOK, SavedOK
  <2>8. LiveOK(r)
    BY <2>1, <2>2, <2>3 DEF LiveOK, Init
  <2>9. Drained(r) = {} /\ EOFsOf(r) = {}
    BY <2>1 DEF Drained, EOFsOf
  <2>10. RepeatOK(r) /\ FinishOK(r) /\ EndOK(r)
    BY <2>1, <2>9 DEF RepeatOK, FinishOK, EndOK
  <2> QED
    BY <2>4, <2>6, <2>7, <2>8, <2>10 DEF Parts
<1> QED
  BY <1>1, InitInd DEF EndInv, Parts

LEMMA DiscardEnd ==
  ASSUME EndInv, NEW r \in Replica, NEW m, Discard(r, m)
  PROVE  EndInv'
<1>1. IndInv'
  BY DiscardInd DEF EndInv
<1>2. /\ \A q \in Replica : inbox'[q] \subseteq inbox[q]
      /\ UNCHANGED <<pending, mem, disk, file, tomb, unconfirmed, outbox, phase, out>>
  BY DEF Discard, EndInv, IndInv, TypeOK
<1>3. Kept \subseteq Kept'
  BY <1>2 DEF Kept
<1>4. \A q \in Replica : Parts(q)'
  BY <1>2, <1>3, PartsStay
<1> QED
  BY <1>1, <1>4 DEF EndInv, Parts

LEMMA RedeliverEnd ==
  ASSUME EndInv, NEW r \in Replica, NEW m, Redeliver(r, m)
  PROVE  EndInv'
<1>1. IndInv'
  BY RedeliverInd DEF EndInv
<1>2. /\ \A q \in Replica : inbox'[q] \subseteq inbox[q] \cup (IF q = r THEN {m} ELSE {})
      /\ UNCHANGED <<pending, mem, disk, file, tomb, unconfirmed, outbox, phase, out>>
  BY DEF Redeliver, EndInv, IndInv, TypeOK
<1>3. Kept \subseteq Kept'
  BY <1>2 DEF Kept
<1>4. /\ m.type = "batch" => home[m.batch] = r
      /\ m.type # "token"
      /\ m.type = "eof" => m.sender = Aggregator \/ r = 0
  BY ArrivingIs DEF Redeliver
<1>5. ASSUME NEW q \in Replica PROVE Parts(q)'
  <2>1. \A n \in inbox'[q] \cup pending'[q] :
           \/ n \in inbox[q] \cup pending[q]
           \/ /\ n.type = "batch" => home[n.batch] = q
              /\ n.type = "token" => Successor(n.sender) = q /\ TokenOK(n)'
              /\ n.type = "eof" => n.sender = Aggregator \/ q = 0
    BY <1>2, <1>4
  <2> QED
    BY <1>2, <1>3, <2>1, PartsStay
<1> QED
  BY <1>1, <1>5 DEF EndInv, Parts

(* What a handler finds when it begins, and what it leaves alone. *)
LEMMA AcceptEnd ==
  ASSUME EndInv, NEW r \in Replica, NEW m, NEW type, Accept(r, m, type)
  PROVE  /\ Parts(r) /\ IndInv /\ phase[r] = "idle" /\ r \notin tomb /\ ~AfterDrain(r)
         /\ m \in inbox[r] /\ m.type = type
         /\ inbox'[r] \cup pending'[r] = inbox[r] \cup pending[r]
         /\ \A q \in Replica \ {r} : inbox'[q] = inbox[q] /\ pending'[q] = pending[q]
         /\ tomb' = tomb /\ disk' = disk /\ out' = out
<1>1. IndInv /\ Parts(r)
  BY DEF EndInv, Parts
<1>2. m \in inbox[r]
  BY DEF Accept, Deliverable
<1>3. inbox' = [inbox EXCEPT ![r] = @ \ {m}] /\ pending' = [pending EXCEPT ![r] = @ \cup {m}]
  BY DEF Accept
<1>4. inbox'[r] = inbox[r] \ {m} /\ pending'[r] = pending[r] \cup {m}
  BY <1>1, <1>3 DEF IndInv, TypeOK
<1>5. \A q \in Replica \ {r} : inbox'[q] = inbox[q] /\ pending'[q] = pending[q]
  BY <1>1, <1>3 DEF IndInv, TypeOK
<1>6. inbox'[r] \cup pending'[r] = inbox[r] \cup pending[r]
  BY <1>2, <1>4
<1> QED
  BY <1>1, <1>2, <1>5, <1>6, AcceptIs

(* A handler that does not publish. *)
LEMMA BatchEnd ==
  ASSUME EndInv, IndInv', NEW r \in Replica, NEW m, NEW type, Accept(r, m, type),
         NEW t, mem' = [mem EXCEPT ![r] = t], StateOK(r, t),
         t.outSeq = mem[r].outSeq, t.averagesEOF = mem[r].averagesEOF, t.p2EOF = mem[r].p2EOF,
         UNCHANGED <<outbox, phase>>,
         \A q \in Replica \ {r} : file'[q] = file[q] /\ unconfirmed'[q] = unconfirmed[q],
         LiveOK(r)', RepeatOK(r)'
  PROVE  EndInv'
<1>1. /\ Parts(r) /\ IndInv /\ phase[r] = "idle" /\ disk' = disk /\ tomb' = tomb /\ out' = out
      /\ inbox'[r] \cup pending'[r] = inbox[r] \cup pending[r]
      /\ \A q \in Replica \ {r} : inbox'[q] = inbox[q] /\ pending'[q] = pending[q]
  BY AcceptEnd
<1>2. mem'[r] = t /\ \A q \in Replica \ {r} : mem'[q] = mem[q]
  BY <1>1 DEF IndInv, TypeOK
<1>3. Kept \subseteq Kept'
  BY <1>1, <1>2, KeptGrows
<1>4. QueueOK(r)' /\ SendsOK(r)'
  BY <1>1, <1>3, QueueStays, SendsStay DEF Parts
<1>6. StateOK(r, mem[r])' /\ StateOK(r, disk[r].state)' /\ SavedOK(r)'
  BY <1>1, <1>2 DEF Parts, StateOK, SavedOK, Own
<1>7. FinishOK(r)'
  BY <1>1 DEF FinishOK
<1>8. EndOK(r)'
  <2>1. EOFsOf(r)' = EOFsOf(r)
    BY <1>1 DEF EOFsOf
  <2> QED
    BY <1>1, <2>1, HasRowStays DEF Parts, EndOK, Own
<1>9. Parts(r)'
  BY <1>4, <1>6, <1>7, <1>8 DEF Parts
<1> QED
  BY <1>1, <1>2, <1>3, <1>9, OneMoves

LEMMA StoreAveragesEnd ==
  ASSUME EndInv, NEW r \in Replica, NEW m, StoreAverages(r, m)
  PROVE  EndInv'
<1> DEFINE t == [mem[r] EXCEPT !.avg = TRUE]
<1>1. Accept(r, m, "averages")
  BY DEF StoreAverages
<1>2. /\ Parts(r) /\ IndInv /\ r \notin tomb /\ ~AfterDrain(r) /\ disk' = disk /\ tomb' = tomb /\ out' = out
  BY <1>1, AcceptEnd
<1>3. IndInv'
  BY <1>2, StoreAveragesInd
<1>4. mem[r] \in State
  BY <1>2, FieldsAre
<1>5. mem' = [mem EXCEPT ![r] = t] /\ UNCHANGED <<file, unconfirmed, outbox, phase>>
  BY DEF StoreAverages
<1>6. /\ t.seen = mem[r].seen /\ t.avg /\ t.outSeq = mem[r].outSeq
      /\ t.averagesEOF = mem[r].averagesEOF /\ t.p2EOF = mem[r].p2EOF
  BY <1>4 DEF State
<1> HIDE DEF t
<1>7. StateOK(r, t)
  BY <1>2, <1>6 DEF Parts, StateOK
<1>8. mem'[r] = t
  BY <1>2, <1>5 DEF IndInv, TypeOK
<1>9. LiveOK(r)'
  BY <1>2, <1>5, <1>6, <1>8 DEF Parts, LiveOK, HasRow
<1>10. RepeatOK(r)'
  <2>1. Drained(r)' = Drained(r)
    BY <1>2 DEF Drained
  <2> QED
    BY <1>2, <1>5, <2>1, RepeatStays DEF Parts
<1> QED
  BY <1>1, <1>3, <1>5, <1>6, <1>7, <1>9, <1>10, BatchEnd

LEMMA TakenIs ==
  ASSUME NEW s \in State, NEW b
  PROVE  /\ Taken(s, b).seen = s.seen \cup {b} /\ Taken(s, b).avg = s.avg /\ Taken(s, b).outSeq = s.outSeq
         /\ Taken(s, b).averagesEOF = s.averagesEOF /\ Taken(s, b).p2EOF = s.p2EOF
         /\ Recorded(Taken(s, b)).seen = s.seen \cup {b} /\ Recorded(Taken(s, b)).avg = s.avg
         /\ Recorded(Taken(s, b)).outSeq = s.outSeq
         /\ Recorded(Taken(s, b)).averagesEOF = s.averagesEOF /\ Recorded(Taken(s, b)).p2EOF = s.p2EOF
<1> DEFINE x == s.seen \cup {b}
           y == s.p2Seen + 1
           t == [s EXCEPT !.seen = x, !.p2Seen = y]
           u == Taken(s, b)
<1>1. u = t
  BY DEF Taken
<1> HIDE DEF x, y, u
<1>2. /\ t.seen = x /\ t.avg = s.avg /\ t.outSeq = s.outSeq
      /\ t.averagesEOF = s.averagesEOF /\ t.p2EOF = s.p2EOF
  BY DEF State
<1>3. DOMAIN t = DOMAIN s
  OBVIOUS
<1>4. DOMAIN s = {"seen", "avg", "averagesEOF", "p2EOF", "p2Seen", "buffered", "records",
                  "initiator", "cached", "coord", "outSeq"}
  BY DEF State
<1> HIDE DEF t
<1> DEFINE v == u.buffered + 1
           w == u.records + 1
           z == [u EXCEPT !.buffered = v, !.records = w]
<1>5. Recorded(u) = z
  BY DEF Recorded
<1> HIDE DEF v, w
<1>6. /\ z.seen = u.seen /\ z.avg = u.avg /\ z.outSeq = u.outSeq
      /\ z.averagesEOF = u.averagesEOF /\ z.p2EOF = u.p2EOF
  BY <1>1, <1>3, <1>4
<1> HIDE DEF z
<1> QED
  BY <1>1, <1>2, <1>5, <1>6 DEF x, u

(* A batch that arrives is one of the replica, and is not in the file of one *)
(* that was drained.                                                         *)
LEMMA BufferBatchEnd ==
  ASSUME EndInv, NEW r \in Replica, NEW m, BufferBatch(r, m)
  PROVE  EndInv'
<1> DEFINE b == m.batch
           t == Recorded(Taken(mem[r], b))
<1>1. Accept(r, m, "batch") /\ ~mem[r].averagesEOF
  BY DEF BufferBatch
<1>2. /\ Parts(r) /\ IndInv /\ r \notin tomb /\ ~AfterDrain(r) /\ disk' = disk /\ tomb' = tomb /\ out' = out
      /\ m \in inbox[r] /\ m.type = "batch" /\ phase[r] = "idle"
  BY <1>1, AcceptEnd
<1>3. IndInv'
  BY <1>2, BufferBatchInd
<1>4. mem[r] \in State /\ file[r] \in Seq(Batch) /\ ReplicaOK(r) /\ m \in Messages
  BY <1>2, FieldsAre
<1>5. b \in Own(r) /\ b \notin mem[r].seen
  <2>1. b \in Batch
    BY <1>2, <1>4, MessageKinds
  <2>2. home[b] = r
    BY <1>2 DEF Parts, QueueOK
  <2> QED
    BY <1>1, <1>2, <2>1, <2>2 DEF Own, Accept, Discarded
<1>6. /\ mem' = [mem EXCEPT ![r] = t] /\ file' = [file EXCEPT ![r] = Append(@, b)]
      /\ UNCHANGED <<unconfirmed, outbox, phase>>
  BY DEF BufferBatch
<1>7. /\ t.seen = mem[r].seen \cup {b} /\ t.avg = mem[r].avg /\ t.outSeq = mem[r].outSeq
      /\ t.averagesEOF = mem[r].averagesEOF /\ t.p2EOF = mem[r].p2EOF
  BY <1>4, TakenIs
<1> HIDE DEF t, b
<1>8. StateOK(r, t)
  BY <1>2, <1>5, <1>7 DEF Parts, StateOK
<1>9. mem'[r] = t /\ file'[r] = Append(file[r], b) /\ \A q \in Replica \ {r} : file'[q] = file[q]
  BY <1>2, <1>6 DEF IndInv, TypeOK
<1>10. LiveOK(r)'
  <2>1. b \in Batch
    BY <1>5 DEF Own
  <2> DEFINE f == file[r]
             a == Append(f, b)
  <2>2. /\ Len(a) = Len(f) + 1 /\ Len(f) \in Nat /\ a[Len(f) + 1] = b
        /\ \A i \in 1 .. Len(f) : a[i] = f[i]
    BY <1>4, <2>1, ElementsAfterAppend
  <2> HIDE DEF a
  <2>3. 1 .. Len(f) \subseteq 1 .. Len(a) /\ Len(f) + 1 \in 1 .. Len(a)
    BY <2>2
  <2>4. ToSet(f) \subseteq ToSet(a) /\ b \in ToSet(a)
    BY <2>2, <2>3 DEF ToSet
  <2>5. \A c \in mem[r].seen \cap Passing : HasRow(c) \/ c \in unconfirmed[r] \/ c \in ToSet(f)
    BY <1>2 DEF Parts, LiveOK
  <2>6. \A c : HasRow(c)' <=> HasRow(c)
    BY <1>2 DEF HasRow
  <2>7. \A c \in t.seen \cap Passing : HasRow(c)' \/ c \in unconfirmed[r] \/ c \in ToSet(a)
    BY <1>7, <2>4, <2>5, <2>6
  <2>8. unconfirmed[r] \cap disk[r].state.seen = {}
    BY <1>2 DEF Parts, LiveOK
  <2> QED
    BY <1>2, <1>6, <1>9, <2>7, <2>8 DEF LiveOK, a
<1>11. RepeatOK(r)'
  <2>1. ~FileIsFinal(r)
    BY <1>1, <1>2, <1>4, <1>5 DEF FileIsFinal, Parts, SavedOK, ReplicaOK
  <2>2. Drained(r) = {}
    BY <1>2, <2>1 DEF Parts, RepeatOK
  <2>3. Drained(r)' = {}
    BY <1>2, <2>2 DEF Drained
  <2> QED
    BY <2>3 DEF RepeatOK
<1> QED
  BY <1>1, <1>3, <1>6, <1>7, <1>8, <1>9, <1>10, <1>11, BatchEnd

LEMMA FilterBatchEnd ==
  ASSUME EndInv, NEW r \in Replica, NEW m, FilterBatch(r, m)
  PROVE  EndInv'
<1> DEFINE b == m.batch
           t == Taken(mem[r], b)
<1>1. Accept(r, m, "batch") /\ mem[r].averagesEOF
  BY DEF FilterBatch
<1>2. /\ Parts(r) /\ IndInv /\ r \notin tomb /\ ~AfterDrain(r) /\ disk' = disk /\ tomb' = tomb /\ out' = out
      /\ m \in inbox[r] /\ m.type = "batch" /\ phase[r] = "idle"
  BY <1>1, AcceptEnd
<1>3. IndInv'
  BY <1>2, FilterBatchInd
<1>4. mem[r] \in State /\ m \in Messages /\ ReplicaOK(r)
  BY <1>2, FieldsAre
<1>5. b \in Batch /\ home[b] = r /\ b \notin mem[r].seen
  BY <1>1, <1>2, <1>4, MessageKinds DEF Parts, QueueOK, Accept, Discarded
<1>6. mem' = [mem EXCEPT ![r] = t] /\ UNCHANGED <<file, outbox, phase>>
  BY DEF FilterBatch
<1>7. /\ t.seen = mem[r].seen \cup {b} /\ t.avg = mem[r].avg /\ t.outSeq = mem[r].outSeq
      /\ t.averagesEOF = mem[r].averagesEOF /\ t.p2EOF = mem[r].p2EOF
  BY <1>4, TakenIs
<1> HIDE DEF t
<1>8. StateOK(r, t)
  BY <1>2, <1>5, <1>7 DEF Parts, StateOK, Own
<1>9. mem'[r] = t
  BY <1>2, <1>6 DEF IndInv, TypeOK
<1>10. /\ unconfirmed'[r] = IF Passes(mem[r], b) THEN unconfirmed[r] \cup {b} ELSE unconfirmed[r]
       /\ \A q \in Replica \ {r} : unconfirmed'[q] = unconfirmed[q]
  BY <1>2 DEF FilterBatch, IndInv, TypeOK
<1> HIDE DEF b
<1>11. b \in Passing => b \in unconfirmed'[r]
  <2>1. mem[r].avg
    BY <1>1, <1>2 DEF Parts, StateOK
  <2> QED
    BY <1>10, <2>1 DEF Passes
<1>12. \A c : HasRow(c)' <=> HasRow(c)
  BY <1>2 DEF HasRow
<1>13. LiveOK(r)'
  <2>1. /\ unconfirmed[r] \cap disk[r].state.seen = {}
        /\ \A c \in mem[r].seen \cap Passing : HasRow(c) \/ c \in unconfirmed[r] \/ c \in ToSet(file[r])
    BY <1>2 DEF Parts, LiveOK
  <2>2. b \notin disk[r].state.seen
    BY <1>4, <1>5 DEF ReplicaOK
  <2>3. unconfirmed'[r] \cap disk[r].state.seen = {}
    BY <1>10, <2>1, <2>2
  <2>4. \A c \in t.seen \cap Passing : HasRow(c)' \/ c \in unconfirmed'[r] \/ c \in ToSet(file[r])
    BY <1>7, <1>10, <1>11, <1>12, <2>1
  <2> QED
    BY <1>2, <1>6, <1>9, <2>3, <2>4 DEF LiveOK
<1>14. RepeatOK(r)'
  <2>1. Drained(r)' = Drained(r)
    BY <1>2 DEF Drained
  <2> QED
    BY <1>2, <1>6, <2>1, RepeatStays DEF Parts
<1>15. UNCHANGED <<outbox, phase>> /\ \A q \in Replica \ {r} : file'[q] = file[q] /\ unconfirmed'[q] = unconfirmed[q]
  BY <1>6, <1>10
<1>16. mem' = [mem EXCEPT ![r] = t]
  BY <1>6
<1> QED
  BY <1>1, <1>3, <1>7, <1>8, <1>13, <1>14, <1>15, <1>16, BatchEnd

LEMMA ConfirmEnd ==
  ASSUME EndInv, NEW r \in Replica, NEW b, Confirm(r, b)
  PROVE  EndInv'
<1>1. IndInv /\ IndInv'
  BY ConfirmInd DEF EndInv
<1> PICK row : row = Row(home[b], 0, b)
  OBVIOUS
<1>2. row.type = "row" /\ row.seq = 0 /\ row.batch = b
  BY DEF Row
<1>3. /\ out' = Accepted(row)
      /\ UNCHANGED <<inbox, pending, mem, disk, file, tomb, outbox, phase>>
      /\ \A q \in Replica : unconfirmed'[q] \subseteq unconfirmed[q] /\ unconfirmed[q] \ unconfirmed'[q] \subseteq {b}
  BY <1>1 DEF Confirm, IndInv, TypeOK
<1>4. out \subseteq out' /\ \A o \in out' \ out : IsRow(o) /\ o.seq = 0
  BY <1>2, <1>3 DEF Accepted, IsRow
<1>5. HasRow(b)'
  <2>1. \E o \in out' : o.type = "row" /\ o.batch = b
    BY <1>2, <1>3 DEF Accepted, Known
  <2> QED
    BY <2>1 DEF HasRow, IsRow
<1>6. Kept \subseteq Kept'
  BY <1>3 DEF Kept
<1>7. \A q \in Replica : Parts(q)'
  BY <1>3, <1>4, <1>5, <1>6, PartsStay
<1> QED
  BY <1>1, <1>7 DEF EndInv, Parts

LEMMA CheckpointEnd ==
  ASSUME EndInv, NEW r \in Replica, Checkpoint(r)
  PROVE  EndInv'
<1> DEFINE d == disk[r].state
<1>1. Parts(r) /\ IndInv
  BY DEF EndInv, Parts
<1>2. IndInv'
  BY <1>1, CheckpointInd
<1>3. mem[r] \in State /\ d \in State /\ ReplicaOK(r)
  BY <1>1, FieldsAre
<1>4. phase[r] # "complete" /\ outbox[r] = <<>> /\ r \notin tomb /\ ~AfterDrain(r)
  BY <1>3 DEF Checkpoint, ReplicaOK, AfterDrain
<1>5. /\ disk'[r].state = mem[r] /\ phase'[r] = "idle" /\ pending'[r] = {}
      /\ unconfirmed[r] = {} /\ UNCHANGED <<inbox, mem, file, tomb, unconfirmed, outbox, out>>
      /\ \A q \in Replica \ {r} : disk'[q] = disk[q] /\ phase'[q] = phase[q] /\ pending'[q] = pending[q]
  BY <1>1 DEF Checkpoint, IndInv, TypeOK
<1>6. d.seen \subseteq mem[r].seen
  BY <1>3 DEF ReplicaOK
<1>7. Kept \subseteq Kept'
  BY <1>5, <1>6, KeptGrows
<1>8. QueueOK(r)'
  BY <1>1, <1>5, <1>7, QueueStays DEF Parts
<1>9. SendsOK(r)'
  BY <1>4, <1>5, EmptySeq DEF SendsOK
<1>10. StateOK(r, mem[r])' /\ StateOK(r, disk[r].state)' /\ SavedOK(r)'
  <2>1. mem[r].outSeq <= mem[r].outSeq
    BY <1>3 DEF State
  <2> QED
    BY <1>1, <1>5, <2>1 DEF Parts, StateOK, SavedOK, Own
<1>11. LiveOK(r)' /\ EndOK(r)' /\ FinishOK(r)'
  BY <1>1, <1>4, <1>5 DEF Parts, LiveOK, EndOK, EOFsOf, FinishOK, HasRow, Own
<1>12. RepeatOK(r)'
  <2>1. Drained(r)' = Drained(r)
    BY <1>5 DEF Drained
  <2>2. FileIsFinal(r) => FileIsFinal(r)'
    BY <1>1, <1>5, <1>6 DEF FileIsFinal, Parts, SavedOK, Own
  <2>3. d.outSeq <= mem[r].outSeq /\ d.outSeq \in Nat /\ mem[r].outSeq \in Nat
    BY <1>1, <1>3 DEF Parts, SavedOK, State
  <2>4. Count(file[r])' = Count(file[r]) /\ \A i : RowAt(file[r], i)' = RowAt(file[r], i) /\ (HasRow(i)' <=> HasRow(i))
    BY <1>5 DEF Count, Wanted, RowAt, Nth, HasRow
  <2>5. ASSUME NEW o \in Drained(r), NEW i \in 1 .. Count(file[r]), mem[r].outSeq + i <= o.seq
        PROVE  HasRow(RowAt(file[r], i))
    <3>1. o.seq \in Nat
      BY <1>1 DEF Drained, IndInv, TypeOK, Outputs, IsRow
    <3>2. d.outSeq + i <= o.seq
      BY <2>3, <2>5, <3>1
    <3> QED
      BY <1>1, <1>4, <3>2 DEF Parts, RepeatOK
  <2> QED
    BY <1>1, <1>4, <1>5, <2>1, <2>2, <2>4, <2>5 DEF Parts, RepeatOK
<1>13. Parts(r)'
  BY <1>8, <1>9, <1>10, <1>11, <1>12 DEF Parts
<1> QED
  BY <1>2, <1>5, <1>7, <1>13, OneMoves

LEMMA CompleteEnd ==
  ASSUME EndInv, NEW r \in Replica, Complete(r)
  PROVE  EndInv'
<1>1. Parts(r) /\ IndInv
  BY DEF EndInv, Parts
<1>2. IndInv'
  BY <1>1, CompleteInd
<1>3. /\ mem'[r] = Fresh /\ disk'[r] = NoCheckpoint /\ phase'[r] = "idle" /\ pending'[r] = {}
      /\ tomb' = tomb \cup {r} /\ outbox[r] = <<>>
      /\ unconfirmed[r] = {} /\ UNCHANGED <<inbox, file, unconfirmed, outbox, out>>
      /\ \A q \in Replica \ {r} : /\ mem'[q] = mem[q] /\ disk'[q] = disk[q]
                                  /\ phase'[q] = phase[q] /\ pending'[q] = pending[q]
  BY <1>1 DEF Complete, IndInv, TypeOK
<1>4. Kept \subseteq Kept'
  BY <1>3, KeptGrows
<1>5. QueueOK(r)'
  BY <1>1, <1>3, <1>4, QueueStays DEF Parts
<1>6. SendsOK(r)'
  BY <1>3, EmptySeq DEF SendsOK
<1>7. /\ disk'[r].state = Fresh
      /\ Fresh.seen = {} /\ ~Fresh.p2EOF /\ ~Fresh.averagesEOF /\ Fresh.outSeq <= Fresh.outSeq
  BY <1>3 DEF Fresh, NoCheckpoint
<1>8. StateOK(r, mem[r])' /\ StateOK(r, disk[r].state)' /\ SavedOK(r)'
  BY <1>3, <1>7 DEF StateOK, SavedOK
<1>9. LiveOK(r)' /\ EndOK(r)' /\ FinishOK(r)' /\ RepeatOK(r)'
  BY <1>1, <1>3 DEF Parts, LiveOK, EndOK, EOFsOf, FinishOK, RepeatOK, HasRow, Own
<1>10. Parts(r)'
  BY <1>5, <1>6, <1>8, <1>9 DEF Parts
<1> QED
  BY <1>2, <1>3, <1>4, <1>10, OneMoves

LEMMA RecoveredKeeps ==
  ASSUME NEW d \in State, NEW f \in Seq(Batch)
  PROVE  /\ Recovered(d, f).avg = d.avg /\ Recovered(d, f).outSeq = d.outSeq
         /\ Recovered(d, f).averagesEOF = d.averagesEOF /\ Recovered(d, f).p2EOF = d.p2EOF
<1> DEFINE n == Len(f)
           x == d.seen \cup RecoveredBuffer(f).headers
           y == d.p2Seen + Beyond(d, f)
           z == RecoveredBuffer(f).items
           t == [d EXCEPT !.seen = x, !.p2Seen = y, !.buffered = z, !.records = n]
<1>1. Recovered(d, f) = t
  BY DEF Recovered
<1> HIDE DEF x, y, z, n
<1>2. t.avg = d.avg /\ t.outSeq = d.outSeq /\ t.averagesEOF = d.averagesEOF /\ t.p2EOF = d.p2EOF
  BY DEF State
<1> QED
  BY <1>1, <1>2

(* What is loaded is known to be own, and is in the file or in the result.   *)
LEMMA CrashEnd ==
  ASSUME Windows = {}, EndInv, NEW r \in Replica, Crash(r)
  PROVE  EndInv'
<1> DEFINE d == disk[r].state
           t == Load(r)
<1>1. Parts(r) /\ IndInv
  BY DEF EndInv, Parts
<1>2. IndInv'
  BY <1>1, CrashInd
<1>3. mem[r] \in State /\ d \in State /\ ReplicaOK(r) /\ file[r] \in Seq(Batch)
  BY <1>1, FieldsAre
<1>4. r \notin tomb /\ ~AfterDrain(r) /\ phase[r] # "forward" /\ Unharmed
  BY DEF Crash, Forwarding, Unharmed
<1>5. /\ mem'[r] = t /\ inbox'[r] = inbox[r] \cup pending[r] /\ pending'[r] = {}
      /\ outbox'[r] = <<>> /\ phase'[r] = "idle" /\ UNCHANGED <<disk, file, tomb, out>>
      /\ \A q \in Replica \ {r} :
           /\ mem'[q] = mem[q] /\ outbox'[q] = outbox[q] /\ phase'[q] = phase[q]
           /\ inbox'[q] = inbox[q] /\ pending'[q] = pending[q] /\ unconfirmed'[q] = unconfirmed[q]
      /\ unconfirmed'[r] = {}
  BY <1>1 DEF Crash, IndInv, TypeOK
<1>6. /\ t.seen \subseteq mem[r].seen /\ t.avg = d.avg /\ t.outSeq = d.outSeq
      /\ t.averagesEOF = d.averagesEOF /\ t.p2EOF = d.p2EOF /\ d.seen \subseteq t.seen
  <2>1. CASE disk[r].exists
    <3>1. t = Recovered(d, file[r])
      BY <2>1 DEF Load
    <3>2. FileOK(mem[r], d, file[r]) /\ d.seen \subseteq mem[r].seen
      BY <1>3, <1>4 DEF ReplicaOK
    <3> HIDE DEF d, t
    <3>3. ToSet(file[r]) \subseteq mem[r].seen
      BY <1>4, <3>2 DEF FileOK, ToSet
    <3> QED
      BY <1>3, <3>1, <3>2, <3>3, RecoveredIs, RecoveredKeeps
  <2>2. CASE ~disk[r].exists
    <3>1. t = Fresh /\ d = Fresh
      BY <1>3, <2>2 DEF Load, ReplicaOK
    <3> QED
      BY <3>1, FreshOK
  <2> QED
    BY <2>1, <2>2
<1> HIDE DEF t
<1>7. Kept \subseteq Kept'
  BY <1>4, <1>5, KeptGrows
<1>8. QueueOK(r)'
  BY <1>1, <1>5, <1>7, QueueStays DEF Parts
<1>9. SendsOK(r)' /\ FinishOK(r)'
  BY <1>5, EmptySeq DEF SendsOK, FinishOK
<1>10. StateOK(r, mem[r])' /\ StateOK(r, disk[r].state)' /\ SavedOK(r)'
  <2>1. d.outSeq <= d.outSeq
    BY <1>3 DEF State
  <2> QED
    BY <1>1, <1>5, <1>6, <2>1 DEF Parts, StateOK, SavedOK, Own
<1>11. LiveOK(r)' /\ EndOK(r)'
  <2>1. t.seen \subseteq d.seen \cup ToSet(file[r])
    <3>1. CASE disk[r].exists
      <4>1. t = Recovered(d, file[r])
        BY <3>1 DEF Load, t
      <4> HIDE DEF d
      <4> QED
        BY <1>3, <4>1, RecoveredIs
    <3>2. CASE ~disk[r].exists
      BY <3>2, FreshOK DEF Load, t
    <3> QED
      BY <3>1, <3>2
  <2>2. /\ unconfirmed[r] \cap d.seen = {}
        /\ \A b \in mem[r].seen \cap Passing : HasRow(b) \/ b \in unconfirmed[r] \/ b \in ToSet(file[r])
    BY <1>1, <1>4 DEF Parts, LiveOK
  <2>3. \A b \in t.seen \cap Passing : HasRow(b) \/ b \in ToSet(file[r])
    BY <1>6, <2>1, <2>2
  <2>4. \A b : HasRow(b)' <=> HasRow(b)
    BY <1>5 DEF HasRow
  <2>5. LiveOK(r)'
    BY <1>5, <2>3, <2>4 DEF LiveOK
  <2>6. EndOK(r)'
    BY <1>1, <1>5, <2>4 DEF Parts, EndOK, EOFsOf, Own
  <2> QED
    BY <2>5, <2>6
<1>12. RepeatOK(r)'
  <2>1. Drained(r)' = Drained(r)
    BY <1>5 DEF Drained
  <2> QED
    BY <1>1, <1>5, <2>1, RepeatStays DEF Parts
<1>13. Parts(r)'
  BY <1>8, <1>9, <1>10, <1>11, <1>12 DEF Parts
<1> QED
  BY <1>2, <1>5, <1>7, <1>13, OneMoves

(* What Send does with the kinds of messages. *)
LEMMA SendIs ==
  ASSUME IndInv, NEW r \in Replica, NEW m \in Sendable, Send(r, m)
  PROVE  /\ m.type = "token" => /\ inbox' = [inbox EXCEPT ![Successor(r)] = @ \cup {m}]
                                /\ file' = file /\ out' = out /\ m \in Tokens
         /\ m.type = "eof" => inbox' = [inbox EXCEPT ![r] = @ \cup {m}] /\ file' = file /\ out' = out
         /\ m.type = "remove" => inbox' = inbox /\ file' = [file EXCEPT ![r] = <<>>] /\ out' = out
         /\ m.type \in {"row", "outeof"} => inbox' = inbox /\ file' = file /\ out' = Accepted(m) /\ unconfirmed[r] = {}
         /\ m.type \in {"token", "eof", "remove", "row", "outeof"}
<1>1. m.type \in {"token", "eof", "remove", "row", "outeof"}
  BY DEF Sendable, Coordination, EOFs, Tokens, Outputs, Removal
<1>2. m.type = "token" => m \in Tokens
  BY DEF Sendable, Coordination, EOFs, Tokens, Outputs, Removal
<1> QED
  BY <1>1, <1>2 DEF Send

(* A row that is published is in then, also if its number was taken. *)
LEMMA RowGetsIn ==
  ASSUME EndInv, NEW r \in Replica, outbox[r] # <<>>, NEW m, m = outbox[r][1], IsRow(m), out' = Accepted(m)
  PROVE  HasRow(m.batch)'
<1> DEFINE q == outbox[r]
<1>1. IndInv /\ Parts(r)
  BY DEF EndInv, Parts
<1>2. q \in Seq(Sendable) /\ q # <<>>
  BY <1>1, FieldsAre
<1>3. 1 \in 1 .. Len(q)
  BY <1>2, EmptySeq, LenProperties
<1>4. m.sender = r /\ phase[r] = "complete" /\ m.type = "row"
  BY <1>1, <1>3 DEF Parts, SendsOK, SendOK, IsRow
<1>5. m \in Outputs
  BY <1>2, <1>3, <1>4, ElementOfSeq DEF Sendable, Coordination, EOFs, Tokens, Removal
<1>6. m.seq \in Nat
  BY <1>5 DEF Outputs
<1>7. CASE Known(m)
  <2>1. PICK o \in out : o.type = "row" /\ o.sender = m.sender /\ o.seq = m.seq /\ (m.seq = 0 => o.batch = m.batch)
    BY <1>4, <1>7 DEF Known
  <2>2. CASE m.seq = 0
    BY <1>7, <2>1, <2>2 DEF HasRow, IsRow, Accepted
  <2>3. CASE m.seq > 0
    <3>1. o \in Drained(r) /\ m.seq <= o.seq
      BY <1>4, <1>6, <2>1, <2>3 DEF Drained, IsRow
    <3>2. HasRow(m.batch)
      BY <1>1, <1>3, <1>4, <3>1 DEF Parts, FinishOK
    <3> QED
      BY <1>7, <3>2 DEF HasRow, Accepted
  <2> QED
    BY <1>6, <2>2, <2>3
<1>8. CASE ~Known(m)
  BY <1>8 DEF HasRow, Accepted
<1> QED
  BY <1>7, <1>8

(* The tail of a sequence of sends. *)
LEMMA TailOfSends ==
  ASSUME NEW q \in Seq(Sendable), q # <<>>
  PROVE  /\ Head(q) = q[1] /\ 1 \in 1 .. Len(q) /\ Tail(q) \in Seq(Sendable) /\ Len(q) \in Nat
         /\ Len(Tail(q)) = Len(q) - 1
         /\ \A i \in 1 .. Len(Tail(q)) : i + 1 \in 1 .. Len(q) /\ Tail(q)[i] = q[i + 1]
         /\ \A i \in 1 .. Len(q) : i = 1 \/ (i - 1 \in 1 .. Len(Tail(q)) /\ Tail(q)[i - 1] = q[i])
<1>1. Len(q) \in Nat /\ Len(q) # 0
  BY EmptySeq, LenProperties
<1>2. /\ Head(q) = q[1] /\ Tail(q) \in Seq(Sendable) /\ Len(Tail(q)) = Len(q) - 1
      /\ \A i \in 1 .. Len(Tail(q)) : Tail(q)[i] = q[i + 1]
  BY HeadTailProperties
<1> DEFINE n == Len(q)
           t == Tail(q)
<1> HIDE DEF n, t
<1>3. \A i \in 1 .. n - 1 : i + 1 \in 1 .. n
  BY <1>1 DEF n
<1>4. \A i \in 1 .. n : i = 1 \/ (i - 1 \in 1 .. n - 1 /\ i = (i - 1) + 1)
  BY <1>1 DEF n
<1>5. \A i \in 1 .. n - 1 : t[i] = q[i + 1]
  BY <1>2 DEF n, t
<1>6. \A i \in 1 .. n : i = 1 \/ (i - 1 \in 1 .. n - 1 /\ t[i - 1] = q[i])
  BY <1>4, <1>5
<1> QED
  BY <1>1, <1>2, <1>3, <1>6 DEF n, t

LEMMA PublishEnd ==
  ASSUME EndInv, NEW r \in Replica, Publish(r)
  PROVE  EndInv'
<1>1. Parts(r) /\ IndInv /\ TypeOK
  BY DEF EndInv, Parts, IndInv
<1> PICK q : q = outbox[r]
  OBVIOUS
<1> PICK m : m = Head(q)
  OBVIOUS
<1> PICK rest : rest = Tail(q)
  OBVIOUS
<1> PICK d : d = disk[r].state
  OBVIOUS
<1> PICK f : f = file[r]
  OBVIOUS
<1>2. IndInv'
  BY <1>1, PublishInd
<1>3. q \in Seq(Sendable) /\ q # <<>> /\ d \in State /\ f \in Seq(Batch)
  BY <1>1, FieldsAre DEF Publish
<1>4. /\ m = q[1] /\ 1 \in 1 .. Len(q) /\ rest \in Seq(Sendable) /\ Len(q) \in Nat /\ Len(rest) = Len(q) - 1
      /\ \A i \in 1 .. Len(rest) : i + 1 \in 1 .. Len(q) /\ rest[i] = q[i + 1]
      /\ \A i \in 1 .. Len(q) : i = 1 \/ (i - 1 \in 1 .. Len(rest) /\ rest[i - 1] = q[i])
  BY <1>3, TailOfSends
<1>5. m \in Sendable
  BY <1>3, <1>4, ElementOfSeq
<1>6. /\ Send(r, m) /\ UNCHANGED <<pending, mem, disk, tomb, unconfirmed, phase>>
      /\ outbox'[r] = rest /\ \A p \in Replica \ {r} : outbox'[p] = outbox[p]
  BY <1>1 DEF Publish, TypeOK
<1>7. /\ SendOK(r, phase[r], q, 1) /\ (m.type = "token" => TokenOK(m))
      /\ SendsOK(r) /\ FinishOK(r) /\ RepeatOK(r)
  BY <1>1, <1>4 DEF Parts, SendsOK
<1>8. /\ m.type = "token" => /\ inbox' = [inbox EXCEPT ![Successor(r)] = @ \cup {m}]
                             /\ file' = file /\ out' = out /\ m \in Tokens
      /\ m.type = "eof" => inbox' = [inbox EXCEPT ![r] = @ \cup {m}] /\ file' = file /\ out' = out
      /\ m.type = "remove" => inbox' = inbox /\ file' = [file EXCEPT ![r] = <<>>] /\ out' = out
      /\ m.type \in {"row", "outeof"} => inbox' = inbox /\ file' = file /\ out' = Accepted(m) /\ unconfirmed[r] = {}
      /\ m.type \in {"token", "eof", "remove", "row", "outeof"}
  BY <1>1, <1>5, <1>6, SendIs
<1>9. Kept \subseteq Kept'
  BY <1>6 DEF Kept
<1>10. out \subseteq out' /\ \A o \in out' \ out : o = m /\ m.type \in {"row", "outeof"}
  BY <1>8 DEF Accepted
<1>11. /\ m.type = "token" => m.sender = r
       /\ m.type = "eof" => r = 0
       /\ m.type \in {"row", "outeof"} => m.sender = r /\ phase[r] = "complete"
  BY <1>4, <1>7 DEF SendOK, IsRow
<1>12. \A p \in Replica : \A n \in inbox'[p] :
         n \in inbox[p] \/ (n.type = "token" /\ Successor(n.sender) = p /\ TokenOK(n)') \/ (n.type = "eof" /\ p = r /\ r = 0)
  <2>1. m.type = "token" => TokenOK(m)'
    BY <1>7, <1>8, <1>9, TokenStays
  <2> SUFFICES ASSUME NEW p \in Replica, NEW n \in inbox'[p], n \notin inbox[p]
               PROVE  (n.type = "token" /\ Successor(n.sender) = p /\ TokenOK(n)') \/ (n.type = "eof" /\ p = r /\ r = 0)
    OBVIOUS
  <2>2. CASE m.type = "token"
    <3>1. n = m /\ p = Successor(r)
      BY <1>1, <1>8, <2>2 DEF TypeOK
    <3> QED
      BY <1>11, <2>1, <2>2, <3>1
  <2>3. CASE m.type = "eof"
    <3>1. n = m /\ p = r
      BY <1>1, <1>8, <2>3 DEF TypeOK
    <3> QED
      BY <1>11, <2>3, <3>1
  <2> QED
    BY <1>8, <2>2, <2>3
<1>13. QueueOK(r)'
  <2>1. \A n \in inbox'[r] \cup pending'[r] :
           \/ n \in inbox[r] \cup pending[r]
           \/ /\ n.type = "batch" => home[n.batch] = r
              /\ n.type = "token" => Successor(n.sender) = r /\ TokenOK(n)'
              /\ n.type = "eof" => n.sender = Aggregator \/ r = 0
    BY <1>6, <1>12
  <2> QED
    BY <1>1, <1>9, <2>1, QueueStays DEF Parts
<1>14. SendsOK(r)'
  <2> SUFFICES ASSUME NEW i \in 1 .. Len(rest)
               PROVE  SendOK(r, phase[r], rest, i) /\ (rest[i].type = "token" => TokenOK(rest[i])')
    BY <1>6 DEF SendsOK
  <2>1. i + 1 \in 1 .. Len(q) /\ rest[i] = q[i + 1] /\ rest[i] \in Sendable
    BY <1>4, ElementOfSeq
  <2>2. SendOK(r, phase[r], q, i + 1) /\ (rest[i].type = "token" => TokenOK(rest[i]))
    BY <1>7, <2>1 DEF SendsOK
  <2>3. \A j \in i .. Len(rest) : j + 1 \in i + 1 .. Len(q) /\ rest[j] = q[j + 1]
    BY <1>4
  <2>4. SendOK(r, phase[r], rest, i)
    BY <2>1, <2>2, <2>3 DEF SendOK
  <2>5. rest[i].type = "token" => rest[i] \in Tokens
    BY <2>1 DEF Sendable, Coordination, EOFs, Tokens, Outputs, Removal
  <2> QED
    BY <1>9, <2>2, <2>4, <2>5, TokenStays
<1>15. StateOK(r, mem[r])' /\ StateOK(r, disk[r].state)' /\ SavedOK(r)'
  BY <1>1, <1>6 DEF Parts, StateOK, SavedOK, Own
<1>16. \A b : HasRow(b) => HasRow(b)'
  BY <1>10, HasRowStays
<1>17. m.type = "remove" => phase[r] = "complete" /\ file'[r] = <<>> /\ AfterDrain(r)'
  <2>1. m.type = "remove" => m = Removal
    BY <1>5 DEF Sendable, Coordination, EOFs, Tokens, Outputs
  <2>2. ReplicaOK(r)
    BY <1>1, FieldsAre
  <2>3. m = Removal => phase[r] = "complete" /\ mem[r].records > 0
    BY <1>4, <2>2 DEF ReplicaOK, NoRemoval
  <2>4. m.type = "remove" => file'[r] = <<>>
    BY <1>1, <1>8 DEF TypeOK
  <2> QED
    BY <1>6, <2>1, <2>3, <2>4 DEF AfterDrain
<1>18. m.type # "remove" => file' = file
  BY <1>8
<1>19. LiveOK(r)'
  <2>1. CASE m.type = "remove"
    BY <1>1, <1>6, <1>17, <2>1 DEF Parts, LiveOK
  <2>2. CASE m.type # "remove"
    BY <1>1, <1>6, <1>16, <1>18, <2>2 DEF Parts, LiveOK, AfterDrain
  <2> QED
    BY <2>1, <2>2
<1>20. IsRow(m) => HasRow(m.batch)'
  BY <1>3, <1>4, <1>8, RowGetsIn DEF IsRow
<1>21. phase[r] = "complete" =>
         /\ Rising(q)
         /\ \A b \in Own(r) \cap Passing :
              HasRow(b) \/ b \in unconfirmed[r] \/ \E i \in 1 .. Len(q) : IsRow(q[i]) /\ q[i].batch = b
         /\ \A o \in Drained(r), i \in 1 .. Len(q) : IsRow(q[i]) /\ q[i].seq <= o.seq => HasRow(q[i].batch)
         /\ \A i \in 1 .. Count(f) :
              \/ HasRow(RowAt(f, i))
              \/ \E j \in 1 .. Len(q) : q[j] = Row(r, d.outSeq + i, RowAt(f, i))
  BY <1>7 DEF FinishOK
<1>22. FileIsFinal(r)' <=> FileIsFinal(r)
  BY <1>6 DEF FileIsFinal, Own
<1>23. \A o \in Drained(r)' : o \in Drained(r) \/ (o = m /\ IsRow(m) /\ phase[r] = "complete")
  BY <1>10, <1>11 DEF Drained, IsRow
<1>24. /\ file'[r] = <<>> \/ file'[r] = f
       /\ Count(<<>>) = 0
  <2>1. Wanted(<<>>) = {}
    BY EmptySeq DEF Wanted
  <2> QED
    BY <1>17, <1>18, <2>1, FS_EmptySet DEF Count
<1>25. \A i : file'[r] = f => RowAt(file[r], i)' = RowAt(f, i) /\ Count(file[r])' = Count(f)
  BY DEF RowAt, Count, Wanted, Nth
<1>26. file'[r] = <<>> => Count(file[r])' = 0
  BY <1>24 DEF Count, Wanted
<1>27. IsRow(m) => m.seq \in Nat /\ m.seq <= m.seq
  BY <1>5 DEF Sendable, Coordination, EOFs, Tokens, Outputs, Removal, IsRow
(* The rows that come later have higher numbers. *)
<1>28. phase[r] = "complete" /\ IsRow(m) =>
         \A i \in 1 .. Len(rest) : IsRow(rest[i]) => ~(rest[i].seq <= m.seq)
  <2> SUFFICES ASSUME phase[r] = "complete", IsRow(m), NEW i \in 1 .. Len(rest), IsRow(rest[i])
               PROVE  ~(rest[i].seq <= m.seq)
    OBVIOUS
  <2>1. i + 1 \in 1 .. Len(q) /\ rest[i] = q[i + 1] /\ 1 < i + 1 /\ rest[i] \in Sendable
    BY <1>4, ElementOfSeq
  <2>2. m.seq < rest[i].seq
    BY <1>4, <1>21, <2>1 DEF Rising
  <2>3. rest[i].seq \in Nat
    BY <2>1 DEF Sendable, Coordination, EOFs, Tokens, Outputs, Removal, IsRow
  <2> QED
    BY <1>27, <2>2, <2>3
<1>29. \A c, i : IsRow(Row(r, i, c)) /\ Row(r, i, c).seq = i /\ Row(r, i, c).batch = c
  BY DEF Row, IsRow
<1>30. RepeatOK(r)'
  <2> SUFFICES ASSUME r \notin tomb
               PROVE  /\ Drained(r)' # {} => FileIsFinal(r)'
                      /\ \A o \in Drained(r)', i \in 1 .. Count(file[r])' :
                           d.outSeq + i <= o.seq => HasRow(RowAt(file[r], i))'
    BY <1>6 DEF RepeatOK
  <2>1. Drained(r)' # {} => FileIsFinal(r)'
    BY <1>7, <1>22, <1>23 DEF RepeatOK, FinishOK
  <2>2. ASSUME NEW o \in Drained(r)', NEW i \in 1 .. Count(file[r])', d.outSeq + i <= o.seq
        PROVE  HasRow(RowAt(file[r], i))'
    <3>1. file'[r] = f
      BY <1>24, <1>26, <2>2
    <3>2. RowAt(file[r], i)' = RowAt(f, i) /\ i \in 1 .. Count(f)
      BY <1>25, <2>2, <3>1
    <3>3. CASE o \in Drained(r)
      <4>1. HasRow(RowAt(f, i))
        BY <1>7, <2>2, <3>2, <3>3 DEF RepeatOK
      <4> QED
        BY <1>16, <3>2, <4>1 DEF HasRow
    <3>4. CASE o = m /\ IsRow(m) /\ phase[r] = "complete"
      <4>1. CASE HasRow(RowAt(f, i))
        BY <1>16, <3>2, <4>1 DEF HasRow
      <4>2. CASE ~HasRow(RowAt(f, i))
        <5>1. PICK j \in 1 .. Len(q) : q[j] = Row(r, d.outSeq + i, RowAt(f, i))
          BY <1>21, <3>2, <3>4, <4>2
        <5>2. IsRow(q[j]) /\ q[j].seq = d.outSeq + i /\ q[j].batch = RowAt(f, i)
          BY <1>29, <5>1
        <5>3. CASE j # 1
          <6>1. j - 1 \in 1 .. Len(rest) /\ rest[j - 1] = q[j]
            BY <1>4, <5>3
          <6> DEFINE k == j - 1
          <6>2. k \in 1 .. Len(rest) /\ IsRow(rest[k]) /\ rest[k].seq = d.outSeq + i
            BY <5>2, <6>1
          <6> HIDE DEF k
          <6>3. rest[k].seq <= m.seq
            BY <2>2, <3>4, <6>2
          <6> QED
            BY <1>28, <3>4, <6>2, <6>3
        <5>4. CASE j = 1
          <6>1. m.batch = RowAt(f, i)
            BY <1>4, <5>2, <5>4
          <6> QED
            BY <1>20, <3>2, <3>4, <6>1 DEF HasRow
        <5> QED
          BY <5>3, <5>4
      <4> QED
        BY <4>1, <4>2
    <3> QED
      BY <1>23, <3>3, <3>4
  <2> QED
    BY <2>1, <2>2
<1>31. FinishOK(r)'
  <2> SUFFICES ASSUME phase[r] = "complete"
               PROVE  /\ FileIsFinal(r)'
                      /\ Rising(rest)
                      /\ \A b \in Own(r) \cap Passing :
                           HasRow(b)' \/ b \in unconfirmed[r] \/ \E i \in 1 .. Len(rest) : IsRow(rest[i]) /\ rest[i].batch = b
                      /\ \A o \in Drained(r)', i \in 1 .. Len(rest) : IsRow(rest[i]) /\ rest[i].seq <= o.seq => HasRow(rest[i].batch)'
                      /\ \A i \in 1 .. Count(file[r])' :
                           \/ HasRow(RowAt(file[r], i))'
                           \/ \E j \in 1 .. Len(rest) : rest[j] = Row(r, d.outSeq + i, RowAt(file[r], i)')
    BY <1>6 DEF FinishOK, Own
  <2>1. FileIsFinal(r)'
    BY <1>7, <1>22 DEF FinishOK
  <2>2. Rising(rest)
    <3> SUFFICES ASSUME NEW i \in 1 .. Len(rest), NEW j \in 1 .. Len(rest), IsRow(rest[i]), IsRow(rest[j]), i < j
                 PROVE  rest[i].seq < rest[j].seq
      BY DEF Rising
    <3>1. i + 1 \in 1 .. Len(q) /\ j + 1 \in 1 .. Len(q) /\ i + 1 < j + 1 /\ rest[i] = q[i + 1] /\ rest[j] = q[j + 1]
      BY <1>4
    <3> QED
      BY <1>21, <3>1 DEF Rising
  <2>3. ASSUME NEW b \in Own(r) \cap Passing
        PROVE  HasRow(b)' \/ b \in unconfirmed[r] \/ \E i \in 1 .. Len(rest) : IsRow(rest[i]) /\ rest[i].batch = b
    <3>1. CASE HasRow(b)
      BY <1>16, <3>1
    <3>2. ASSUME NEW i \in 1 .. Len(q), IsRow(q[i]), q[i].batch = b
          PROVE  HasRow(b)' \/ \E j \in 1 .. Len(rest) : IsRow(rest[j]) /\ rest[j].batch = b
      <4>1. CASE i = 1
        BY <1>4, <1>20, <3>2, <4>1
      <4>2. CASE i # 1
        BY <1>4, <3>2, <4>2
      <4> QED
        BY <4>1, <4>2
    <3> QED
      BY <1>21, <3>1, <3>2
  <2>4. ASSUME NEW o \in Drained(r)', NEW i \in 1 .. Len(rest), IsRow(rest[i]), rest[i].seq <= o.seq
        PROVE  HasRow(rest[i].batch)'
    <3>1. o \in Drained(r)
      BY <1>23, <1>28, <2>4
    <3>2. i + 1 \in 1 .. Len(q) /\ rest[i] = q[i + 1]
      BY <1>4
    <3> QED
      BY <1>16, <1>21, <2>4, <3>1, <3>2
  <2>5. ASSUME NEW i \in 1 .. Count(file[r])'
        PROVE  \/ HasRow(RowAt(file[r], i))'
               \/ \E j \in 1 .. Len(rest) : rest[j] = Row(r, d.outSeq + i, RowAt(file[r], i)')
    <3>1. file'[r] = f
      BY <1>24, <1>26, <2>5
    <3>2. RowAt(file[r], i)' = RowAt(f, i) /\ i \in 1 .. Count(f)
      BY <1>25, <2>5, <3>1
    <3>3. CASE HasRow(RowAt(f, i))
      BY <1>16, <3>2, <3>3 DEF HasRow
    <3>4. ASSUME NEW j \in 1 .. Len(q), q[j] = Row(r, d.outSeq + i, RowAt(f, i))
          PROVE  \/ HasRow(RowAt(file[r], i))'
                 \/ \E k \in 1 .. Len(rest) : rest[k] = Row(r, d.outSeq + i, RowAt(file[r], i)')
      <4>1. CASE j = 1
        <5>1. IsRow(m) /\ m.batch = RowAt(f, i)
          BY <1>4, <1>29, <3>4, <4>1
        <5> QED
          BY <1>20, <3>2, <5>1 DEF HasRow
      <4>2. CASE j # 1
        <5>1. j - 1 \in 1 .. Len(rest) /\ rest[j - 1] = q[j]
          BY <1>4, <4>2
        <5>2. rest[j - 1] = Row(r, d.outSeq + i, RowAt(file[r], i)')
          BY <3>2, <3>4, <5>1
        <5> QED
          BY <5>1, <5>2
      <4> QED
        BY <4>1, <4>2
    <3> QED
      BY <1>21, <3>2, <3>3, <3>4
  <2> QED
    BY <2>1, <2>2, <2>3, <2>4, <2>5
<1>32. EndOK(r)'
  <2>1. CASE m.type = "outeof"
    <3>1. \A i \in 1 .. Len(q) : ~IsRow(q[i])
      BY <1>4, <1>7, <2>1 DEF SendOK
    <3>2. \A b \in Own(r) \cap Passing : HasRow(b)
      BY <1>8, <1>11, <1>21, <2>1, <3>1
    <3> QED
      BY <1>16, <3>2 DEF EndOK, Own
  <2>2. CASE m.type # "outeof"
    <3>1. EOFsOf(r)' = EOFsOf(r)
      BY <1>10, <2>2 DEF EOFsOf
    <3> QED
      BY <1>1, <1>16, <3>1 DEF Parts, EndOK, Own
  <2> QED
    BY <2>1, <2>2
<1>33. Parts(r)'
  BY <1>13, <1>14, <1>15, <1>19, <1>30, <1>31, <1>32 DEF Parts
<1>34. \A p \in Replica \ {r} : file'[p] = file[p]
  BY <1>1, <1>8 DEF TypeOK
<1>35. \A o \in out' \ out : o.sender = r
  BY <1>10, <1>11
<1> QED
  BY <1>2, <1>6, <1>9, <1>10, <1>12, <1>33, <1>34, <1>35, OneMoves

(* What the sends of a handler have to be. *)
DrainSays(r, n, f, q) ==
  /\ Rising(q)
  /\ \A i \in 1 .. Count(f) : \E j \in 1 .. Len(q) : q[j] = Row(r, n + i, RowAt(f, i))
  /\ \A j \in 1 .. Len(q) : IsRow(q[j]) => \E i \in 1 .. Count(f) : q[j] = Row(r, n + i, RowAt(f, i))

TokenFits(r, s, end, t) ==
  IF t.closing THEN Kept = Batch
  ELSE end = "forward" /\ t.agg <= Cardinality({b \in Kept \cup s.seen : home[b] <= r})

SendsFit(r, s, end, q) ==
  \A i \in 1 .. Len(q) : SendOK(r, end, q, i) /\ (q[i].type = "token" => TokenFits(r, s, end, q[i]))

EndsWell(r, s, f, o) ==
  /\ o.state.p2EOF => Own(r) \subseteq s.seen
  /\ o.state.averagesEOF => o.state.avg
  /\ s.outSeq <= o.state.outSeq /\ (s.averagesEOF => o.state.averagesEOF)
  /\ SendsFit(r, s, o.end, o.sends)
  /\ o.end = "complete" => /\ Own(r) \subseteq s.seen /\ (s.averagesEOF \/ s.p2EOF)
                           /\ DrainSays(r, s.outSeq, f, o.sends)

(* Each batch of the file that passes has its place in the drain.            *)
LEMMA PlaceInFile ==
  ASSUME NEW f \in Seq(Batch), NEW b \in ToSet(f), b \in Passing
  PROVE  \E i \in 1 .. Count(f) : RowAt(f, i) = b
<1>1. PICK p \in 1 .. Len(f) : f[p] = b
  BY DEF ToSet
<1>2. Wanted(f) \in SUBSET (1 .. Len(f)) /\ Wanted(f) \in SUBSET Int
  BY DEF Wanted
<1>3. IsFiniteSet(Wanted(f))
  <2>1. IsFiniteSet(1 .. Len(f))
    BY LenProperties, FS_Interval
  <2> QED
    BY <1>2, <2>1, FS_Subset
<1>4. p \in Wanted(f)
  BY <1>1 DEF Wanted
<1>5. PICK n \in 1 .. Cardinality(Wanted(f)) : Nth(Wanted(f), n) = p
  BY <1>2, <1>3, <1>4, PlaceOf
<1> QED
  BY <1>1, <1>5 DEF Count, RowAt

LEMMA TokenFitsThen ==
  ASSUME NEW r \in Replica, NEW s, NEW end, NEW t \in Tokens, t.sender = r, TokenFits(r, s, end, t),
         Kept \subseteq Kept', end = "forward" => s.seen \subseteq Kept'
  PROVE  TokenOK(t)'
<1>1. Kept' \subseteq Batch
  BY DEF Kept
<1>2. CASE t.closing
  BY <1>1, <1>2 DEF TokenFits, TokenOK
<1>3. CASE ~t.closing
  <2> DEFINE K == {b \in Kept \cup s.seen : home[b] <= r}
             L == KeptBy(t.sender)'
  <2>1. end = "forward" /\ t.agg <= Cardinality(K)
    BY <1>3 DEF TokenFits
  <2>2. L \in SUBSET Batch /\ K \subseteq L
    BY <1>1, <2>1 DEF KeptBy
  <2>3. IsFiniteSet(L)
    BY <2>2, FS_Subset
  <2>4. t.agg \in Nat
    BY DEF Tokens
  <2> HIDE DEF K, L
  <2>5. IsFiniteSet(K) /\ Cardinality(K) <= Cardinality(L) /\ Cardinality(L) \in Nat /\ Cardinality(K) \in Nat
    BY <2>2, <2>3, FS_Subset, FS_CardinalityType
  <2>6. t.agg <= Cardinality(L)
    BY <2>1, <2>4, <2>5
  <2> QED
    BY <1>3, <2>6 DEF TokenOK, L
<1> QED
  BY <1>2, <1>3

LEMMA ApplyEnd ==
  ASSUME EndInv, IndInv', NEW r \in Replica, NEW m \in Coordination, NEW type, Accept(r, m, type),
         NEW s, s.seen = mem[r].seen, s.outSeq = mem[r].outSeq, s.p2EOF = mem[r].p2EOF,
         s.averagesEOF = mem[r].averagesEOF,
         NEW f, f = file[r],
         NEW o, GoodOutcome(s, o), EndsWell(r, s, f, o), Apply(r, m, o)
  PROVE  EndInv'
<1> DEFINE t == [o.state EXCEPT !.coord[m.sender] = m.seq]
<1>1. /\ Parts(r) /\ IndInv /\ TypeOK /\ phase[r] = "idle" /\ r \notin tomb /\ ~AfterDrain(r)
      /\ inbox'[r] \cup pending'[r] = inbox[r] \cup pending[r]
      /\ \A q \in Replica \ {r} : inbox'[q] = inbox[q] /\ pending'[q] = pending[q]
      /\ tomb' = tomb /\ disk' = disk /\ out' = out
  BY AcceptEnd DEF IndInv
<1>2. o.state \in State /\ o.state.seen = s.seen /\ o.sends \in Seq(Sendable)
  BY DEF GoodOutcome, SameCounts
<1>3. mem[r] \in State /\ disk[r].state \in State /\ ReplicaOK(r) /\ file[r] \in Seq(Batch)
  BY <1>1, FieldsAre
<1>4. /\ t.seen = s.seen /\ t.p2EOF = o.state.p2EOF /\ t.averagesEOF = o.state.averagesEOF
      /\ t.avg = o.state.avg /\ t.outSeq = o.state.outSeq
  BY <1>2 DEF State
<1>5. mem' = [mem EXCEPT ![r] = t] /\ outbox' = [outbox EXCEPT ![r] = o.sends]
      /\ phase' = [phase EXCEPT ![r] = o.end] /\ UNCHANGED <<file, unconfirmed>>
  BY DEF Apply
<1> HIDE DEF t
<1>6. /\ mem'[r] = t /\ outbox'[r] = o.sends /\ phase'[r] = o.end
      /\ \A q \in Replica \ {r} : mem'[q] = mem[q] /\ outbox'[q] = outbox[q] /\ phase'[q] = phase[q]
  BY <1>1, <1>5 DEF TypeOK
<1>7. Kept \subseteq Kept'
  BY <1>1, <1>6, KeptGrows
<1>8. o.end = "forward" => s.seen \subseteq Kept'
  <2> SUFFICES ASSUME o.end = "forward", NEW b \in s.seen PROVE b \in Kept'
    OBVIOUS
  <2>1. b \in Batch /\ home[b] = r
    BY <1>1 DEF Parts, StateOK, Own
  <2> QED
    BY <1>4, <1>6, <2>1 DEF Kept
<1>9. QueueOK(r)'
  BY <1>1, <1>7, QueueStays DEF Parts
<1>10. SendsOK(r)'
  <2> SUFFICES ASSUME NEW i \in 1 .. Len(o.sends)
               PROVE  SendOK(r, o.end, o.sends, i) /\ (o.sends[i].type = "token" => TokenOK(o.sends[i])')
    BY <1>6 DEF SendsOK
  <2>1. o.sends[i] \in Sendable
    BY <1>2, ElementOfSeq
  <2>2. o.sends[i].type = "token" => o.sends[i] \in Tokens
    BY <2>1 DEF Sendable, Coordination, EOFs, Tokens, Outputs, Removal
  <2>3. SendOK(r, o.end, o.sends, i) /\ (o.sends[i].type = "token" => TokenFits(r, s, o.end, o.sends[i]))
    BY DEF EndsWell, SendsFit
  <2>4. o.sends[i].type = "token" => o.sends[i].sender = r
    BY <2>3 DEF SendOK
  <2> QED
    BY <1>7, <1>8, <2>2, <2>3, <2>4, TokenFitsThen
<1>11. StateOK(r, mem[r])' /\ StateOK(r, disk[r].state)'
  BY <1>1, <1>4, <1>6 DEF Parts, StateOK, EndsWell, Own
<1>12. SavedOK(r)'
  <2>1. /\ disk[r].state.outSeq = mem[r].outSeq /\ disk[r].state.averagesEOF = mem[r].averagesEOF
        /\ disk[r].state.p2EOF = mem[r].p2EOF
    BY <1>1 DEF Parts, SavedOK
  <2>2. o.end # "idle"
    BY DEF GoodOutcome
  <2>3. s.outSeq <= o.state.outSeq /\ (s.averagesEOF => o.state.averagesEOF)
    BY DEF EndsWell
  <2> QED
    BY <1>1, <1>4, <1>6, <2>1, <2>2, <2>3 DEF SavedOK
<1>13. \A b : HasRow(b)' <=> HasRow(b)
  BY <1>1 DEF HasRow
<1>14. LiveOK(r)'
  BY <1>1, <1>4, <1>5, <1>6, <1>13 DEF Parts, LiveOK
<1>15. Drained(r)' = Drained(r)
  BY <1>1 DEF Drained
<1>16. RepeatOK(r)'
  BY <1>1, <1>5, <1>15, RepeatStays DEF Parts
<1>17. FinishOK(r)'
  <2> DEFINE q == o.sends
             d == disk[r].state
  <2> SUFFICES ASSUME o.end = "complete"
               PROVE  /\ FileIsFinal(r)
                      /\ Rising(q)
                      /\ \A b \in Own(r) \cap Passing :
                           HasRow(b) \/ b \in unconfirmed[r] \/ \E i \in 1 .. Len(q) : IsRow(q[i]) /\ q[i].batch = b
                      /\ \A x \in Drained(r), i \in 1 .. Len(q) : IsRow(q[i]) /\ q[i].seq <= x.seq => HasRow(q[i].batch)
                      /\ \A i \in 1 .. Count(f) :
                           \/ HasRow(RowAt(f, i))
                           \/ \E j \in 1 .. Len(q) : q[j] = Row(r, d.outSeq + i, RowAt(f, i))
    <3>1. FileIsFinal(r)' <=> FileIsFinal(r)
      BY <1>1 DEF FileIsFinal, Own
    <3>2. Count(file[r])' = Count(f) /\ \A i : RowAt(file[r], i)' = RowAt(f, i)
      BY <1>5 DEF Count, Wanted, RowAt, Nth
    <3>3. file'[r] = f /\ disk'[r] = disk[r]
      BY <1>1, <1>5
    <3> QED
      BY <1>5, <1>6, <1>13, <1>15, <3>1, <3>2, <3>3 DEF FinishOK, Own
  <2>1. /\ Own(r) \subseteq s.seen /\ (s.averagesEOF \/ s.p2EOF) /\ DrainSays(r, s.outSeq, f, q)
    BY DEF EndsWell
  <2>2. /\ s.outSeq = d.outSeq /\ s.averagesEOF = d.averagesEOF /\ s.p2EOF = d.p2EOF
    BY <1>1 DEF Parts, SavedOK
  <2>3. FileIsFinal(r)
    BY <1>1, <2>1, <2>2 DEF FileIsFinal, Parts, StateOK
  <2> HIDE DEF q, d
  <2>4. /\ Rising(q)
        /\ \A i \in 1 .. Count(f) : \E j \in 1 .. Len(q) : q[j] = Row(r, d.outSeq + i, RowAt(f, i))
        /\ \A j \in 1 .. Len(q) : IsRow(q[j]) => \E i \in 1 .. Count(f) : q[j] = Row(r, d.outSeq + i, RowAt(f, i))
    BY <2>1, <2>2 DEF DrainSays
  <2>5. \A c, i : IsRow(Row(r, i, c)) /\ Row(r, i, c).seq = i /\ Row(r, i, c).batch = c
    BY DEF Row, IsRow
  <2>6. ASSUME NEW b \in Own(r) \cap Passing
        PROVE  HasRow(b) \/ b \in unconfirmed[r] \/ \E i \in 1 .. Len(q) : IsRow(q[i]) /\ q[i].batch = b
    <3>1. HasRow(b) \/ b \in unconfirmed[r] \/ b \in ToSet(f)
      BY <1>1, <2>1, <2>6 DEF Parts, LiveOK
    <3>2. CASE b \in ToSet(f)
      <4>1. PICK i \in 1 .. Count(f) : RowAt(f, i) = b
        BY <1>3, <2>6, <3>2, PlaceInFile
      <4>2. PICK j \in 1 .. Len(q) : q[j] = Row(r, d.outSeq + i, RowAt(f, i))
        BY <2>4
      <4> QED
        BY <2>5, <4>1, <4>2
    <3> QED
      BY <3>1, <3>2
  <2>7. ASSUME NEW x \in Drained(r), NEW i \in 1 .. Len(q), IsRow(q[i]), q[i].seq <= x.seq
        PROVE  HasRow(q[i].batch)
    <3>1. PICK k \in 1 .. Count(f) : q[i] = Row(r, d.outSeq + k, RowAt(f, k))
      BY <2>4, <2>7
    <3>2. d.outSeq + k <= x.seq /\ q[i].batch = RowAt(f, k)
      BY <2>5, <2>7, <3>1
    <3> QED
      BY <1>1, <3>2 DEF Parts, RepeatOK, d
  <2> QED
    BY <2>3, <2>4, <2>6, <2>7
<1>18. EndOK(r)'
  BY <1>1, <1>5, <1>13 DEF Parts, EndOK, EOFsOf, Own
<1>19. Parts(r)'
  BY <1>9, <1>10, <1>11, <1>12, <1>14, <1>16, <1>17, <1>18 DEF Parts
<1> QED
  BY <1>1, <1>5, <1>6, <1>7, <1>19, OneMoves

-----------------------------------------------------------------------------
(* The sends of the handlers *)

(* w is q, which has k elements, with e before its last element.             *)
HasInserted(w, q, k, e) ==
  Len(w) = k + 1 /\ \A i \in 1 .. k + 1 : w[i] = IF i < k THEN q[i] ELSE IF i = k THEN e ELSE q[k]

LEMMA InsertBeforeLast ==
  ASSUME NEW S, NEW q \in Seq(S), NEW k, k = Len(q), k # 0, NEW e \in S
  PROVE  HasInserted(InsertAt(q, k, e), q, k, e)
<1> DEFINE left == SubSeq(q, 1, k - 1)
           right == SubSeq(q, k, k)
           one == <<e>>
           a == left \o one
<1>1. k \in Nat /\ \A i \in 1 .. k : q[i] \in S
  BY LenProperties, ElementOfSeq
<1>2. /\ \A i \in 1 .. k - 1 : q[i] \in S
      /\ \A i \in k .. k : q[i] \in S
  BY <1>1
<1>3. left \in Seq(S) /\ Len(left) = k - 1 /\ \A i \in 1 .. k - 1 : left[i] = q[i]
  <2>1. 1 \in Int /\ k - 1 \in Int
    BY <1>1
  <2>2. /\ left \in Seq(S) /\ Len(left) = IF 1 <= k - 1 THEN k - 1 - 1 + 1 ELSE 0
        /\ \A i \in 1 .. k - 1 - 1 + 1 : left[i] = q[1 + i - 1]
    BY <1>2, <2>1, SubSeqProperties
  <2> HIDE DEF left
  <2> QED
    BY <1>1, <2>2
<1>4. right \in Seq(S) /\ Len(right) = 1 /\ right[1] = q[k]
  <2>1. k \in Int
    BY <1>1
  <2>2. /\ right \in Seq(S) /\ Len(right) = IF k <= k THEN k - k + 1 ELSE 0
        /\ \A i \in 1 .. k - k + 1 : right[i] = q[k + i - 1]
    BY <1>2, <2>1, SubSeqProperties
  <2> HIDE DEF right
  <2> QED
    BY <1>1, <2>2
<1>5. one \in Seq(S) /\ Len(one) = 1 /\ one[1] = e
  OBVIOUS
<1>6. InsertAt(q, k, e) = a \o right
  BY DEF InsertAt
<1> HIDE DEF left, right, one
<1>7. /\ a \in Seq(S) /\ Len(a) = k
      /\ \A i \in 1 .. k : a[i] = IF i <= k - 1 THEN left[i] ELSE one[i - (k - 1)]
  <2>1. /\ a \in Seq(S) /\ Len(a) = Len(left) + Len(one)
        /\ \A i \in 1 .. Len(left) + Len(one) : a[i] = IF i <= Len(left) THEN left[i] ELSE one[i - Len(left)]
    BY <1>3, <1>5, ConcatProperties
  <2> HIDE DEF a
  <2> QED
    BY <1>1, <1>3, <1>5, <2>1
<1> HIDE DEF a
<1> DEFINE w == a \o right
<1>8. /\ w \in Seq(S) /\ Len(w) = k + 1
      /\ \A i \in 1 .. k + 1 : w[i] = IF i <= k THEN a[i] ELSE right[i - k]
  <2>1. /\ w \in Seq(S) /\ Len(w) = Len(a) + Len(right)
        /\ \A i \in 1 .. Len(a) + Len(right) : w[i] = IF i <= Len(a) THEN a[i] ELSE right[i - Len(a)]
    BY <1>4, <1>7, ConcatProperties
  <2> HIDE DEF w
  <2> QED
    BY <1>1, <1>4, <1>7, <2>1
<1> HIDE DEF w
<1>9. ASSUME NEW i \in 1 .. k + 1
      PROVE  w[i] = IF i < k THEN q[i] ELSE IF i = k THEN e ELSE q[k]
  <2>1. CASE i < k
    <3>1. i \in 1 .. k - 1 /\ i \in 1 .. k /\ i <= k /\ i <= k - 1
      BY <1>1, <1>9, <2>1
    <3> QED
      BY <1>3, <1>7, <1>8, <2>1, <3>1
  <2>2. CASE i = k
    <3>1. i \in 1 .. k /\ i <= k /\ ~(i <= k - 1) /\ i - (k - 1) = 1 /\ ~(i < k)
      BY <1>1, <1>9, <2>2
    <3> QED
      BY <1>5, <1>7, <1>8, <1>9, <2>2, <3>1
  <2>3. CASE i = k + 1
    <3>1. ~(i <= k) /\ i - k = 1 /\ ~(i < k) /\ i # k
      BY <1>1, <1>9, <2>3
    <3> QED
      BY <1>4, <1>8, <1>9, <3>1
  <2>4. i < k \/ i = k \/ i = k + 1
    BY <1>1, <1>9
  <2> QED
    BY <2>1, <2>2, <2>3, <2>4
<1> QED
  BY <1>6, <1>8, <1>9 DEF HasInserted, w

(* A drain publishes a row for each record that passes, in the order of the  *)
(* numbers, and otherwise removes the file.                                  *)
LEMMA DrainIs ==
  ASSUME NEW r \in Replica, NEW s \in State, s.avg, NEW f \in Seq(Batch), s.records = Len(f),
         NEW q, q = Drain(r, s, f)
  PROVE  /\ DrainSays(r, s.outSeq, f, q)
         /\ \A j \in 1 .. Len(q) : (IsRow(q[j]) /\ q[j].sender = r) \/ q[j] = Removal
<1> DEFINE n == Count(f)
           base == s.outSeq
           R(i) == Row(r, base + i, RowAt(f, i))
           rows == [i \in 1 .. n |-> R(i)]
<1>1. PassingRecords(s, f) = Wanted(f) /\ CountRows(s, f) = n
  BY DEF PassingRecords, Passes, Wanted, CountRows, Count
<1>2. n \in Nat /\ base \in Nat
  BY <1>1, PassingIs DEF State
<1>3. q = IF s.records = 0 THEN <<>>
          ELSE IF rows = <<>> THEN <<Removal>>
          ELSE InsertAt(rows, Len(rows), Removal)
  BY <1>1 DEF Drain, RowAt
<1>4. \A i, c : IsRow(Row(r, i, c)) /\ Row(r, i, c).seq = i /\ Row(r, i, c).sender = r
  BY DEF Row, IsRow
<1>5. /\ \A i : IsRow(R(i)) /\ R(i).seq = base + i /\ R(i).sender = r
      /\ ~IsRow(Removal)
  BY <1>4 DEF Removal, IsRow
<1>6. s.records = 0 => n = 0
  <2>1. Len(f) = 0 => Wanted(f) = {}
    BY DEF Wanted
  <2> QED
    BY <2>1, FS_EmptySet DEF Count
<1> HIDE DEF n, base, R
<1>7. rows \in Seq(Range(rows) \cup {Removal}) /\ Len(rows) = n /\ \A i \in 1 .. n : rows[i] = R(i)
  <2>1. rows \in [1 .. n -> Range(rows) \cup {Removal}]
    BY DEF Range
  <2>2. \A i \in 1 .. n : rows[i] = R(i)
    OBVIOUS
  <2> HIDE DEF rows
  <2> QED
    BY <1>2, <2>1, <2>2
<1> HIDE DEF rows
<1> DEFINE Says == /\ Rising(q)
                   /\ \A i \in 1 .. n : \E j \in 1 .. Len(q) : q[j] = R(i)
                   /\ \A j \in 1 .. Len(q) : IsRow(q[j]) => \E i \in 1 .. n : q[j] = R(i)
<1>8. Says => DrainSays(r, s.outSeq, f, q)
  BY DEF DrainSays, n, base, R
<1>9. CASE s.records = 0 \/ n = 0
  <2>1. n = 0 /\ (q = <<>> \/ q = <<Removal>>)
    <3>1. n = 0 => rows = <<>>
      BY <1>7, EmptySeq
    <3> QED
      BY <1>3, <1>6, <1>9, <3>1
  <2>2. \A j \in 1 .. Len(q) : q[j] = Removal
    BY <2>1
  <2>3. Says
    BY <1>5, <2>1, <2>2 DEF Rising
  <2> QED
    BY <1>8, <2>2, <2>3
<1>10. CASE s.records # 0 /\ n # 0
  <2>1. rows # <<>>
    BY <1>7, <1>10, EmptySeq
  <2>2. q = InsertAt(rows, n, Removal)
    <3>1. q = InsertAt(rows, Len(rows), Removal)
      BY <1>3, <1>10, <2>1
    <3>2. Len(rows) = n
      BY <1>7
    <3> QED
      BY <3>1, <3>2
  <2>3. /\ Len(q) = n + 1
        /\ \A i \in 1 .. n + 1 : q[i] = IF i < n THEN rows[i] ELSE IF i = n THEN Removal ELSE rows[n]
    <3> DEFINE S == Range(rows) \cup {Removal}
    <3>1. rows \in Seq(S) /\ Removal \in S /\ n = Len(rows) /\ n # 0
      BY <1>7, <1>10
    <3> DEFINE w == InsertAt(rows, n, Removal)
    <3> HIDE DEF S
    <3>2. HasInserted(w, rows, n, Removal)
      BY <3>1, InsertBeforeLast
    <3>3. q = w
      BY <2>2
    <3> HIDE DEF w
    <3> QED
      BY <3>2, <3>3 DEF HasInserted
  <2>4. \A i \in 1 .. n + 1 : q[i] = IF i < n THEN R(i) ELSE IF i = n THEN Removal ELSE R(n)
    BY <1>2, <1>7, <1>10, <2>3
  <2>5. Rising(q)
    <3> SUFFICES ASSUME NEW i \in 1 .. n + 1, NEW j \in 1 .. n + 1, IsRow(q[i]), IsRow(q[j]), i < j
                 PROVE  q[i].seq < q[j].seq
      BY <2>3 DEF Rising
    <3>1. i # n /\ j # n
      BY <1>2, <1>5, <2>4
    <3>2. i < n
      BY <1>2, <3>1
    <3>3. q[i].seq = base + i
      BY <1>5, <2>4, <3>2
    <3>4. CASE j < n
      <4>1. q[j].seq = base + j
        BY <1>5, <2>4, <3>4
      <4> QED
        BY <1>2, <3>3, <4>1
    <3>5. CASE ~(j < n)
      <4>1. q[j].seq = base + n
        BY <1>5, <2>4, <3>1, <3>5
      <4> QED
        BY <1>2, <3>2, <3>3, <4>1
    <3> QED
      BY <3>4, <3>5
  <2>6. ASSUME NEW i \in 1 .. n PROVE \E j \in 1 .. n + 1 : q[j] = R(i)
    <3>1. CASE i < n
      <4>1. i \in 1 .. n + 1 /\ q[i] = R(i)
        BY <1>2, <2>4, <2>6, <3>1
      <4> QED
        BY <4>1
    <3>2. CASE i = n
      <4>1. n + 1 \in 1 .. n + 1 /\ ~(n + 1 < n) /\ n + 1 # n
        BY <1>2
      <4>2. q[n + 1] = R(n)
        BY <2>4, <4>1
      <4> QED
        BY <3>2, <4>1, <4>2
    <3> QED
      BY <1>2, <2>6, <3>1, <3>2
  <2>7. ASSUME NEW j \in 1 .. n + 1 PROVE q[j] = Removal \/ \E i \in 1 .. n : q[j] = R(i)
    <3>1. CASE j < n
      <4>1. j \in 1 .. n /\ q[j] = R(j)
        BY <1>2, <2>4, <2>7, <3>1
      <4> QED
        BY <4>1
    <3>2. CASE j = n
      BY <1>2, <2>4, <2>7, <3>2
    <3>3. CASE j = n + 1
      <4>1. n \in 1 .. n /\ q[j] = R(n)
        BY <1>2, <1>10, <2>4, <3>3
      <4> QED
        BY <4>1
    <3> QED
      BY <1>2, <2>7, <3>1, <3>2, <3>3
  <2>8. Says
    BY <1>5, <2>3, <2>5, <2>6, <2>7
  <2> QED
    BY <1>5, <1>8, <2>3, <2>7, <2>8
<1> QED
  BY <1>9, <1>10

(* q is a, then the one element of b, then c. *)
AreParts(q, a, b, c) ==
  /\ Len(a) \in Nat /\ Len(c) \in Nat /\ Len(q) = Len(a) + 1 + Len(c)
  /\ \A i \in 1 .. Len(a) : i \in 1 .. Len(q) /\ q[i] = a[i]
  /\ Len(a) + 1 \in 1 .. Len(q) /\ q[Len(a) + 1] = b[1]
  /\ \A i \in 1 .. Len(q) : i > Len(a) + 1 =>
       i - (Len(a) + 1) \in 1 .. Len(c) /\ q[i] = c[i - (Len(a) + 1)]

LEMMA ConcatThree ==
  ASSUME NEW S, NEW a \in Seq(S), NEW b \in Seq(S), Len(b) = 1, NEW c \in Seq(S), NEW q, q = (a \o b) \o c
  PROVE  AreParts(q, a, b, c)
<1> DEFINE k == Len(a)
           l == Len(c)
<1>1. k \in Nat /\ l \in Nat
  BY LenProperties
<1> PICK p : p = a \o b
  OBVIOUS
<1>2. q = p \o c
  OBVIOUS
<1>3. /\ p \in Seq(S) /\ Len(p) = k + 1
      /\ \A i \in 1 .. k + 1 : p[i] = IF i <= k THEN a[i] ELSE b[i - k]
  BY ConcatProperties
<1>4. /\ Len(q) = Len(p) + l
      /\ \A i \in 1 .. Len(p) + l : q[i] = IF i <= Len(p) THEN p[i] ELSE c[i - Len(p)]
  <2>1. p \in Seq(S)
    BY <1>3
  <2> DEFINE w == p \o c
  <2>2. /\ Len(w) = Len(p) + Len(c)
        /\ \A i \in 1 .. Len(p) + Len(c) : w[i] = IF i <= Len(p) THEN p[i] ELSE c[i - Len(p)]
    BY <2>1, ConcatProperties
  <2>3. q = w
    BY <1>2
  <2> HIDE DEF w
  <2> QED
    BY <2>2, <2>3
<1> HIDE DEF k, l
<1>5. /\ Len(q) = k + 1 + l
      /\ \A i \in 1 .. k + 1 + l : q[i] = IF i <= k + 1 THEN p[i] ELSE c[i - (k + 1)]
  BY <1>3, <1>4
<1>6. ASSUME NEW i \in 1 .. k PROVE i \in 1 .. Len(q) /\ q[i] = a[i]
  <2>1. i \in 1 .. k + 1 /\ i \in 1 .. k + 1 + l /\ i <= k + 1 /\ i <= k
    BY <1>1
  <2> QED
    BY <1>3, <1>5, <2>1
<1>7. q[k + 1] = b[1] /\ k + 1 \in 1 .. Len(q)
  <2>1. k + 1 \in 1 .. k + 1 + l /\ k + 1 <= k + 1 /\ k + 1 \in 1 .. k + 1 /\ ~(k + 1 <= k) /\ (k + 1) - k = 1
    BY <1>1
  <2> QED
    BY <1>3, <1>5, <2>1
<1>8. ASSUME NEW i \in 1 .. Len(q), i > k + 1 PROVE i - (k + 1) \in 1 .. l /\ q[i] = c[i - (k + 1)]
  <2>1. i \in 1 .. k + 1 + l /\ ~(i <= k + 1) /\ i - (k + 1) \in 1 .. l
    BY <1>1, <1>5, <1>8
  <2> QED
    BY <1>5, <2>1
<1> QED
  BY <1>1, <1>5, <1>6, <1>7, <1>8 DEF AreParts, k, l

OnlyRows(r, q) == \A j \in 1 .. Len(q) : (IsRow(q[j]) /\ q[j].sender = r) \/ q[j] = Removal
OnlyClosing(r, q) == \A j \in 1 .. Len(q) : q[j].type = "token" /\ q[j].sender = r /\ q[j].closing

(* What comes after a drain: the EOF, and a token that closes.               *)
LEMMA FinalSends ==
  ASSUME NEW r \in Replica, NEW n \in Nat, NEW f,
         NEW drain \in Seq(Sendable), DrainSays(r, n, f, drain), OnlyRows(r, drain),
         NEW eof, eof.type = "outeof", eof.sender = r,
         NEW one \in Seq(Sendable), Len(one) = 1, one[1] = eof,
         NEW rest \in Seq(Sendable), OnlyClosing(r, rest),
         NEW q, q = (drain \o one) \o rest, NEW s, rest # <<>> => Kept = Batch
  PROVE  DrainSays(r, n, f, q) /\ SendsFit(r, s, "complete", q)
<1> DEFINE k == Len(drain)
           l == Len(rest)
<1>1. /\ k \in Nat /\ l \in Nat /\ Len(q) = k + 1 + l
      /\ \A i \in 1 .. k : i \in 1 .. Len(q) /\ q[i] = drain[i]
      /\ k + 1 \in 1 .. Len(q) /\ q[k + 1] = eof
      /\ \A i \in 1 .. Len(q) : i > k + 1 => i - (k + 1) \in 1 .. l /\ q[i] = rest[i - (k + 1)]
  <2>1. AreParts(q, drain, one, rest)
    BY ConcatThree
  <2> QED
    BY <2>1 DEF AreParts
<1>9. \A i \in 1 .. Len(q) : i > k + 1 => q[i].type = "token" /\ q[i].sender = r /\ q[i].closing
  <2> SUFFICES ASSUME NEW i \in 1 .. Len(q), i > k + 1
               PROVE  q[i].type = "token" /\ q[i].sender = r /\ q[i].closing
    OBVIOUS
  <2>1. i - (k + 1) \in 1 .. l /\ q[i] = rest[i - (k + 1)]
    BY <1>1
  <2> QED
    BY <2>1 DEF OnlyClosing
<1> HIDE DEF l
<1>10. \A i \in 1 .. Len(q) : i <= k \/ i = k + 1 \/ i > k + 1
  BY <1>1
<1>11. \A i \in 1 .. Len(q) : IsRow(q[i]) => i \in 1 .. k /\ q[i] = drain[i]
  <2>1. \A i \in 1 .. Len(q) : IsRow(q[i]) => i <= k
    BY <1>1, <1>9, <1>10 DEF IsRow
  <2>2. \A i \in 1 .. Len(q) : i <= k => i \in 1 .. k
    BY <1>1
  <2> QED
    BY <1>1, <2>1, <2>2
<1>12. DrainSays(r, n, f, q)
  <2>1. /\ \A i, j \in 1 .. k : IsRow(drain[i]) /\ IsRow(drain[j]) /\ i < j => drain[i].seq < drain[j].seq
        /\ \A i \in 1 .. Count(f) : \E j \in 1 .. k : drain[j] = Row(r, n + i, RowAt(f, i))
        /\ \A j \in 1 .. k : IsRow(drain[j]) => \E i \in 1 .. Count(f) : drain[j] = Row(r, n + i, RowAt(f, i))
    BY DEF DrainSays, Rising
  <2> HIDE DEF k
  <2>2. Rising(q)
    BY <1>11, <2>1 DEF Rising
  <2>3. \A i \in 1 .. Count(f) : \E j \in 1 .. Len(q) : q[j] = Row(r, n + i, RowAt(f, i))
    <3> SUFFICES ASSUME NEW i \in 1 .. Count(f) PROVE \E j \in 1 .. Len(q) : q[j] = Row(r, n + i, RowAt(f, i))
      OBVIOUS
    <3>1. PICK j \in 1 .. k : drain[j] = Row(r, n + i, RowAt(f, i))
      BY <2>1
    <3> QED
      BY <1>1, <3>1
  <2>4. \A j \in 1 .. Len(q) : IsRow(q[j]) => \E i \in 1 .. Count(f) : q[j] = Row(r, n + i, RowAt(f, i))
    <3> SUFFICES ASSUME NEW j \in 1 .. Len(q), IsRow(q[j])
                 PROVE  \E i \in 1 .. Count(f) : q[j] = Row(r, n + i, RowAt(f, i))
      OBVIOUS
    <3>1. j \in 1 .. k /\ q[j] = drain[j]
      BY <1>11
    <3> QED
      BY <2>1, <3>1
  <2> QED
    BY <2>2, <2>3, <2>4 DEF DrainSays
<1>13. ASSUME NEW i \in 1 .. Len(q)
       PROVE  SendOK(r, "complete", q, i) /\ (q[i].type = "token" => TokenFits(r, s, "complete", q[i]))
  <2>1. CASE i <= k
    <3>1. i \in 1 .. k /\ q[i] = drain[i]
      BY <1>1, <1>13, <2>1
    <3>2. (IsRow(q[i]) /\ q[i].sender = r) \/ q[i] = Removal
      BY <3>1 DEF OnlyRows
    <3>3. q[i].type \notin {"token", "eof", "outeof"}
      <4>1. Removal.type = "remove"
        BY DEF Removal
      <4> QED
        BY <3>2, <4>1 DEF IsRow
    <3>4. IsRow(q[i]) => q[i].sender = r
      <4>1. q[i] = Removal => ~IsRow(q[i])
        BY DEF IsRow, Removal
      <4> QED
        BY <3>2, <4>1
    <3> QED
      BY <3>3, <3>4 DEF SendOK
  <2>2. CASE i = k + 1
    <3>1. \A j \in i .. Len(q) : ~IsRow(q[j])
      <4> SUFFICES ASSUME NEW j \in i .. Len(q), IsRow(q[j]) PROVE FALSE
        OBVIOUS
      <4>1. j \in 1 .. Len(q) /\ ~(j <= k)
        BY <1>1, <2>2
      <4>2. j \in 1 .. k
        BY <1>11, <4>1
      <4> QED
        BY <1>1, <4>1, <4>2
    <3> QED
      BY <1>1, <2>2, <3>1 DEF SendOK, IsRow
  <2>3. CASE i > k + 1
    <3>1. q[i].type = "token" /\ q[i].sender = r /\ q[i].closing
      BY <1>9, <2>3
    <3>2. rest # <<>>
      <4>1. l # 0
        BY <1>1, <2>3
      <4> QED
        BY <4>1, EmptySeq DEF l
    <3>3. Kept = Batch
      BY <3>2
    <3> QED
      BY <3>1, <3>3 DEF SendOK, IsRow, TokenFits
  <2> QED
    BY <1>10, <2>1, <2>2, <2>3
<1> QED
  BY <1>12, <1>13 DEF SendsFit


-----------------------------------------------------------------------------
(* What a coordination message leads to *)

LEMMA LengthOf == ASSUME NEW S, NEW k \in Nat, NEW q \in [1 .. k -> S] PROVE Len(q) = k
  OBVIOUS

LEMMA ClosingTokens ==
  ASSUME NEW r \in Replica, NEW n \in Nat, NEW sums \in Seq(Nat), NEW q, q = Forward(r, n, sums, TRUE)
  PROVE  q \in Seq(Sendable) /\ OnlyClosing(r, q) /\ (q # <<>> => sums # <<>>)
<1>1. q \in Seq(Sendable)
  BY ForwardOK
<1>2. q = [i \in 1 .. Len(sums) |-> Token(r, n + i, sums[i], TRUE)] /\ Len(sums) \in Nat
  BY LenProperties DEF Forward
<1>3. Len(q) = Len(sums) /\ \A i \in 1 .. Len(sums) : q[i] = Token(r, n + i, sums[i], TRUE)
  <2>1. \A i \in 1 .. Len(sums) : q[i] = Token(r, n + i, sums[i], TRUE)
    BY <1>2
  <2>2. q \in [1 .. Len(sums) -> Range(q)]
    BY <1>2 DEF Range
  <2> QED
    <3> PICK S : S = Range(q)
      OBVIOUS
    <3>1. q \in [1 .. Len(sums) -> S] /\ Len(sums) \in Nat
      BY <1>2, <2>2
    <3>2. Len(q) = Len(sums)
      BY <3>1, LengthOf
    <3> QED
      BY <2>1, <3>2
<1>4. ASSUME NEW i \in 1 .. Len(q) PROVE q[i].type = "token" /\ q[i].sender = r /\ q[i].closing
  <2>1. q[i] = Token(r, n + i, sums[i], TRUE)
    BY <1>3
  <2>2. \A k, a : /\ Token(r, k, a, TRUE).type = "token" /\ Token(r, k, a, TRUE).sender = r
                  /\ Token(r, k, a, TRUE).closing
    BY DEF Token
  <2> QED
    BY <2>1, <2>2
<1>5. OnlyClosing(r, q)
  BY <1>4 DEF OnlyClosing
<1>6. q # <<>> => sums # <<>>
  BY <1>1, <1>3, EmptySeq
<1> QED
  BY <1>1, <1>5, <1>6

LEMMA FinalizeEnds ==
  ASSUME NEW r \in Replica, NEW s \in State, s.avg, Own(r) \subseteq s.seen, s.averagesEOF \/ s.p2EOF,
         NEW f \in Seq(Batch), s.records = Len(f), NEW sums \in Seq(Nat), sums # <<>> => Kept = Batch
  PROVE  EndsWell(r, s, f, FinalizeAndEmit(r, s, f, sums))
<1>1. PICK drain : drain = Drain(r, s, f)
  OBVIOUS
<1>2. PICK n : n = s.outSeq + Rows(drain) + 1
  OBVIOUS
<1>3. PICK v : v = n + Len(sums)
  OBVIOUS
<1>4. PICK eof : eof = OutEOF(r, n, CountRows(s, f))
  OBVIOUS
<1>5. PICK one : one = <<eof>>
  OBVIOUS
<1>6. PICK rest : rest = Forward(r, n, sums, TRUE)
  OBVIOUS
<1>7. PICK q : q = (drain \o one) \o rest
  OBVIOUS
<1>8. PICK t : t = [s EXCEPT !.outSeq = v, !.cached = NoEOF]
  OBVIOUS
<1>9. PICK o : o = Outcome(t, q, "complete")
  OBVIOUS
<1>10. FinalizeAndEmit(r, s, f, sums) = o
  BY <1>1, <1>2, <1>3, <1>4, <1>5, <1>6, <1>7, <1>8, <1>9 DEF FinalizeAndEmit
<1>11. drain \in Seq(Sendable) /\ DrainSays(r, s.outSeq, f, drain) /\ OnlyRows(r, drain)
  BY <1>1, DrainOK, DrainIs DEF OnlyRows
<1>12. s.outSeq \in Nat /\ Rows(drain) \in Nat /\ Len(sums) \in Nat
  BY <1>11, RowsIs, LenProperties DEF State
<1>13. n \in Nat /\ v \in Nat /\ s.outSeq <= v
  BY <1>2, <1>3, <1>12
<1>14. t.outSeq = v /\ t.p2EOF = s.p2EOF /\ t.averagesEOF = s.averagesEOF /\ t.avg = s.avg
  BY <1>8 DEF State
<1>15. eof \in Outputs /\ eof.type = "outeof" /\ eof.sender = r
  BY <1>4, <1>13, PassingIs DEF OutEOF, Outputs
<1>16. one \in Seq(Sendable) /\ Len(one) = 1 /\ one[1] = eof
  <2>1. <<eof>>[1] = eof
    OBVIOUS
  <2> QED
    BY <1>5, <1>15, <2>1, OneSent
<1>17. rest \in Seq(Sendable) /\ OnlyClosing(r, rest) /\ (rest # <<>> => Kept = Batch)
  BY <1>6, <1>13, ClosingTokens
<1>18. DrainSays(r, s.outSeq, f, q) /\ SendsFit(r, s, "complete", q)
  BY <1>7, <1>11, <1>12, <1>15, <1>16, <1>17, FinalSends, ZenonT(40)
<1>19. o.state = t /\ o.sends = q /\ o.end = "complete"
  BY <1>9 DEF Outcome
<1>20. EndsWell(r, s, f, o)
  BY <1>13, <1>14, <1>18, <1>19 DEF EndsWell
<1> QED
  BY <1>10, <1>20

(* What is said of an outcome does not depend on the rest of the state. *)
LEMMA EndsFor ==
  ASSUME NEW r, NEW s, NEW f, NEW o, NEW t, EndsWell(r, t, f, o), t.seen = s.seen, t.outSeq = s.outSeq,
         s.averagesEOF => t.averagesEOF, o.end = "complete" => s.averagesEOF \/ s.p2EOF
  PROVE  EndsWell(r, s, f, o)
<1>1. \A end, m : TokenFits(r, t, end, m) => TokenFits(r, s, end, m)
  BY DEF TokenFits
<1> QED
  BY <1>1 DEF EndsWell, SendsFit

(* An outcome that only closes the round, or only changes the state. *)
LEMMA PlainEnds ==
  ASSUME NEW r \in Replica, NEW s \in State, NEW f, NEW t \in State, NEW q, NEW end \in {"checkpoint", "forward"},
         t.p2EOF => Own(r) \subseteq s.seen, t.averagesEOF => t.avg,
         s.outSeq <= t.outSeq, s.averagesEOF => t.averagesEOF,
         \A i \in 1 .. Len(q) : \/ q[i].type = "eof" /\ r = 0
                                \/ q[i].type = "token" /\ q[i].sender = r /\ TokenFits(r, s, end, q[i])
  PROVE  EndsWell(r, s, f, Outcome(t, q, end))
<1> PICK o : o = Outcome(t, q, end)
  OBVIOUS
<1>1. o.state = t /\ o.sends = q /\ o.end = end /\ end # "complete"
  BY DEF Outcome
<1>2. SendsFit(r, s, end, q)
  BY DEF SendsFit, SendOK, IsRow
<1>3. EndsWell(r, s, f, o)
  BY <1>1, <1>2 DEF EndsWell
<1> QED
  BY <1>3

LEMMA TransactionsEndEnds ==
  ASSUME NEW r \in Replica, NEW s \in State, s.averagesEOF => s.avg, Own(r) \subseteq s.seen,
         NEW f \in Seq(Batch), s.records = Len(f), NEW sums \in Seq(Nat), sums # <<>> => Kept = Batch
  PROVE  EndsWell(r, s, f, TransactionsEnd(r, s, f, sums))
<1>1. PICK t : t = [s EXCEPT !.p2EOF = TRUE]
  OBVIOUS
<1>2. /\ t \in State /\ t.seen = s.seen /\ t.outSeq = s.outSeq /\ t.averagesEOF = s.averagesEOF
      /\ t.avg = s.avg /\ t.records = s.records /\ t.p2EOF
  BY <1>1 DEF State
<1>3. CASE s.averagesEOF
  <2>1. TransactionsEnd(r, s, f, sums) = FinalizeAndEmit(r, t, f, sums)
    BY <1>1, <1>3 DEF TransactionsEnd
  <2>2. EndsWell(r, t, f, FinalizeAndEmit(r, t, f, sums))
    BY <1>2, <1>3, FinalizeEnds
  <2> QED
    BY <1>2, <1>3, <2>1, <2>2, EndsFor
<1>4. CASE ~s.averagesEOF /\ sums = <<>>
  <2>1. TransactionsEnd(r, s, f, sums) = Outcome(t, <<>>, "checkpoint")
    BY <1>1, <1>4 DEF TransactionsEnd
  <2>2. s.outSeq <= t.outSeq
    BY <1>2 DEF State
  <2>3. Len(<<>>) = 0
    OBVIOUS
  <2> QED
    BY <1>2, <2>1, <2>2, <2>3, PlainEnds
<1>5. CASE ~s.averagesEOF /\ sums # <<>>
  <2>1. PICK n : n = t.outSeq + 1
    OBVIOUS
  <2>2. PICK u : u = [t EXCEPT !.outSeq = n]
    OBVIOUS
  <2>3. PICK q : q = Forward(r, t.outSeq, sums, TRUE)
    OBVIOUS
  <2>4. TransactionsEnd(r, s, f, sums) = Outcome(u, q, "forward")
    BY <1>1, <1>5, <2>1, <2>2, <2>3 DEF TransactionsEnd
  <2>5. t.outSeq \in Nat
    BY <1>2 DEF State
  <2>6. n \in Nat /\ s.outSeq <= n
    BY <1>2, <2>1, <2>5
  <2>7. u \in State /\ u.p2EOF /\ u.averagesEOF = s.averagesEOF /\ u.avg = s.avg /\ u.outSeq = n
    BY <1>2, <2>2, <2>6 DEF State
  <2>8. OnlyClosing(r, q)
    <3>1. PICK k : k = t.outSeq
      OBVIOUS
    <3>2. k \in Nat /\ q = Forward(r, k, sums, TRUE)
      BY <2>3, <2>5, <3>1
    <3> QED
      BY <3>2, ClosingTokens
  <2>9. \A i \in 1 .. Len(q) : q[i].type = "token" /\ q[i].sender = r /\ TokenFits(r, s, "forward", q[i])
    BY <1>5, <2>8 DEF OnlyClosing, TokenFits
  <2> QED
    BY <2>4, <2>6, <2>7, <2>9, PlainEnds
<1> QED
  BY <1>3, <1>4, <1>5

LEMMA AveragesEndEnds ==
  ASSUME NEW r \in Replica, NEW s \in State, s.averagesEOF => s.avg, s.p2EOF => Own(r) \subseteq s.seen,
         NEW f \in Seq(Batch), s.records = Len(f)
  PROVE  EndsWell(r, s, f, AveragesEnd(r, s, f))
<1>1. PICK t : t = [s EXCEPT !.averagesEOF = TRUE]
  OBVIOUS
<1>2. /\ t \in State /\ t.seen = s.seen /\ t.outSeq = s.outSeq /\ t.averagesEOF
      /\ t.avg = s.avg /\ t.records = s.records /\ t.p2EOF = s.p2EOF
  BY <1>1 DEF State
<1>3. s.outSeq <= t.outSeq /\ s.outSeq <= s.outSeq
  BY <1>2 DEF State
<1>4. \A i \in 1 .. Len(<<>>) : FALSE
  OBVIOUS
<1>5. CASE ~s.avg \/ s.averagesEOF
  <2>1. AveragesEnd(r, s, f) = Outcome(s, <<>>, "checkpoint")
    BY <1>5 DEF AveragesEnd
  <2> QED
    BY <1>3, <1>4, <2>1, PlainEnds
<1>6. CASE s.avg /\ ~s.averagesEOF /\ s.p2EOF
  <2>1. AveragesEnd(r, s, f) = FinalizeAndEmit(r, t, f, <<>>)
    BY <1>1, <1>6 DEF AveragesEnd
  <2>2. EndsWell(r, t, f, FinalizeAndEmit(r, t, f, <<>>))
    BY <1>2, <1>6, FinalizeEnds, EmptySeq
  <2> QED
    BY <1>2, <1>6, <2>1, <2>2, EndsFor
<1>7. CASE s.avg /\ ~s.averagesEOF /\ ~s.p2EOF
  <2>1. AveragesEnd(r, s, f) = Outcome(t, <<>>, "checkpoint")
    BY <1>1, <1>7 DEF AveragesEnd
  <2> QED
    <3>1. EndsWell(r, s, f, Outcome(t, <<>>, "checkpoint"))
      BY <1>2, <1>3, <1>4, <1>7, PlainEnds
    <3> QED
      BY <2>1, <3>1
<1> QED
  BY <1>5, <1>6, <1>7

(* A handler that sends one token, with a number of its own.                 *)
LEMMA TokenEnds ==
  ASSUME NEW r \in Replica, NEW s \in State, s.averagesEOF => s.avg, s.p2EOF => Own(r) \subseteq s.seen,
         NEW f, NEW agg, NEW closing, NEW n, n = s.outSeq + 1,
         TokenFits(r, s, "forward", Token(r, n, agg, closing))
  PROVE  EndsWell(r, s, f, Outcome([s EXCEPT !.outSeq = @ + 1], <<Token(r, n, agg, closing)>>, "forward"))
<1>1. PICK u : u = [s EXCEPT !.outSeq = n]
  OBVIOUS
<1>2. PICK m : m = Token(r, n, agg, closing)
  OBVIOUS
<1>3. PICK q : q = <<m>>
  OBVIOUS
<1>4. n \in Nat /\ s.outSeq <= n
  BY DEF State
<1>5. u \in State /\ u.p2EOF = s.p2EOF /\ u.averagesEOF = s.averagesEOF /\ u.avg = s.avg /\ u.outSeq = n
  BY <1>1, <1>4 DEF State
<1>6. m.type = "token" /\ m.sender = r
  BY <1>2 DEF Token
<1>7. \A i \in 1 .. Len(q) : q[i] = m
  BY <1>3
<1>8. \A i \in 1 .. Len(q) : q[i].type = "token" /\ q[i].sender = r /\ TokenFits(r, s, "forward", q[i])
  BY <1>2, <1>6, <1>7
<1>9. EndsWell(r, s, f, Outcome(u, q, "forward"))
  BY <1>4, <1>5, <1>8, PlainEnds
<1>10. u = [s EXCEPT !.outSeq = @ + 1]
  BY <1>1
<1> QED
  BY <1>2, <1>3, <1>9, <1>10

LEMMA TryFinalizeEnds ==
  ASSUME NEW s \in State, s.averagesEOF => s.avg, s.p2EOF => Own(0) \subseteq s.seen,
         NEW f \in Seq(Batch), s.records = Len(f), NEW agg,
         agg = Total => (N > 1 => Kept = Batch) /\ (~(N > 1) => Own(0) \subseteq s.seen)
  PROVE  EndsWell(0, s, f, TryFinalize(s, f, agg))
<1>1. CASE agg # Total
  <2>1. PICK u : u = [s EXCEPT !.initiator = FALSE, !.cached = NoEOF]
    OBVIOUS
  <2>2. PICK q : q = <<Retry(s)>>
    OBVIOUS
  <2>3. TryFinalize(s, f, agg) = Outcome(u, q, "forward")
    BY <1>1, <2>1, <2>2 DEF TryFinalize
  <2>4. u \in State /\ u.p2EOF = s.p2EOF /\ u.averagesEOF = s.averagesEOF /\ u.avg = s.avg /\ u.outSeq = s.outSeq
    <3>1. u \in State
      BY <2>1, InitiatorIs
    <3> QED
      BY <2>1, <3>1 DEF State
  <2>5. s.outSeq <= u.outSeq
    BY <2>4 DEF State
  <2>6. Retry(s).type = "eof"
    BY DEF Retry, EOFMsg
  <2>7. \A i \in 1 .. Len(q) : q[i].type = "eof"
    BY <2>2, <2>6
  <2> QED
    BY <2>3, <2>4, <2>5, <2>7, FirstReplica, PlainEnds
<1>2. CASE agg = Total /\ N > 1
  <2>1. TryFinalize(s, f, agg) = Outcome([s EXCEPT !.outSeq = @ + 1], <<Token(0, s.outSeq + 1, agg, TRUE)>>, "forward")
    BY <1>2 DEF TryFinalize
  <2>2. TokenFits(0, s, "forward", Token(0, s.outSeq + 1, agg, TRUE))
    BY <1>2 DEF TokenFits, Token
  <2> QED
    BY <2>1, <2>2, TokenEnds, FirstReplica
<1>3. CASE agg = Total /\ ~(N > 1)
  <2>1. PICK u : u = [s EXCEPT !.initiator = FALSE]
    OBVIOUS
  <2>2. TryFinalize(s, f, agg) = TransactionsEnd(0, u, f, <<>>)
    BY <1>3, <2>1 DEF TryFinalize
  <2>3. u \in State /\ u.seen = s.seen /\ u.outSeq = s.outSeq /\ u.averagesEOF = s.averagesEOF
        /\ u.avg = s.avg /\ u.records = s.records /\ u.p2EOF = s.p2EOF
    BY <2>1 DEF State
  <2>4. EndsWell(0, u, f, TransactionsEnd(0, u, f, <<>>))
    BY <1>3, <2>3, FirstReplica, EmptySeq, TransactionsEndEnds
  <2>5. TransactionsEnd(0, u, f, <<>>).end = "complete" => u.averagesEOF
    BY DEF TransactionsEnd, Outcome
  <2> QED
    BY <2>2, <2>3, <2>4, <2>5, EndsFor
<1> QED
  BY <1>1, <1>2, <1>3

(* What the token sums up. *)

LEMMA AllAreKept ==
  ASSUME NEW S \in SUBSET Batch, Total <= Cardinality(S)
  PROVE  S = Batch
<1>1. Cardinality(Batch) \in Nat
  BY FS_CardinalityType
<1>2. IsFiniteSet(S) /\ Cardinality(S) <= Cardinality(Batch) /\ (Cardinality(S) = Cardinality(Batch) => S = Batch)
  BY FS_Subset
<1>3. Cardinality(S) \in Nat
  BY <1>2, FS_CardinalityType
<1> QED
  BY <1>1, <1>2, <1>3 DEF Total

(* A replica adds its batches to those that the ones before it have. *)
LEMMA SumFits ==
  ASSUME NEW r \in Replica, NEW S \in SUBSET Own(r), NEW p \in Replica, r = p + 1,
         NEW agg \in Nat, agg <= Cardinality(KeptBy(p)), NEW c, c = Cardinality(S)
  PROVE  agg + c <= Cardinality({b \in Kept \cup S : home[b] <= r})
<1>1. PICK K : K = KeptBy(p)
  OBVIOUS
<1>2. PICK L : L = {b \in Kept \cup S : home[b] <= r}
  OBVIOUS
<1>3. r \in Int /\ p \in Int /\ ~(r <= p)
  BY DEF Replica
<1>4. K \in SUBSET Batch /\ IsFiniteSet(K) /\ Cardinality(K) \in Nat /\ agg <= Cardinality(K)
  BY <1>1, KeptIsFinite
<1>5. S \in SUBSET Batch
  BY DEF Own
<1>6. IsFiniteSet(S)
  BY <1>5, FS_Subset
<1>7. Cardinality(S) \in Nat
  BY <1>6, FS_CardinalityType
<1>8. K \cap S = {}
  BY <1>1, <1>3 DEF KeptBy, Own
<1>9. K \cup S \subseteq L
  <2>1. K \subseteq L
    <3>1. \A b \in K : b \in Kept /\ home[b] <= p /\ home[b] \in Int
      BY <1>1, <1>4 DEF KeptBy, Replica
    <3> QED
      BY <1>2, <1>3, <3>1
  <2>2. S \subseteq L
    BY <1>2, <1>3 DEF Own
  <2> QED
    BY <2>1, <2>2
<1>10. L \in SUBSET Batch
  BY <1>2, <1>5 DEF Kept
<1>11. IsFiniteSet(L)
  BY <1>10, FS_Subset
<1>12. Cardinality(K \cup S) <= Cardinality(L) /\ Cardinality(L) \in Nat
  BY <1>9, <1>11, FS_Subset, FS_CardinalityType
<1>13. Cardinality(K \cup S) = Cardinality(K) + Cardinality(S)
  <2>1. Cardinality(K \cup S) = Cardinality(K) + Cardinality(S) - Cardinality({})
    BY <1>4, <1>6, <1>8, FS_Union
  <2>2. Cardinality({}) = 0
    BY FS_EmptySet
  <2> QED
    BY <1>4, <1>7, <2>1, <2>2
<1> QED
  BY <1>2, <1>4, <1>7, <1>12, <1>13

(* What a handler finds in the state. *)
Sound(r, s, f) ==
  /\ s.averagesEOF => s.avg
  /\ s.p2EOF => Own(r) \subseteq s.seen
  /\ s.seen \subseteq Own(r)
  /\ s.p2Seen = Cardinality(s.seen)
  /\ s.records = Len(f)
  /\ Kept = Batch => Own(r) \subseteq s.seen

LEMMA TransactionsEOFEnds ==
  ASSUME NEW s \in State, NEW f \in Seq(Batch), Sound(0, s, f)
  PROVE  EndsWell(0, s, f, TransactionsEOF(s, f))
<1>1. PICK t : t = [s EXCEPT !.initiator = TRUE]
  OBVIOUS
<1>2. /\ t \in State /\ t.seen = s.seen /\ t.outSeq = s.outSeq /\ t.averagesEOF = s.averagesEOF
      /\ t.avg = s.avg /\ t.records = s.records /\ t.p2EOF = s.p2EOF /\ s.p2Seen \in Nat
      /\ s.seen \in SUBSET Batch
  BY <1>1 DEF State
<1>3. CASE N = 1
  <2>1. TransactionsEOF(s, f) = TryFinalize(t, f, s.p2Seen)
    BY <1>1, <1>3 DEF TransactionsEOF
  <2>2. s.p2Seen = Total => Own(0) \subseteq t.seen
    <3>1. SUFFICES ASSUME s.p2Seen = Total PROVE s.seen = Batch
      BY <1>2 DEF Own
    <3>2. Total <= Cardinality(s.seen)
      BY <1>2, <3>1 DEF Sound
    <3> QED
      BY <1>2, <3>2, AllAreKept
  <2>3. EndsWell(0, t, f, TryFinalize(t, f, s.p2Seen))
    BY <1>2, <1>3, <2>2, TryFinalizeEnds DEF Sound
  <2>4. TryFinalize(t, f, s.p2Seen).end = "complete" => t.averagesEOF
    BY <1>3 DEF TryFinalize, TransactionsEnd, Outcome
  <2> QED
    BY <1>2, <2>1, <2>3, <2>4, EndsFor
<1>4. CASE N # 1
  <2>1. PICK m : m = Token(0, s.outSeq + 1, s.p2Seen, FALSE)
    OBVIOUS
  <2>2. TransactionsEOF(s, f) = Outcome([t EXCEPT !.outSeq = @ + 1], <<m>>, "forward")
    BY <1>1, <1>4, <2>1 DEF TransactionsEOF
  <2>3. PICK o : o = Outcome([t EXCEPT !.outSeq = @ + 1], <<m>>, "forward")
    OBVIOUS
  <2>4. ~m.closing /\ m.agg = s.p2Seen
    BY <2>1 DEF Token
  <2>5. s.p2Seen <= Cardinality({b \in Kept \cup s.seen : home[b] <= 0})
    <3>1. PICK L : L = {b \in Kept \cup s.seen : home[b] <= 0}
      OBVIOUS
    <3>2. s.seen \subseteq L /\ L \in SUBSET Batch
      BY <1>2, <3>1 DEF Sound, Own, Kept
    <3>3. IsFiniteSet(L)
      BY <3>2, FS_Subset
    <3>4. Cardinality(s.seen) <= Cardinality(L)
      BY <3>2, <3>3, FS_Subset
    <3> QED
      BY <3>1, <3>4 DEF Sound
  <2>6. TokenFits(0, t, "forward", m)
    BY <1>2, <2>4, <2>5 DEF TokenFits
  <2>7. EndsWell(0, t, f, o)
    <3>1. (t.averagesEOF => t.avg) /\ (t.p2EOF => Own(0) \subseteq t.seen)
      BY <1>2 DEF Sound
    <3>2. m = Token(0, t.outSeq + 1, s.p2Seen, FALSE)
      BY <1>2, <2>1
    <3> QED
      BY <1>2, <2>3, <2>6, <3>1, <3>2, FirstReplica, TokenEnds
  <2>8. o.end = "forward"
    BY <2>3 DEF Outcome
  <2> QED
    BY <1>2, <2>2, <2>3, <2>7, <2>8, EndsFor
<1> QED
  BY <1>3, <1>4

LEMMA RingTokenEnds ==
  ASSUME NEW r \in Replica, NEW s \in State, NEW f \in Seq(Batch), Sound(r, s, f),
         NEW t \in Tokens, Successor(t.sender) = r, TokenOK(t)
  PROVE  EndsWell(r, s, f, RingToken(r, s, f, t))
<1>1. t.agg \in Nat /\ t.sender \in Replica /\ (t.closing => Kept = Batch)
  BY DEF Tokens, TokenOK
<1>2. /\ s.averagesEOF => s.avg
      /\ s.p2EOF => Own(r) \subseteq s.seen
      /\ s.seen \subseteq Own(r)
      /\ s.p2Seen = Cardinality(s.seen)
      /\ s.records = Len(f)
      /\ Kept = Batch => Own(r) \subseteq s.seen
  BY DEF Sound
<1>3. CASE r = 0 /\ t.closing
  <2>1. PICK u : u = [s EXCEPT !.initiator = FALSE]
    OBVIOUS
  <2>2. RingToken(r, s, f, t) = TransactionsEnd(r, u, f, <<>>)
    BY <1>3, <2>1 DEF RingToken
  <2>3. /\ u \in State /\ u.seen = s.seen /\ u.outSeq = s.outSeq /\ u.averagesEOF = s.averagesEOF
        /\ u.avg = s.avg /\ u.records = s.records /\ u.p2EOF = s.p2EOF
    BY <2>1 DEF State
  <2>4. EndsWell(r, u, f, TransactionsEnd(r, u, f, <<>>))
    BY <1>1, <1>2, <1>3, <2>3, EmptySeq, TransactionsEndEnds
  <2>5. TransactionsEnd(r, u, f, <<>>).end = "complete" => u.averagesEOF
    BY DEF TransactionsEnd, Outcome
  <2> QED
    BY <2>2, <2>3, <2>4, <2>5, EndsFor
<1>4. CASE r = 0 /\ ~t.closing /\ s.initiator
  <2>1. RingToken(r, s, f, t) = TryFinalize(s, f, t.agg)
    BY <1>4 DEF RingToken
  <2>2. t.agg = Total => Kept = Batch
    <3>1. SUFFICES ASSUME t.agg = Total PROVE Kept = Batch
      OBVIOUS
    <3>2. Total <= Cardinality(KeptBy(t.sender))
      BY <1>4, <3>1 DEF TokenOK
    <3>3. KeptBy(t.sender) = Batch
      BY <3>2, KeptIsFinite, AllAreKept
    <3> QED
      BY <3>3 DEF KeptBy, Kept
  <2> QED
    BY <1>1, <1>2, <1>4, <2>1, <2>2, TryFinalizeEnds
<1>5. CASE r = 0 /\ ~t.closing /\ ~s.initiator
  <2>1. RingToken(r, s, f, t) = Outcome(s, <<>>, "checkpoint")
    BY <1>5 DEF RingToken
  <2>2. s.outSeq <= s.outSeq
    BY DEF State
  <2>3. \A i \in 1 .. Len(<<>>) : FALSE
    OBVIOUS
  <2> QED
    BY <1>2, <2>1, <2>2, <2>3, PlainEnds
<1>6. CASE r # 0 /\ t.closing
  <2>1. RingToken(r, s, f, t) = TransactionsEnd(r, s, f, <<t.agg>>)
    BY <1>6 DEF RingToken
  <2>2. <<t.agg>> \in Seq(Nat)
    BY <1>1
  <2> QED
    BY <1>1, <1>2, <1>6, <2>1, <2>2, TransactionsEndEnds
<1>7. CASE r # 0 /\ ~t.closing
  <2>1. PICK n : n = s.outSeq + 1
    OBVIOUS
  <2>2. PICK agg : agg = t.agg + s.p2Seen
    OBVIOUS
  <2>3. PICK m : m = Token(r, n, agg, FALSE)
    OBVIOUS
  <2>4. RingToken(r, s, f, t) = Outcome([s EXCEPT !.outSeq = @ + 1], <<m>>, "forward")
    BY <1>7, <2>1, <2>2, <2>3 DEF RingToken
  <2>5. r = t.sender + 1
    <3>1. t.sender \in 0 .. N - 1 /\ N \in Nat \ {0} /\ (t.sender + 1) % N = r
      BY <1>1 DEF Successor, Replica
    <3>2. CASE t.sender = N - 1
      <4>1. N % N = 0
        BY <3>1
      <4> QED
        BY <1>7, <3>1, <3>2, <4>1
    <3>3. CASE t.sender # N - 1
      BY <3>1, <3>3
    <3> QED
      BY <3>2, <3>3
  <2>6. t.agg <= Cardinality(KeptBy(t.sender))
    BY <1>7 DEF TokenOK
  <2>7. agg <= Cardinality({b \in Kept \cup s.seen : home[b] <= r})
    BY <1>1, <1>2, <2>2, <2>5, <2>6, SumFits
  <2>8. ~m.closing /\ m.agg = agg
    BY <2>3 DEF Token
  <2>9. TokenFits(r, s, "forward", m)
    BY <2>7, <2>8 DEF TokenFits
  <2> QED
    <3>1. TokenFits(r, s, "forward", Token(r, n, agg, FALSE))
      BY <2>3, <2>9
    <3>2. EndsWell(r, s, f, Outcome([s EXCEPT !.outSeq = @ + 1], <<Token(r, n, agg, FALSE)>>, "forward"))
      BY <1>2, <2>1, <3>1, TokenEnds
    <3> QED
      BY <2>3, <2>4, <3>2
<1> QED
  BY <1>3, <1>4, <1>5, <1>6, <1>7

LEMMA SoundThen ==
  ASSUME EndInv, Unharmed, NEW r \in Replica, phase[r] = "idle", r \notin tomb
  PROVE  Sound(r, mem[r], file[r])
<1>1. Parts(r) /\ IndInv /\ ReplicaOK(r)
  BY FieldsAre DEF EndInv, Parts
<1>2. StateOK(r, mem[r])
  BY <1>1 DEF Parts
<1>3. mem[r].p2Seen = Cardinality(mem[r].seen) /\ disk[r].state.seen \subseteq mem[r].seen
  BY <1>1 DEF ReplicaOK, Exact
<1>4. mem[r].records = Len(file[r])
  <2>1. ~AfterDrain(r)
    BY DEF AfterDrain
  <2> QED
    BY <1>1, <2>1 DEF ReplicaOK, FileOK
<1>5. Kept = Batch => Own(r) \subseteq mem[r].seen
  BY <1>3 DEF Kept, Own
<1> QED
  BY <1>2, <1>3, <1>4, <1>5 DEF Sound, StateOK

(* The handlers, by what they lead to. *)
LEMMA HandleEOFIs ==
  ASSUME EndInv, Unharmed, NEW r \in Replica, NEW m, HandleEOF(r, m), NEW s, s = [mem[r] EXCEPT !.cached = m],
         NEW f, f = file[r],
         NEW o, o = IF m.sender = Aggregator THEN AveragesEnd(r, s, f) ELSE TransactionsEOF(s, f)
  PROVE  /\ Accept(r, m, "eof") /\ Apply(r, m, o) /\ IndInv' /\ m \in Coordination /\ m.type = "eof"
         /\ m.sender = Aggregator \/ r = 0
         /\ s \in State /\ s.seen = mem[r].seen /\ s.outSeq = mem[r].outSeq /\ s.coord = mem[r].coord
         /\ s.p2EOF = mem[r].p2EOF /\ s.averagesEOF = mem[r].averagesEOF
         /\ f \in Seq(Batch) /\ Sound(r, s, f)
         /\ GoodOutcome(s, o) /\ EndsWell(r, s, f, o)
<1>1. IndInv /\ IndInv'
  BY HandleEOFInd DEF EndInv
<1>2. Accept(r, m, "eof") /\ Apply(r, m, o)
  BY DEF HandleEOF
<1>3. m \in EOFs /\ m.type = "eof" /\ m \in Coordination /\ m # NoEOF /\ (m.sender = Aggregator \/ r = 0)
  <2>1. m \in EOFs /\ m.type = "eof"
    BY <1>1, <1>2, AcceptIs, MessageKinds
  <2>2. NoEOF.type = "none"
    BY DEF NoEOF
  <2>3. m \in inbox[r] /\ Parts(r)
    BY <1>2, AcceptEnd
  <2>4. m.sender = Aggregator \/ r = 0
    BY <2>1, <2>3 DEF Parts, QueueOK
  <2> QED
    BY <2>1, <2>2, <2>4 DEF Coordination
<1>4. mem[r] \in State /\ f \in Seq(Batch)
  BY <1>1, FieldsAre
<1>5. /\ s \in State /\ s.cached = m /\ s.seen = mem[r].seen /\ s.outSeq = mem[r].outSeq
      /\ s.p2EOF = mem[r].p2EOF /\ s.averagesEOF = mem[r].averagesEOF /\ s.avg = mem[r].avg
      /\ s.p2Seen = mem[r].p2Seen /\ s.records = mem[r].records /\ s.coord = mem[r].coord
  BY <1>3, <1>4 DEF State
<1>6. Sound(r, s, f)
  <2>1. Sound(r, mem[r], f)
    BY <1>1, <1>2, AcceptIs, SoundThen
  <2> QED
    BY <1>5, <2>1 DEF Sound
<1>7. GoodOutcome(s, o) /\ EndsWell(r, s, f, o)
  <2>1. CASE m.sender = Aggregator
    <3>1. GoodOutcome(s, AveragesEnd(r, s, f))
      BY <1>3, <1>4, <1>5, AveragesEndOK DEF Ready
    <3>2. EndsWell(r, s, f, AveragesEnd(r, s, f))
      BY <1>4, <1>5, <1>6, AveragesEndEnds DEF Sound
    <3> QED
      BY <2>1, <3>1, <3>2
  <2>2. CASE m.sender # Aggregator
    <3>1. GoodOutcome(s, TransactionsEOF(s, f))
      BY <1>3, <1>4, <1>5, TransactionsEOFOK
    <3>2. EndsWell(r, s, f, TransactionsEOF(s, f))
      BY <1>3, <1>4, <1>5, <1>6, <2>2, TransactionsEOFEnds
    <3> QED
      BY <2>2, <3>1, <3>2
  <2> QED
    BY <2>1, <2>2
<1> QED
  BY <1>1, <1>2, <1>3, <1>4, <1>5, <1>6, <1>7

LEMMA HandleEOFEnd ==
  ASSUME EndInv, Unharmed, NEW r \in Replica, NEW m, HandleEOF(r, m)
  PROVE  EndInv'
<1>1. PICK s : s = [mem[r] EXCEPT !.cached = m]
  OBVIOUS
<1>2. PICK f : f = file[r]
  OBVIOUS
<1>3. PICK o : o = IF m.sender = Aggregator THEN AveragesEnd(r, s, f) ELSE TransactionsEOF(s, f)
  OBVIOUS
<1>4. /\ Accept(r, m, "eof") /\ Apply(r, m, o) /\ IndInv' /\ m \in Coordination
      /\ s.seen = mem[r].seen /\ s.outSeq = mem[r].outSeq
      /\ s.p2EOF = mem[r].p2EOF /\ s.averagesEOF = mem[r].averagesEOF
      /\ GoodOutcome(s, o) /\ EndsWell(r, s, f, o)
  BY <1>1, <1>2, <1>3, HandleEOFIs
<1> QED
  BY <1>2, <1>4, ApplyEnd

LEMMA HandleTokenIs ==
  ASSUME EndInv, Unharmed, NEW r \in Replica, NEW m, HandleToken(r, m), NEW s, s = mem[r],
         NEW f, f = file[r], NEW o, o = RingToken(r, s, f, m)
  PROVE  /\ Accept(r, m, "token") /\ Apply(r, m, o) /\ IndInv' /\ m \in Tokens /\ m \in Coordination
         /\ s \in State /\ f \in Seq(Batch) /\ Sound(r, s, f)
         /\ GoodOutcome(s, o) /\ EndsWell(r, s, f, o)
<1>1. IndInv /\ IndInv'
  BY HandleTokenInd DEF EndInv
<1>2. Accept(r, m, "token") /\ Apply(r, m, o)
  BY DEF HandleToken
<1>3. m \in Tokens /\ m \in Coordination /\ Successor(m.sender) = r /\ TokenOK(m)
  <2>1. m \in Tokens /\ m.type = "token"
    BY <1>1, <1>2, AcceptIs, MessageKinds
  <2>2. m \in inbox[r] /\ Parts(r)
    BY <1>2, AcceptEnd
  <2> QED
    BY <2>1, <2>2 DEF Parts, QueueOK, Coordination
<1>4. s \in State /\ f \in Seq(Batch) /\ Ready(s)
  BY <1>1, <1>2, FieldsAre, AcceptIs DEF ReplicaOK
<1>5. Sound(r, s, f)
  BY <1>1, <1>2, AcceptIs, SoundThen
<1>6. GoodOutcome(s, o) /\ EndsWell(r, s, f, o)
  BY <1>3, <1>4, <1>5, RingTokenOK, RingTokenEnds
<1> QED
  BY <1>1, <1>2, <1>3, <1>4, <1>5, <1>6

LEMMA HandleTokenEnd ==
  ASSUME EndInv, Unharmed, NEW r \in Replica, NEW m, HandleToken(r, m)
  PROVE  EndInv'
<1>1. PICK s : s = mem[r]
  OBVIOUS
<1>2. PICK f : f = file[r]
  OBVIOUS
<1>3. PICK o : o = RingToken(r, s, f, m)
  OBVIOUS
<1>4. /\ Accept(r, m, "token") /\ Apply(r, m, o) /\ IndInv' /\ m \in Coordination
      /\ GoodOutcome(s, o) /\ EndsWell(r, s, f, o)
  BY <1>1, <1>2, <1>3, HandleTokenIs
<1> QED
  BY <1>1, <1>2, <1>4, ApplyEnd

LEMMA NextEnd == Windows = {} /\ EndInv /\ [Next]_vars => EndInv'
<1> SUFFICES ASSUME Windows = {}, EndInv, [Next]_vars PROVE EndInv'
  OBVIOUS
<1>0. Unharmed
  BY DEF Unharmed
<1>1. CASE UNCHANGED vars
  <2>1. IndInv'
    BY NextInd DEF EndInv
  <2>2. UNCHANGED <<inbox, pending, mem, disk, file, tomb, unconfirmed, outbox, phase, out>>
    BY <1>1 DEF vars
  <2>3. Kept \subseteq Kept'
    BY <2>2 DEF Kept
  <2>4. \A q \in Replica : Parts(q)'
    BY <2>2, <2>3, PartsStay
  <2> QED
    BY <2>1, <2>4 DEF EndInv, Parts
<1>2. ASSUME NEW r \in Replica, Consume(r) PROVE EndInv'
  BY <1>0, <1>2, DiscardEnd, BufferBatchEnd, FilterBatchEnd, StoreAveragesEnd, HandleEOFEnd, HandleTokenEnd DEF Consume
<1>3. ASSUME NEW r \in Replica, Finish(r) PROVE EndInv'
  BY <1>3, ConfirmEnd, PublishEnd, CheckpointEnd, CompleteEnd DEF Finish
<1>4. ASSUME NEW r \in Replica, Crash(r) PROVE EndInv'
  BY <1>4, CrashEnd
<1>5. ASSUME NEW r \in Replica, NEW m \in Arriving(r), Redeliver(r, m) PROVE EndInv'
  BY <1>5, RedeliverEnd
<1> QED
  BY <1>1, <1>2, <1>3, <1>4, <1>5 DEF Next

(* When every replica has announced the end, every row that passes is in the *)
(* result (finalizeAndEmit, filter_q3.go:201-229), although a kill may       *)
(* interrupt a drain between two rows and the drain that follows publishes   *)
(* from the same number again (drainIterator, filter_q3.go:365-440): what is *)
(* taken for a repetition is one.  Kills in the three moments that nothing   *)
(* protects (before the first checkpoint, after the drain, between a token   *)
(* and its checkpoint) are left out.                                         *)
THEOREM EndIsComplete ==
  ASSUME Windows = {}
  PROVE  Spec => []EndedIsComplete
<1>1. EndInv /\ [Next]_vars => EndInv'
  BY NextEnd
<1>2. EndInv => EndedIsComplete
  <2> SUFFICES ASSUME EndInv, Ended, NEW b \in Passing PROVE RowsOf(b) # {}
    BY DEF EndedIsComplete
  <2>1. b \in Batch /\ home[b] \in Replica
    OBVIOUS
  <2>2. EndOK(home[b]) /\ EOFsOf(home[b]) # {}
    BY <2>1 DEF EndInv, Ended
  <2>3. HasRow(b)
    BY <2>1, <2>2 DEF EndOK, Own
  <2> QED
    BY <2>3 DEF HasRow, IsRow, RowsOf
<1> QED
  BY <1>1, <1>2, InitEnd, PTL DEF Spec

-----------------------------------------------------------------------------
(* A row reaches the result once                                             *)

(* What no crash takes from a replica, and what it gets, or gets again.      *)
Saved(r) == IF phase[r] = "forward" THEN mem[r] ELSE disk[r].state
Coming(r) == inbox[r] \cup pending[r]

(* Messages of the rounds.  A round is open until its closing token.         *)
IsOpen(m) == \/ m.type = "eof" /\ m.sender # Aggregator
             \/ m.type = "token" /\ ~m.closing
IsClosing(m) == m.type = "token" /\ m.closing

(* Memory is never behind what is saved, and numbers are given by rounds and *)
(* by the end of the client only.                                            *)
MarksOK(r) ==
  /\ \A s \in Sender : Saved(r).coord[s] <= mem[r].coord[s]
  /\ Saved(r).p2EOF => mem[r].p2EOF
  /\ phase[r] # "complete" => mem[r].outSeq = Saved(r).outSeq
  /\ phase[r] = "complete" \/ (r \notin tomb /\ Drained(r) # {}) => Saved(r).averagesEOF \/ Saved(r).p2EOF
  /\ N > 1 /\ r = 0 => mem[r].coord[Transactions] = Saved(r).coord[Transactions]
  /\ N > 1 /\ r = 0 /\ r \notin tomb /\ mem[r].coord[Transactions] = 0 => EOFMsg(Transactions, 1) \in inbox[r]

(* The messages of an open round that have not been handled for good.        *)
Waiting(r) == {m \in Coming(r) : IsOpen(m) /\ r \notin tomb /\ m.seq > Saved(r).coord[m.sender]}
Sending(r) == {i \in 1 .. Len(outbox[r]) : IsOpen(outbox[r][i])}

RoundInv ==
  N > 1 => \A r, s \in Replica :
    /\ \A m \in Waiting(r), n \in Waiting(s) : r = s /\ m = n
    /\ \A i \in Sending(r), j \in Sending(s) : r = s /\ i = j
    /\ Waiting(r) = {} \/ Sending(s) = {}

(* A replica that has seen the closing token, or that it is on its way to.   *)
Ends(r) == \/ r \in tomb \/ phase[r] = "complete" \/ mem[r].p2EOF
           \/ \E m \in Coming(r) : IsClosing(m)
           \/ \E i \in 1 .. Len(outbox[r]) : IsClosing(outbox[r][i])
           \/ Drained(r) # {}
Ending == \E r \in Replica : Ends(r)

ClosedInv == N > 1 /\ Ending => \A r \in Replica : Waiting(r) = {} /\ Sending(r) = {}

(* The SeqIDs under which the closing token of q is known. *)
ClosedAs(q, a) ==
  LET s == Successor(q)
  IN \/ \E m \in Coming(s) : IsClosing(m) /\ m.sender = q /\ m.seq = a
     \/ \E i \in 1 .. Len(outbox[q]) : IsClosing(outbox[q][i]) /\ outbox[q][i].seq = a
     \/ s \notin tomb /\ mem[s].p2EOF /\ mem[s].coord[q] = a
     \/ s \notin tomb /\ Saved(s).p2EOF /\ Saved(s).coord[q] = a

(* The SeqID of the closing token that follows a drain of f.                 *)
ClosingAt(r, n, f) ==
  n + Rows(Drain(r, [Fresh EXCEPT !.avg = TRUE, !.outSeq = n, !.records = Len(f)], f)) + 2

(* Nobody closes the round twice, also one that repeats the end.             *)
AgainOK(q, a) ==
  \/ q = 0 \/ q \in tomb \/ Saved(q).p2EOF \/ AfterDrain(q)
  \/ Saved(q).averagesEOF /\ a = ClosingAt(q, Saved(q).outSeq, file[q])
CloseInv ==
  N > 1 => \A q \in Replica :
    /\ \A a, b : ClosedAs(q, a) /\ ClosedAs(q, b) => a = b
    /\ \A a : ClosedAs(q, a) => AgainOK(q, a)

(* The row that a drain of r begun now would publish for one of its records. *)
FromFile(r, o) == \E i \in 1 .. Count(file[r]) : o = Row(r, Saved(r).outSeq + i, RowAt(file[r], i))

(* A row that is issued is live, and its batch is not in the file, or it is  *)
(* the one that a drain publishes, if there can be another drain.            *)
RowOK(o) ==
  LET r == home[o.batch]
  IN /\ o.sender = r
     /\ r \notin tomb =>
          IF o.seq = 0 THEN Saved(r).averagesEOF /\ o.batch \notin ToSet(file[r])
          ELSE AfterDrain(r) \/ FromFile(r, o)

(* The rows in the result, and those on their way from the filter to it.     *)
Issued == out \cup {Row(home[b], 0, b) : b \in UNION {unconfirmed[r] : r \in Replica}}

(* A row to come is the one that is issued, or new. *)
NextRowOK(r, q, i) ==
  /\ home[q[i].batch] = r /\ q[i].seq > 0
  /\ AfterDrain(r) \/ FromFile(r, q[i])
  /\ \A o \in Issued : IsRow(o) /\ o.batch = q[i].batch => o = q[i]
  /\ \A j \in 1 .. Len(q) : IsRow(q[j]) /\ q[j].batch = q[i].batch => i = j

RowsInv ==
  /\ \A o \in Issued : IsRow(o) => RowOK(o)
  /\ \A r \in Replica : \A i \in 1 .. Len(outbox[r]) : IsRow(outbox[r][i]) => NextRowOK(r, outbox[r], i)
  /\ \A o, p \in Issued : IsRow(o) /\ IsRow(p) /\ o.batch = p.batch => o = p

OnceInv == EndInv /\ (\A r \in Replica : MarksOK(r)) /\ RoundInv /\ ClosedInv /\ CloseInv /\ RowsInv

(* What a handler that has accepted m, with state s and file f, comes to. *)
Forwards(r, m, s, o) ==
  \E x : /\ o.sends = <<x>>
         /\ \/ IsOpen(m) /\ x.type = "eof" /\ o.state.outSeq = s.outSeq
            \/ IsOpen(m) /\ N > 1 /\ x.type = "token" /\ (x.closing => r = 0)
            \/ IsClosing(m) /\ r # 0 /\ ~s.averagesEOF /\ o.state.p2EOF /\ IsClosing(x)

Completes(r, m, s, f, o) ==
  /\ N > 1 => s.p2EOF \/ IsClosing(m)
  /\ \A i \in 1 .. Len(o.sends) :
       /\ o.sends[i].type # "eof"
       /\ o.sends[i].type = "token" => /\ o.sends[i].closing /\ o.sends[i].seq = ClosingAt(r, s.outSeq, f)
                                       /\ r # 0 /\ IsClosing(m) /\ s.averagesEOF

TurnOK(r, m, s, f, o) ==
  /\ o.state.coord = s.coord
  /\ s.p2EOF => o.state.p2EOF
  /\ N > 1 /\ o.state.p2EOF => s.p2EOF \/ IsClosing(m)
  /\ N > 1 /\ m.type = "eof" /\ m.sender # Aggregator => o.end = "forward"
  /\ o.end = "checkpoint" => o.sends = <<>> /\ o.state.outSeq = s.outSeq
  /\ o.end = "forward" => Forwards(r, m, s, o)
  /\ o.end = "complete" => Completes(r, m, s, f, o)

(* The length of a drain does not depend on the rest of the state. *)
LEMMA DrainRows ==
  ASSUME NEW r, NEW s \in State, s.avg, NEW f, s.records = Len(f)
  PROVE  ClosingAt(r, s.outSeq, f) = s.outSeq + Rows(Drain(r, s, f)) + 2
<1>1. PICK n : n = s.outSeq
  OBVIOUS
<1>2. PICK t : t = [Fresh EXCEPT !.avg = TRUE, !.outSeq = n, !.records = Len(f)]
  OBVIOUS
<1>3. t.avg /\ t.outSeq = n /\ t.records = s.records
  BY <1>2 DEF Fresh
<1>4. Drain(r, t, f) = Drain(r, s, f)
  BY <1>1, <1>3 DEF Drain, CountRows, PassingRecords, Passes
<1>5. ClosingAt(r, n, f) = n + Rows(Drain(r, t, f)) + 2
  BY <1>2 DEF ClosingAt
<1> QED
  BY <1>1, <1>4, <1>5

Finalized(r, s, f, sums, o) ==
  /\ o.state.coord = s.coord /\ o.state.p2EOF = s.p2EOF /\ o.end = "complete"
  /\ \A i \in 1 .. Len(o.sends) :
       /\ o.sends[i].type # "eof"
       /\ o.sends[i].type = "token" => /\ o.sends[i].closing /\ o.sends[i].seq = ClosingAt(r, s.outSeq, f)
                                       /\ sums # <<>>

LEMMA FinalizeIs ==
  ASSUME NEW r \in Replica, NEW s \in State, s.avg, NEW f \in Seq(Batch), s.records = Len(f),
         NEW sums \in Seq(Nat), Len(sums) <= 1, NEW o, o = FinalizeAndEmit(r, s, f, sums)
  PROVE  Finalized(r, s, f, sums, o)
<1>1. PICK drain : drain = Drain(r, s, f)
  OBVIOUS
<1>2. PICK n : n = s.outSeq + Rows(drain) + 1
  OBVIOUS
<1>3. PICK v : v = n + Len(sums)
  OBVIOUS
<1>4. PICK eof : eof = OutEOF(r, n, CountRows(s, f))
  OBVIOUS
<1>5. PICK one : one = <<eof>>
  OBVIOUS
<1>6. PICK rest : rest = Forward(r, n, sums, TRUE)
  OBVIOUS
<1>7. PICK q : q = (drain \o one) \o rest
  OBVIOUS
<1>8. PICK t : t = [s EXCEPT !.outSeq = v, !.cached = NoEOF]
  OBVIOUS
<1>9. o = Outcome(t, q, "complete")
  BY <1>1, <1>2, <1>3, <1>4, <1>5, <1>6, <1>7, <1>8 DEF FinalizeAndEmit
<1>10. o.state = t /\ o.sends = q /\ o.end = "complete"
  BY <1>9 DEF Outcome
<1>11. t.coord = s.coord /\ t.p2EOF = s.p2EOF
  BY <1>8 DEF State
<1>12. drain \in Seq(Sendable) /\ OnlyRows(r, drain)
  BY <1>1, DrainOK, DrainIs DEF OnlyRows
<1>13. s.outSeq \in Nat /\ Rows(drain) \in Nat /\ Len(sums) \in Nat
  BY <1>12, RowsIs, LenProperties DEF State
<1>14. n \in Nat /\ ClosingAt(r, s.outSeq, f) = n + 1
  <2>1. ClosingAt(r, s.outSeq, f) = s.outSeq + Rows(drain) + 2
    BY <1>1, DrainRows
  <2> QED
    BY <1>2, <1>13, <2>1
<1>15. eof \in Outputs /\ eof.type = "outeof"
  BY <1>4, <1>14, PassingIs DEF OutEOF, Outputs
<1>16. one \in Seq(Sendable) /\ Len(one) = 1 /\ one[1] = eof
  <2>1. <<eof>>[1] = eof
    OBVIOUS
  <2> QED
    BY <1>5, <1>15, <2>1, OneSent
<1>17. rest \in Seq(Sendable) /\ OnlyClosing(r, rest) /\ (rest # <<>> => sums # <<>>)
  BY <1>6, <1>14, ClosingTokens
<1>18. \A i \in 1 .. Len(rest) : i = 1 /\ rest[i].seq = n + 1
  <2>1. rest = [i \in 1 .. Len(sums) |-> Token(r, n + i, sums[i], TRUE)]
    BY <1>6 DEF Forward
  <2>2. Len(rest) = Len(sums)
    <3>1. PICK S : S = Range(rest)
      OBVIOUS
    <3>2. rest \in [1 .. Len(sums) -> S]
      BY <2>1, <3>1 DEF Range
    <3> QED
      BY <1>13, <3>2, LengthOf
  <2>3. \A i \in 1 .. Len(sums) : rest[i] = Token(r, n + i, sums[i], TRUE)
    BY <2>1
  <2>4. \A k, a : Token(r, k, a, TRUE).seq = k
    BY DEF Token
  <2>5. \A i \in 1 .. Len(sums) : i = 1
    BY <1>13
  <2>6. \A i \in 1 .. Len(sums) : rest[i].seq = n + i
    BY <2>3, <2>4
  <2> QED
    BY <2>2, <2>5, <2>6
<1>19. AreParts(q, drain, one, rest)
  BY <1>7, <1>12, <1>16, <1>17, ConcatThree
<1>20. ASSUME NEW i \in 1 .. Len(q)
       PROVE  /\ q[i].type # "eof"
              /\ q[i].type = "token" => q[i].closing /\ q[i].seq = n + 1 /\ sums # <<>>
  <2>1. PICK k : k = Len(drain)
    OBVIOUS
  <2>2. /\ k \in Nat /\ Len(q) = k + 1 + Len(rest) /\ Len(rest) \in Nat
        /\ \A j \in 1 .. k : q[j] = drain[j]
        /\ q[k + 1] = eof
        /\ i > k + 1 => i - (k + 1) \in 1 .. Len(rest) /\ q[i] = rest[i - (k + 1)]
    BY <1>16, <1>19, <2>1 DEF AreParts
  <2>3. CASE i \in 1 .. k
    <3>1. q[i] = drain[i] /\ ((IsRow(drain[i]) /\ drain[i].sender = r) \/ drain[i] = Removal)
      BY <1>12, <2>1, <2>2, <2>3 DEF OnlyRows
    <3>2. Removal.type = "remove"
      BY DEF Removal
    <3> QED
      BY <3>1, <3>2 DEF IsRow
  <2>4. CASE i = k + 1
    BY <1>15, <2>2, <2>4
  <2>5. CASE i > k + 1
    <3>1. PICK j : j = i - (k + 1)
      OBVIOUS
    <3>2. j \in 1 .. Len(rest) /\ q[i] = rest[j]
      BY <2>2, <2>5, <3>1
    <3>3. rest[j].type = "token" /\ rest[j].closing /\ rest[j].seq = n + 1
      BY <1>17, <1>18, <3>2 DEF OnlyClosing
    <3>4. rest # <<>>
      BY <3>2, EmptySeq
    <3> QED
      BY <1>17, <3>2, <3>3, <3>4
  <2> QED
    BY <1>20, <2>2, <2>3, <2>4, <2>5
<1> QED
  BY <1>10, <1>11, <1>14, <1>20 DEF Finalized

(* A sequence of one element. *)
LEMMA OneElement ==
  ASSUME NEW S, NEW q \in Seq(S), Len(q) = 1
  PROVE  q = <<q[1]>>
  OBVIOUS

LEMMA NotEmpty ==
  ASSUME NEW S, NEW q \in Seq(S), q # <<>>
  PROVE  Len(q) \in Nat /\ Len(q) # 0
  BY EmptySeq

LEMMA TransactionsEndTurn ==
  ASSUME NEW r \in Replica, NEW s \in State, s.averagesEOF => s.avg, NEW f \in Seq(Batch), s.records = Len(f),
         NEW sums \in Seq(Nat), Len(sums) <= 1, NEW m,
         N > 1 => IsClosing(m), sums # <<>> => r # 0 /\ IsClosing(m)
  PROVE  TurnOK(r, m, s, f, TransactionsEnd(r, s, f, sums))
<1> PICK o : o = TransactionsEnd(r, s, f, sums)
  OBVIOUS
<1>1. PICK t : t = [s EXCEPT !.p2EOF = TRUE]
  OBVIOUS
<1>2. /\ t \in State /\ t.outSeq = s.outSeq /\ t.averagesEOF = s.averagesEOF /\ t.coord = s.coord
      /\ t.avg = s.avg /\ t.records = s.records /\ t.p2EOF
  BY <1>1 DEF State
<1>3. N > 1 => m.type = "token"
  BY DEF IsClosing
<1>4. CASE s.averagesEOF
  <2>1. o = FinalizeAndEmit(r, t, f, sums)
    BY <1>1, <1>4 DEF TransactionsEnd
  <2>2. Finalized(r, t, f, sums, o)
    BY <1>2, <1>4, <2>1, FinalizeIs
  <2> QED
    BY <1>2, <1>3, <1>4, <2>2 DEF TurnOK, Completes, Finalized
<1>5. CASE ~s.averagesEOF /\ sums = <<>>
  <2>1. o = Outcome(t, <<>>, "checkpoint")
    BY <1>1, <1>5 DEF TransactionsEnd
  <2>2. N > 1 /\ m.type = "eof" => FALSE
    BY <1>3
  <2> QED
    BY <1>2, <2>1, <2>2 DEF TurnOK, Outcome
<1>6. CASE ~s.averagesEOF /\ sums # <<>>
  <2>1. PICK n : n = t.outSeq
    OBVIOUS
  <2>2. PICK u : u = [t EXCEPT !.outSeq = @ + 1]
    OBVIOUS
  <2>3. PICK q : q = Forward(r, n, sums, TRUE)
    OBVIOUS
  <2>4. o = Outcome(u, q, "forward")
    BY <1>1, <1>6, <2>1, <2>2, <2>3 DEF TransactionsEnd
  <2>5. u.coord = s.coord /\ u.p2EOF
    BY <1>2, <2>2 DEF State
  <2>6. n \in Nat /\ q \in Seq(Sendable) /\ OnlyClosing(r, q)
    <3>1. n \in Nat
      BY <1>2, <2>1 DEF State
    <3> QED
      BY <2>3, <3>1, ClosingTokens
  <2>7. Len(q) = 1
    <3>1. Len(sums) = 1
      <4>1. PICK k : k = Len(sums)
        OBVIOUS
      <4>2. k \in Nat /\ k # 0
        BY <1>6, <4>1, NotEmpty
      <4>3. k <= 1
        BY <4>1
      <4>4. k = 1
        BY <4>2, <4>3
      <4> QED
        BY <4>1, <4>4
    <3>2. q = [i \in 1 .. Len(sums) |-> Token(r, n + i, sums[i], TRUE)]
      BY <2>3 DEF Forward
    <3>3. PICK S : S = Range(q)
      OBVIOUS
    <3>4. q \in [1 .. Len(sums) -> S]
      BY <3>2, <3>3 DEF Range
    <3>5. q \in [1 .. 1 -> S]
      BY <3>1, <3>4
    <3> QED
      BY <3>5, LengthOf
  <2>8. PICK x : x = q[1]
    OBVIOUS
  <2>9. q = <<x>> /\ IsClosing(x)
    BY <2>6, <2>7, <2>8, OneElement DEF OnlyClosing, IsClosing
  <2>10. Forwards(r, m, s, o)
    BY <1>6, <2>4, <2>5, <2>9 DEF Forwards, Outcome
  <2> QED
    BY <1>3, <1>6, <2>4, <2>5, <2>10 DEF TurnOK, Outcome
<1> QED
  BY <1>4, <1>5, <1>6

LEMMA AveragesEndTurn ==
  ASSUME NEW r \in Replica, NEW s \in State, NEW f \in Seq(Batch), s.records = Len(f),
         NEW m, m.type = "eof", m.sender = Aggregator
  PROVE  TurnOK(r, m, s, f, AveragesEnd(r, s, f))
<1> PICK o : o = AveragesEnd(r, s, f)
  OBVIOUS
<1>1. PICK t : t = [s EXCEPT !.averagesEOF = TRUE]
  OBVIOUS
<1>2. /\ t \in State /\ t.outSeq = s.outSeq /\ t.coord = s.coord
      /\ t.avg = s.avg /\ t.records = s.records /\ t.p2EOF = s.p2EOF
  BY <1>1 DEF State
<1>3. CASE ~s.avg \/ s.averagesEOF
  <2>1. o = Outcome(s, <<>>, "checkpoint")
    BY <1>3 DEF AveragesEnd
  <2> QED
    BY <2>1 DEF TurnOK, Outcome
<1>4. CASE s.avg /\ ~s.averagesEOF /\ s.p2EOF
  <2>1. o = FinalizeAndEmit(r, t, f, <<>>)
    BY <1>1, <1>4 DEF AveragesEnd
  <2>2. <<>> \in Seq(Nat) /\ Len(<<>>) <= 1
    OBVIOUS
  <2>3. Finalized(r, t, f, <<>>, o)
    BY <1>2, <1>4, <2>1, <2>2, FinalizeIs
  <2> QED
    BY <1>2, <1>4, <2>3 DEF TurnOK, Completes, Finalized
<1>5. CASE s.avg /\ ~s.averagesEOF /\ ~s.p2EOF
  <2>1. o = Outcome(t, <<>>, "checkpoint")
    BY <1>1, <1>5 DEF AveragesEnd
  <2> QED
    BY <1>2, <2>1 DEF TurnOK, Outcome
<1> QED
  BY <1>3, <1>4, <1>5

(* A handler that passes the round on. *)
LEMMA RoundTurn ==
  ASSUME NEW r, NEW m, NEW s, NEW f, NEW t, t.coord = s.coord, t.p2EOF = s.p2EOF, NEW x, IsOpen(m),
         \/ x.type = "eof" /\ t.outSeq = s.outSeq
         \/ N > 1 /\ x.type = "token" /\ (x.closing => r = 0)
  PROVE  TurnOK(r, m, s, f, Outcome(t, <<x>>, "forward"))
<1> PICK o : o = Outcome(t, <<x>>, "forward")
  OBVIOUS
<1>1. o.state = t /\ o.sends = <<x>> /\ o.end = "forward"
  BY DEF Outcome
<1>2. Forwards(r, m, s, o)
  BY <1>1 DEF Forwards
<1> QED
  BY <1>1, <1>2 DEF TurnOK

(* A state that differs from s in the fields of the round only. *)
LEMMA TurnsFor ==
  ASSUME NEW r, NEW m, NEW s, NEW f, NEW t, NEW o, TurnOK(r, m, t, f, o), t.coord = s.coord, t.p2EOF = s.p2EOF,
         t.outSeq = s.outSeq, t.averagesEOF = s.averagesEOF
  PROVE  TurnOK(r, m, s, f, o)
  BY DEF TurnOK, Forwards, Completes

LEMMA TryFinalizeTurn ==
  ASSUME NEW s \in State, s.averagesEOF => s.avg, NEW f \in Seq(Batch), s.records = Len(f), NEW agg, NEW m, IsOpen(m)
  PROVE  TurnOK(0, m, s, f, TryFinalize(s, f, agg))
<1>1. CASE agg # Total
  <2>1. PICK u : u = [s EXCEPT !.initiator = FALSE, !.cached = NoEOF]
    OBVIOUS
  <2>2. PICK x : x = Retry(s)
    OBVIOUS
  <2>3. TryFinalize(s, f, agg) = Outcome(u, <<x>>, "forward")
    BY <1>1, <2>1, <2>2 DEF TryFinalize
  <2>4. u.coord = s.coord /\ u.p2EOF = s.p2EOF /\ u.outSeq = s.outSeq
    BY <2>1 DEF State
  <2>5. x.type = "eof"
    BY <2>2 DEF Retry, EOFMsg
  <2> QED
    BY <2>3, <2>4, <2>5, RoundTurn
<1>2. CASE agg = Total /\ N > 1
  <2>1. PICK u : u = [s EXCEPT !.outSeq = @ + 1]
    OBVIOUS
  <2>2. PICK x : x = Token(0, s.outSeq + 1, agg, TRUE)
    OBVIOUS
  <2>3. TryFinalize(s, f, agg) = Outcome(u, <<x>>, "forward")
    BY <1>2, <2>1, <2>2 DEF TryFinalize
  <2>4. u.coord = s.coord /\ u.p2EOF = s.p2EOF
    BY <2>1 DEF State
  <2>5. x.type = "token"
    BY <2>2 DEF Token
  <2> QED
    BY <1>2, <2>3, <2>4, <2>5, RoundTurn
<1>3. CASE agg = Total /\ ~(N > 1)
  <2>1. PICK u : u = [s EXCEPT !.initiator = FALSE]
    OBVIOUS
  <2>2. TryFinalize(s, f, agg) = TransactionsEnd(0, u, f, <<>>)
    BY <1>3, <2>1 DEF TryFinalize
  <2>3. u \in State /\ u.outSeq = s.outSeq /\ u.averagesEOF = s.averagesEOF /\ u.coord = s.coord
        /\ u.avg = s.avg /\ u.records = s.records /\ u.p2EOF = s.p2EOF
    BY <2>1 DEF State
  <2>4. <<>> \in Seq(Nat) /\ Len(<<>>) <= 1
    OBVIOUS
  <2>5. TurnOK(0, m, u, f, TransactionsEnd(0, u, f, <<>>))
    BY <1>3, <2>3, <2>4, FirstReplica, TransactionsEndTurn
  <2> QED
    BY <2>2, <2>3, <2>5, TurnsFor
<1> QED
  BY <1>1, <1>2, <1>3

LEMMA TransactionsEOFTurn ==
  ASSUME NEW s \in State, s.averagesEOF => s.avg, NEW f \in Seq(Batch), s.records = Len(f),
         NEW m, m.type = "eof", m.sender # Aggregator
  PROVE  TurnOK(0, m, s, f, TransactionsEOF(s, f))
<1>1. PICK t : t = [s EXCEPT !.initiator = TRUE]
  OBVIOUS
<1>2. /\ t \in State /\ t.outSeq = s.outSeq /\ t.averagesEOF = s.averagesEOF
      /\ t.avg = s.avg /\ t.records = s.records /\ t.p2EOF = s.p2EOF /\ t.coord = s.coord
  BY <1>1 DEF State
<1>3. IsOpen(m)
  BY DEF IsOpen
<1>4. CASE N = 1
  <2>1. TransactionsEOF(s, f) = TryFinalize(t, f, s.p2Seen)
    BY <1>1, <1>4 DEF TransactionsEOF
  <2> QED
    BY <1>2, <1>3, <2>1, TryFinalizeTurn, TurnsFor
<1>5. CASE N # 1
  <2>1. PICK x : x = Token(0, s.outSeq + 1, s.p2Seen, FALSE)
    OBVIOUS
  <2>2. PICK u : u = [t EXCEPT !.outSeq = @ + 1]
    OBVIOUS
  <2>3. TransactionsEOF(s, f) = Outcome(u, <<x>>, "forward")
    BY <1>1, <1>5, <2>1, <2>2 DEF TransactionsEOF
  <2>4. u.coord = s.coord /\ u.p2EOF = s.p2EOF /\ x.type = "token" /\ ~x.closing
    BY <1>2, <2>1, <2>2 DEF State, Token
  <2>5. N > 1
    BY <1>5, ConstantsAssumption
  <2> QED
    BY <1>3, <2>3, <2>4, <2>5, RoundTurn
<1> QED
  BY <1>4, <1>5

LEMMA RingTokenTurn ==
  ASSUME NEW r \in Replica, NEW s \in State, s.averagesEOF => s.avg, NEW f \in Seq(Batch), s.records = Len(f),
         NEW m \in Tokens
  PROVE  TurnOK(r, m, s, f, RingToken(r, s, f, m))
<1>1. m.agg \in Nat /\ m.type = "token" /\ (m.closing <=> IsClosing(m)) /\ (~m.closing <=> IsOpen(m))
  BY DEF Tokens, IsClosing, IsOpen
<1>2. <<>> \in Seq(Nat) /\ Len(<<>>) <= 1 /\ <<m.agg>> \in Seq(Nat) /\ Len(<<m.agg>>) <= 1
  BY <1>1
<1>3. CASE r = 0 /\ m.closing
  <2>1. PICK u : u = [s EXCEPT !.initiator = FALSE]
    OBVIOUS
  <2>2. RingToken(r, s, f, m) = TransactionsEnd(r, u, f, <<>>)
    BY <1>3, <2>1 DEF RingToken
  <2>3. u \in State /\ u.outSeq = s.outSeq /\ u.averagesEOF = s.averagesEOF /\ u.coord = s.coord
        /\ u.avg = s.avg /\ u.records = s.records /\ u.p2EOF = s.p2EOF
    BY <2>1 DEF State
  <2>4. TurnOK(r, m, u, f, TransactionsEnd(r, u, f, <<>>))
    BY <1>1, <1>2, <1>3, <2>3, TransactionsEndTurn
  <2> QED
    BY <2>2, <2>3, <2>4, TurnsFor
<1>4. CASE r = 0 /\ ~m.closing /\ s.initiator
  <2>1. RingToken(r, s, f, m) = TryFinalize(s, f, m.agg)
    BY <1>4 DEF RingToken
  <2> QED
    BY <1>1, <1>4, <2>1, TryFinalizeTurn
<1>5. CASE r = 0 /\ ~m.closing /\ ~s.initiator
  <2>1. RingToken(r, s, f, m) = Outcome(s, <<>>, "checkpoint")
    BY <1>5 DEF RingToken
  <2> QED
    BY <1>1, <2>1 DEF TurnOK, Outcome
<1>6. CASE r # 0 /\ m.closing
  <2>1. RingToken(r, s, f, m) = TransactionsEnd(r, s, f, <<m.agg>>)
    BY <1>6 DEF RingToken
  <2> QED
    BY <1>1, <1>2, <1>6, <2>1, TransactionsEndTurn
<1>7. CASE r # 0 /\ ~m.closing
  <2>1. PICK x : x = Token(r, s.outSeq + 1, m.agg + s.p2Seen, FALSE)
    OBVIOUS
  <2>2. PICK u : u = [s EXCEPT !.outSeq = @ + 1]
    OBVIOUS
  <2>3. RingToken(r, s, f, m) = Outcome(u, <<x>>, "forward")
    BY <1>7, <2>1, <2>2 DEF RingToken
  <2>4. u.coord = s.coord /\ u.p2EOF = s.p2EOF /\ x.type = "token" /\ ~x.closing
    BY <2>1, <2>2 DEF State, Token
  <2>5. N > 1
    BY <1>7, ConstantsAssumption DEF Replica
  <2> QED
    BY <1>1, <1>7, <2>3, <2>4, <2>5, RoundTurn
<1> QED
  BY <1>3, <1>4, <1>5, <1>6, <1>7

-----------------------------------------------------------------------------
(* What a step leaves alone *)

LEMMA SuccessorIs ==
  ASSUME NEW r \in Replica
  PROVE  Successor(r) = (IF r = N - 1 THEN 0 ELSE r + 1) /\ Successor(r) \in Replica
<1>1. r \in 0 .. N - 1 /\ N \in Nat \ {0}
  BY ConstantsAssumption DEF Replica
<1>2. CASE r = N - 1
  BY <1>1, <1>2 DEF Successor, Replica
<1>3. CASE r # N - 1
  BY <1>1, <1>3 DEF Successor, Replica
<1> QED
  BY <1>2, <1>3

LEMMA OnePredecessor ==
  ASSUME NEW p \in Replica, NEW q \in Replica, Successor(p) = Successor(q)
  PROVE  p = q
<1>1. p \in Int /\ q \in Int /\ 0 <= p /\ 0 <= q
  BY DEF Replica
<1>2. (IF p = N - 1 THEN 0 ELSE p + 1) = (IF q = N - 1 THEN 0 ELSE q + 1)
  BY SuccessorIs
<1>3. PICK n : n = N - 1
  OBVIOUS
<1>4. (IF p = n THEN 0 ELSE p + 1) = (IF q = n THEN 0 ELSE q + 1)
  BY <1>2, <1>3
<1> QED
  BY <1>1, <1>4

(* Where the drains of a replica begin, and what they read. *)
Steady(s) ==
  s \notin tomb' =>
    /\ s \notin tomb
    /\ AfterDrain(s) => AfterDrain(s)'
    /\ Saved(s).p2EOF => Saved(s)'.p2EOF
    /\ Saved(s).averagesEOF => Saved(s)'.averagesEOF
    /\ Saved(s).averagesEOF \/ Drained(s) # {} \/ phase[s] = "complete" =>
         file'[s] = file[s] \/ (AfterDrain(s)' /\ file'[s] = <<>>)
    /\ Drained(s) # {} \/ phase[s] = "complete" \/ (N > 1 /\ Ending /\ ~Saved(s)'.p2EOF) =>
         Saved(s)'.outSeq = Saved(s).outSeq

(* No message of a round is new. *)
Calm(s) ==
  N > 1 => /\ \A m \in Waiting(s)' : m \in Waiting(s)
           /\ \A i \in Sending(s)' : i \in Sending(s)
           /\ Ends(s)' => Ends(s)

(* No closing token is new. *)
Marked(s, t) == \/ mem[s].p2EOF /\ t.coord = mem[s].coord
                \/ Saved(s).p2EOF /\ t.coord = Saved(s).coord
Closes(s) ==
  /\ \A m \in Coming(s)' : IsClosing(m) => m \in Coming(s)
  /\ \A i \in 1 .. Len(outbox'[s]) : IsClosing(outbox'[s][i]) =>
       \E j \in 1 .. Len(outbox[s]) : outbox[s][j] = outbox'[s][i]
  /\ s \notin tomb' => /\ s \notin tomb
                       /\ mem'[s].p2EOF => Marked(s, mem'[s])
                       /\ Saved(s)'.p2EOF => Marked(s, Saved(s)')

Quiet(s) == Calm(s) /\ Steady(s) /\ Closes(s) /\ MarksOK(s)'

LEMMA CalmRounds ==
  ASSUME RoundInv, ClosedInv, \A s \in Replica : Calm(s)
  PROVE  RoundInv' /\ ClosedInv'
<1>1. RoundInv'
  BY DEF RoundInv, Calm
<1>2. N > 1 /\ Ending' => Ending
  BY DEF Ending, Calm
<1>3. ClosedInv'
  <2> SUFFICES ASSUME N > 1, Ending', NEW r \in Replica PROVE (Waiting(r) = {} /\ Sending(r) = {})'
    BY DEF ClosedInv
  <2>1. Waiting(r) = {} /\ Sending(r) = {}
    BY <1>2 DEF ClosedInv
  <2>2. \A m : m \notin Waiting(r)'
    BY <2>1 DEF Calm
  <2>3. \A i : i \notin Sending(r)'
    BY <2>1 DEF Calm
  <2> QED
    BY <2>2, <2>3
<1> QED
  BY <1>1, <1>3

LEMMA ClosedKept ==
  ASSUME NEW q \in Replica, NEW a, Closes(q), Closes(Successor(q)), ClosedAs(q, a)'
  PROVE  ClosedAs(q, a)
<1>1. PICK s : s = Successor(q)
  OBVIOUS
<1>2. Closes(s)
  BY <1>1
<1>3. CASE \E m \in Coming(s)' : IsClosing(m) /\ m.sender = q /\ m.seq = a
  BY <1>1, <1>2, <1>3 DEF ClosedAs, Closes
<1>4. CASE \E i \in 1 .. Len(outbox'[q]) : IsClosing(outbox'[q][i]) /\ outbox'[q][i].seq = a
  <2>1. PICK i \in 1 .. Len(outbox'[q]) : IsClosing(outbox'[q][i]) /\ outbox'[q][i].seq = a
    BY <1>4
  <2>2. PICK j \in 1 .. Len(outbox[q]) : outbox[q][j] = outbox'[q][i]
    BY <2>1 DEF Closes
  <2>3. IsClosing(outbox[q][j]) /\ outbox[q][j].seq = a
    BY <2>1, <2>2
  <2> QED
    BY <2>3 DEF ClosedAs
<1>5. CASE s \notin tomb' /\ mem'[s].p2EOF /\ mem'[s].coord[q] = a
  BY <1>1, <1>2, <1>5 DEF ClosedAs, Closes, Marked
<1>6. CASE s \notin tomb' /\ Saved(s)'.p2EOF /\ Saved(s)'.coord[q] = a
  <2>1. PICK t : t = Saved(s)'
    OBVIOUS
  <2>2. s \notin tomb /\ Marked(s, t) /\ t.coord[q] = a
    BY <1>2, <1>6, <2>1 DEF Closes
  <2> QED
    BY <1>1, <2>2 DEF ClosedAs, Marked
<1>7. \/ \E m \in Coming(s)' : IsClosing(m) /\ m.sender = q /\ m.seq = a
      \/ \E i \in 1 .. Len(outbox'[q]) : IsClosing(outbox'[q][i]) /\ outbox'[q][i].seq = a
      \/ s \notin tomb' /\ mem'[s].p2EOF /\ mem'[s].coord[q] = a
      \/ s \notin tomb' /\ Saved(s)'.p2EOF /\ Saved(s)'.coord[q] = a
  BY <1>1 DEF ClosedAs
<1> QED
  BY <1>3, <1>4, <1>5, <1>6, <1>7

LEMMA ClosedEnds ==
  ASSUME \A r \in Replica : MarksOK(r), NEW q \in Replica, NEW a, ClosedAs(q, a)
  PROVE  Ending
<1>1. PICK s : s = Successor(q)
  OBVIOUS
<1>2. s \in Replica
  BY <1>1, SuccessorIs
<1>3. Ends(s) \/ Ends(q)
  BY <1>1, <1>2 DEF ClosedAs, Ends, MarksOK
<1> QED
  BY <1>2, <1>3 DEF Ending

LEMMA AgainStays ==
  ASSUME \A r \in Replica : MarksOK(r), N > 1, NEW q \in Replica, NEW a, ClosedAs(q, a), AgainOK(q, a), Steady(q)
  PROVE  AgainOK(q, a)'
<1>1. Ending
  BY ClosedEnds
<1>2. CASE q = 0 \/ q \in tomb'
  BY <1>2 DEF AgainOK
<1>3. CASE q # 0 /\ q \notin tomb'
  <2>1. CASE Saved(q).p2EOF \/ AfterDrain(q) \/ Saved(q)'.p2EOF
    BY <1>3, <2>1 DEF Steady, AgainOK
  <2>2. CASE ~(Saved(q).p2EOF \/ AfterDrain(q) \/ Saved(q)'.p2EOF)
    <3>1. Saved(q).averagesEOF /\ a = ClosingAt(q, Saved(q).outSeq, file[q])
      BY <1>3, <2>2 DEF AgainOK, Steady
    <3>2. Saved(q)'.averagesEOF /\ Saved(q)'.outSeq = Saved(q).outSeq /\ (file'[q] = file[q] \/ AfterDrain(q)')
      BY <1>1, <1>3, <2>2, <3>1 DEF Steady
    <3>3. PICK n : n = Saved(q).outSeq
      OBVIOUS
    <3>4. PICK f : f = file[q]
      OBVIOUS
    <3>5. a = ClosingAt(q, n, f)
      BY <3>1, <3>3, <3>4
    <3>6. CASE file'[q] = f
      <4>1. a = ClosingAt(q, Saved(q)'.outSeq, file'[q])
        BY <3>2, <3>3, <3>5, <3>6
      <4>2. ClosingAt(q, Saved(q).outSeq, file[q])' = ClosingAt(q, Saved(q)'.outSeq, file'[q])
        BY DEF ClosingAt, Rows, Drain, CountRows, PassingRecords, Passes
      <4> QED
        BY <3>2, <4>1, <4>2 DEF AgainOK
    <3> QED
      BY <3>2, <3>4, <3>6 DEF AgainOK
  <2> QED
    BY <2>1, <2>2
<1> QED
  BY <1>2, <1>3

LEMMA CloseStays ==
  ASSUME \A r \in Replica : MarksOK(r), CloseInv, \A s \in Replica : Steady(s) /\ Closes(s)
  PROVE  CloseInv'
<1> SUFFICES ASSUME N > 1, NEW q \in Replica
             PROVE  /\ \A a, b : ClosedAs(q, a)' /\ ClosedAs(q, b)' => a = b
                    /\ \A a : ClosedAs(q, a)' => AgainOK(q, a)'
  BY DEF CloseInv
<1>1. \A a : ClosedAs(q, a)' => ClosedAs(q, a)
  BY SuccessorIs, ClosedKept
<1>2. ASSUME NEW a, ClosedAs(q, a)' PROVE AgainOK(q, a)'
  <2>1. ClosedAs(q, a) /\ AgainOK(q, a)
    BY <1>1, <1>2 DEF CloseInv
  <2> QED
    BY <2>1, AgainStays
<1> QED
  BY <1>1, <1>2 DEF CloseInv

LEMMA FromFileStays ==
  ASSUME NEW r, NEW o, FromFile(r, o), file'[r] = file[r], Saved(r)'.outSeq = Saved(r).outSeq
  PROVE  FromFile(r, o)'
<1>1. PICK i \in 1 .. Count(file[r]) : o = Row(r, Saved(r).outSeq + i, RowAt(file[r], i))
  BY DEF FromFile
<1>2. Count(file[r])' = Count(file[r]) /\ RowAt(file[r], i)' = RowAt(file[r], i)
  BY DEF Count, Wanted, RowAt, Nth
<1>3. (Saved(r).outSeq)' = Saved(r).outSeq
  OBVIOUS
<1>4. Row(r, Saved(r).outSeq + i, RowAt(file[r], i))' = Row(r, Saved(r).outSeq + i, RowAt(file[r], i))
  BY <1>2, <1>3 DEF Row
<1> QED
  BY <1>1, <1>2, <1>4 DEF FromFile

LEMMA IssuedStays == UNCHANGED <<out, unconfirmed>> => Issued' = Issued
  BY DEF Issued

LEMMA RowsAre ==
  ASSUME TypeOK, NEW o \in Issued, IsRow(o)
  PROVE  /\ o.seq \in Nat /\ o.batch \in Batch /\ o.sender \in Replica /\ home[o.batch] \in Replica
         /\ o.seq # 0 => o \in out
<1>1. CASE o \in out
  BY <1>1, ConstantsAssumption DEF TypeOK, IsRow, Outputs
<1>2. CASE o \notin out
  <2>1. PICK b \in Batch : o = Row(home[b], 0, b)
    BY <1>2 DEF Issued, TypeOK
  <2> QED
    BY <2>1, ConstantsAssumption DEF Row
<1> QED
  BY <1>1, <1>2

LEMMA RowsIssued ==
  ASSUME TypeOK
  PROVE  Issued \subseteq Outputs
<1>1. \A b \in Batch : Row(home[b], 0, b) \in Outputs
  BY ConstantsAssumption DEF Row, Outputs
<1> QED
  BY <1>1 DEF Issued, TypeOK

LEMMA RowStays ==
  ASSUME TypeOK, NEW o \in Issued, IsRow(o), RowOK(o), \A s \in Replica : Steady(s)
  PROVE  RowOK(o)'
<1>1. PICK r : r = home[o.batch]
  OBVIOUS
<1>2. r \in Replica /\ o.seq \in Nat /\ o.sender = r
  BY <1>1, RowsAre DEF RowOK
<1> SUFFICES ASSUME r \notin tomb'
             PROVE  IF o.seq = 0 THEN Saved(r)'.averagesEOF /\ o.batch \notin ToSet(file'[r])
                                 ELSE AfterDrain(r)' \/ FromFile(r, o)'
  <2>1. ToSet(file[r])' = ToSet(file'[r])
    BY DEF ToSet
  <2> QED
    BY <1>1, <1>2, <2>1 DEF RowOK
<1>3. r \notin tomb /\ Steady(r)
  BY <1>2 DEF Steady
<1>4. CASE o.seq = 0
  <2>1. Saved(r).averagesEOF /\ o.batch \notin ToSet(file[r])
    BY <1>1, <1>3, <1>4 DEF RowOK
  <2>2. o.batch \notin ToSet(<<>>)
    BY DEF ToSet
  <2> QED
    BY <1>3, <1>4, <2>1, <2>2 DEF Steady
<1>5. CASE o.seq # 0
  <2>1. o \in Drained(r)
    <3>1. o \in out
      BY <1>5, RowsAre
    <3> QED
      BY <1>2, <1>5, <3>1 DEF Drained
  <2>2. AfterDrain(r) \/ FromFile(r, o)
    BY <1>1, <1>3, <1>5 DEF RowOK
  <2>3. /\ file'[r] = file[r] \/ AfterDrain(r)'
        /\ Saved(r)'.outSeq = Saved(r).outSeq
        /\ AfterDrain(r) => AfterDrain(r)'
    BY <1>3, <2>1 DEF Steady
  <2> QED
    BY <1>5, <2>2, <2>3, FromFileStays
<1> QED
  BY <1>4, <1>5

(* A row to come that stays to come. *)
LEMMA NextStays ==
  ASSUME NEW r \in Replica, NEW q, NEW i, NextRowOK(r, q, i), Steady(r), r \notin tomb', phase[r] = "complete",
         \A o \in Issued' \ Issued : IsRow(o) => o.batch # q[i].batch
  PROVE  NextRowOK(r, q, i)'
<1>1. /\ file'[r] = file[r] \/ AfterDrain(r)'
      /\ Saved(r)'.outSeq = Saved(r).outSeq
      /\ AfterDrain(r) => AfterDrain(r)'
  BY DEF Steady
<1>2. AfterDrain(r)' \/ FromFile(r, q[i])'
  <2>1. AfterDrain(r) \/ FromFile(r, q[i])
    BY DEF NextRowOK
  <2>2. PICK x : x = q[i]
    OBVIOUS
  <2>3. FromFile(r, x) => AfterDrain(r)' \/ FromFile(r, x)'
    BY <1>1, FromFileStays
  <2> QED
    BY <1>1, <2>1, <2>2, <2>3
<1> QED
  BY <1>2 DEF NextRowOK

LEMMA RowsStay ==
  ASSUME EndInv, RowsInv, \A s \in Replica : Steady(s), Issued' \subseteq Issued,
         \A s \in Replica : \/ outbox'[s] = outbox[s] /\ (s \in tomb' <=> s \in tomb)
                            \/ \A i \in 1 .. Len(outbox'[s]) : ~IsRow(outbox'[s][i])
  PROVE  RowsInv'
<1>1. IndInv /\ TypeOK
  BY DEF EndInv, IndInv
<1>2. \A o \in Issued' : IsRow(o) => RowOK(o)'
  BY <1>1, RowStays DEF RowsInv
<1>3. ASSUME NEW r \in Replica, NEW i \in 1 .. Len(outbox'[r]), IsRow(outbox'[r][i])
      PROVE  NextRowOK(r, outbox[r], i)'
  <2>1. PICK q : q = outbox[r]
    OBVIOUS
  <2>2. outbox'[r] = q /\ (r \in tomb' <=> r \in tomb)
    BY <1>3, <2>1
  <2>3. NextRowOK(r, q, i)
    BY <1>3, <2>1, <2>2 DEF RowsInv
  <2>4. phase[r] = "complete"
    BY <1>3, <2>1, <2>2 DEF EndInv, SendsOK, SendOK
  <2>5. r \notin tomb
    BY <1>1, <2>4, FieldsAre DEF ReplicaOK
  <2>6. NextRowOK(r, q, i)'
    BY <2>2, <2>3, <2>4, <2>5, NextStays
  <2>7. NextRowOK(r, outbox[r], i)' <=> NextRowOK(r, q, i)'
    BY <2>2 DEF NextRowOK
  <2> QED
    BY <2>6, <2>7
<1>4. \A o, p \in Issued' : IsRow(o) /\ IsRow(p) /\ o.batch = p.batch => o = p
  BY DEF RowsInv
<1> QED
  BY <1>2, <1>3, <1>4 DEF RowsInv

-----------------------------------------------------------------------------
(* Steps that give no number *)

LEMMA QuietIf ==
  ASSUME NEW s \in Replica, MarksOK(s), Saved(s)' = Saved(s), AfterDrain(s) => AfterDrain(s)',
         mem'[s].coord = mem[s].coord, mem'[s].p2EOF = mem[s].p2EOF, mem'[s].outSeq = mem[s].outSeq,
         outbox'[s] = outbox[s], phase'[s] = phase[s], s \in tomb' <=> s \in tomb, Drained(s)' = Drained(s),
         Saved(s).averagesEOF \/ Drained(s) # {} \/ phase[s] = "complete" => file'[s] = file[s],
         \A m \in Coming(s)' : \/ m \in Coming(s)
                               \/ ~IsClosing(m) /\ (N > 1 /\ IsOpen(m) => s \in tomb \/ ~(m.seq > Saved(s).coord[m.sender])),
         s \notin tomb /\ mem[s].coord[Transactions] = 0 /\ EOFMsg(Transactions, 1) \in inbox[s] =>
           EOFMsg(Transactions, 1) \in inbox'[s]
  PROVE  Quiet(s)
<1>1. Steady(s)
  BY DEF Steady
<1>2. Closes(s)
  BY DEF Closes, Marked
<1>3. Calm(s)
  <2>1. ASSUME N > 1, NEW m \in Waiting(s)' PROVE m \in Waiting(s)
    <3>1. m \in Coming(s)' /\ IsOpen(m) /\ s \notin tomb /\ m.seq > Saved(s).coord[m.sender]
      BY <2>1 DEF Waiting
    <3> QED
      BY <2>1, <3>1 DEF Waiting
  <2>2. \A i \in Sending(s)' : i \in Sending(s)
    BY DEF Sending
  <2>3. Ends(s)' => Ends(s)
    BY DEF Ends
  <2> QED
    BY <2>1, <2>2, <2>3 DEF Calm
<1>4. MarksOK(s)'
  BY DEF MarksOK
<1> QED
  BY <1>1, <1>2, <1>3, <1>4 DEF Quiet

(* What a step that gives no number has to show. *)
LEMMA QuietSteps ==
  ASSUME OnceInv, EndInv', RowsInv', \A s \in Replica : Quiet(s)
  PROVE  OnceInv'
<1>1. RoundInv' /\ ClosedInv'
  BY CalmRounds DEF OnceInv, Quiet
<1>2. CloseInv'
  BY CloseStays DEF OnceInv, Quiet
<1> QED
  BY <1>1, <1>2 DEF OnceInv, Quiet

LEMMA DiscardOnce ==
  ASSUME OnceInv, NEW r \in Replica, NEW m, Discard(r, m)
  PROVE  OnceInv'
<1>1. EndInv /\ EndInv' /\ IndInv /\ TypeOK
  BY DiscardEnd DEF OnceInv, EndInv, IndInv
<1>2. /\ \A q \in Replica : inbox'[q] = IF q = r THEN inbox[q] \ {m} ELSE inbox[q]
      /\ UNCHANGED <<pending, mem, disk, file, tomb, unconfirmed, outbox, phase, out>>
  BY <1>1 DEF Discard, TypeOK
<1>3. m = EOFMsg(Transactions, 1) => r \in tomb \/ 1 <= mem[r].coord[Transactions]
  BY DEF Discard, Discarded, EOFMsg
<1>4. ASSUME NEW s \in Replica PROVE Quiet(s)
  <2>1. MarksOK(s)
    BY DEF OnceInv
  <2>2. Saved(s)' = Saved(s) /\ Drained(s)' = Drained(s) /\ (AfterDrain(s) => AfterDrain(s)')
    BY <1>2 DEF Saved, Drained, AfterDrain
  <2>3. \A n \in Coming(s)' : n \in Coming(s)
    BY <1>2 DEF Coming
  <2>4. s \notin tomb /\ mem[s].coord[Transactions] = 0 /\ EOFMsg(Transactions, 1) \in inbox[s] =>
          EOFMsg(Transactions, 1) \in inbox'[s]
    <3>1. PICK e : e = EOFMsg(Transactions, 1)
      OBVIOUS
    <3>2. ~(1 <= 0)
      OBVIOUS
    <3>3. s \notin tomb /\ mem[s].coord[Transactions] = 0 /\ e \in inbox[s] => e \in inbox'[s]
      BY <1>2, <1>3, <3>1, <3>2
    <3> QED
      BY <3>1, <3>3
  <2> QED
    BY <1>2, <2>1, <2>2, <2>3, <2>4, QuietIf
<1>5. RowsInv'
  BY <1>1, <1>2, <1>4, IssuedStays, RowsStay DEF OnceInv, Quiet
<1> QED
  BY <1>1, <1>4, <1>5, QuietSteps

LEMMA RedeliverOnce ==
  ASSUME OnceInv, NEW r \in Replica, NEW m, Redeliver(r, m)
  PROVE  OnceInv'
<1>1. EndInv /\ EndInv' /\ IndInv /\ TypeOK
  BY RedeliverEnd DEF OnceInv, EndInv, IndInv
<1>2. /\ \A q \in Replica : inbox'[q] = IF q = r THEN inbox[q] \cup {m} ELSE inbox[q]
      /\ UNCHANGED <<pending, mem, disk, file, tomb, unconfirmed, outbox, phase, out>>
  BY <1>1 DEF Redeliver, TypeOK
<1>3. ~IsClosing(m) /\ (IsOpen(m) => r = 0 /\ m = EOFMsg(Transactions, 1))
  <2>1. \/ \E b \in Batch : m = BatchMsg(b)
        \/ m = Averages \/ m = EOFMsg(Aggregator, 1)
        \/ r = 0 /\ m = EOFMsg(Transactions, 1)
    BY DEF Redeliver, Arriving
  <2>2. \A b : BatchMsg(b).type = "batch"
    BY DEF BatchMsg
  <2>3. /\ Averages.type = "averages" /\ EOFMsg(Aggregator, 1).type = "eof" /\ EOFMsg(Aggregator, 1).sender = Aggregator
        /\ EOFMsg(Transactions, 1).type = "eof"
    BY DEF Averages, EOFMsg
  <2>4. /\ (\E b \in Batch : m = BatchMsg(b)) => m.type = "batch"
        /\ m = Averages => m.type = "averages"
        /\ m = EOFMsg(Aggregator, 1) => m.type = "eof" /\ m.sender = Aggregator
        /\ m = EOFMsg(Transactions, 1) => m.type = "eof"
    BY <2>2, <2>3
  <2>5. ~IsClosing(m)
    BY <2>1, <2>4 DEF IsClosing
  <2>6. IsOpen(m) => m.type # "batch" /\ m.type # "averages" /\ (m.type = "eof" => m.sender # Aggregator)
    BY DEF IsOpen
  <2> QED
    BY <2>1, <2>4, <2>5, <2>6
<1>4. m \notin inbox[r]
  BY DEF Redeliver
<1>5. N > 1 /\ IsOpen(m) => r \in tomb \/ ~(m.seq > Saved(r).coord[m.sender])
  <2> SUFFICES ASSUME N > 1, IsOpen(m), r \notin tomb PROVE ~(m.seq > Saved(r).coord[m.sender])
    OBVIOUS
  <2>1. r = 0 /\ m = EOFMsg(Transactions, 1) /\ m.seq = 1 /\ m.sender = Transactions
    BY <1>3 DEF EOFMsg
  <2>2. mem[r].coord[Transactions] # 0 /\ Saved(r).coord[Transactions] = mem[r].coord[Transactions]
    BY <1>4, <2>1 DEF OnceInv, MarksOK
  <2>3. mem[r].coord[Transactions] \in Nat
    <3>1. mem[r] \in State
      BY <1>1, FieldsAre
    <3>2. Transactions \in Sender
      BY ConstantsAssumption DEF Transactions, Sender
    <3> QED
      BY <3>1, <3>2 DEF State
  <2> QED
    BY <2>1, <2>2, <2>3
<1>6. ASSUME NEW s \in Replica PROVE Quiet(s)
  <2>1. MarksOK(s)
    BY DEF OnceInv
  <2>2. Saved(s)' = Saved(s) /\ Drained(s)' = Drained(s) /\ (AfterDrain(s) => AfterDrain(s)')
    BY <1>2 DEF Saved, Drained, AfterDrain
  <2>3. \A n \in Coming(s)' : \/ n \in Coming(s)
                              \/ ~IsClosing(n) /\ (N > 1 /\ IsOpen(n) => s \in tomb \/ ~(n.seq > Saved(s).coord[n.sender]))
    <3>1. \A n \in Coming(s)' : n \in Coming(s) \/ (n = m /\ s = r)
      BY <1>2 DEF Coming
    <3> QED
      BY <1>3, <1>5, <3>1
  <2>4. EOFMsg(Transactions, 1) \in inbox[s] => EOFMsg(Transactions, 1) \in inbox'[s]
    BY <1>2
  <2> QED
    BY <1>2, <2>1, <2>2, <2>3, <2>4, QuietIf
<1>7. RowsInv'
  BY <1>1, <1>2, <1>6, IssuedStays, RowsStay DEF OnceInv, Quiet
<1> QED
  BY <1>1, <1>6, <1>7, QuietSteps

LEMMA BatchQuiet ==
  ASSUME OnceInv, NEW r \in Replica, NEW m, NEW type, type \notin {"eof", "token"}, Accept(r, m, type),
         NEW t, mem' = [mem EXCEPT ![r] = t],
         t.coord = mem[r].coord, t.p2EOF = mem[r].p2EOF, t.outSeq = mem[r].outSeq,
         UNCHANGED <<outbox, phase>>, \A s \in Replica : Drained(s)' = Drained(s),
         \A s \in Replica \ {r} : file'[s] = file[s],
         disk[r].state.averagesEOF \/ Drained(r) # {} => file'[r] = file[r]
  PROVE  \A s \in Replica : Quiet(s)
<1>1. EndInv /\ IndInv /\ TypeOK /\ \A s \in Replica : MarksOK(s)
  BY DEF OnceInv, EndInv, IndInv
<1>2. /\ phase[r] = "idle" /\ ~AfterDrain(r) /\ m.type = type
      /\ inbox'[r] \cup pending'[r] = inbox[r] \cup pending[r]
      /\ \A q \in Replica \ {r} : inbox'[q] = inbox[q] /\ pending'[q] = pending[q]
      /\ tomb' = tomb /\ disk' = disk
  BY <1>1, AcceptEnd
<1>3. inbox'[r] = inbox[r] \ {m}
  BY <1>1 DEF Accept, TypeOK
<1>4. mem'[r] = t /\ \A s \in Replica \ {r} : mem'[s] = mem[s]
  BY <1>1 DEF TypeOK
<1>5. ASSUME NEW s \in Replica PROVE Quiet(s)
  <2>1. MarksOK(s)
    BY <1>1
  <2>2. \A n \in Coming(s)' : n \in Coming(s)
    BY <1>2 DEF Coming
  <2>3. EOFMsg(Transactions, 1) \in inbox[s] => EOFMsg(Transactions, 1) \in inbox'[s]
    <3>1. PICK e : e = EOFMsg(Transactions, 1)
      OBVIOUS
    <3>2. e.type = "eof"
      BY <3>1 DEF EOFMsg
    <3>3. e \in inbox[s] => e \in inbox'[s]
      BY <1>2, <1>3, <3>2
    <3> QED
      BY <3>1, <3>3
  <2>4. Saved(s)' = Saved(s)
    BY <1>2, <1>4 DEF Saved
  <2>5. AfterDrain(s) => AfterDrain(s)'
    BY <1>2, <1>4 DEF AfterDrain
  <2>6. mem'[s].coord = mem[s].coord /\ mem'[s].p2EOF = mem[s].p2EOF /\ mem'[s].outSeq = mem[s].outSeq
    BY <1>4
  <2>7. Saved(s).averagesEOF \/ Drained(s) # {} \/ phase[s] = "complete" => file'[s] = file[s]
    BY <1>2 DEF Saved
  <2> QED
    BY <1>2, <2>1, <2>2, <2>3, <2>4, <2>5, <2>6, <2>7, QuietIf
<1> QED
  BY <1>5

LEMMA StoreAveragesOnce ==
  ASSUME OnceInv, NEW r \in Replica, NEW m, StoreAverages(r, m)
  PROVE  OnceInv'
<1>1. EndInv /\ EndInv' /\ IndInv /\ TypeOK
  BY StoreAveragesEnd DEF OnceInv, EndInv, IndInv
<1>2. PICK t : t = [mem[r] EXCEPT !.avg = TRUE]
  OBVIOUS
<1>3. mem[r] \in State
  BY <1>1, FieldsAre
<1>4. t.coord = mem[r].coord /\ t.p2EOF = mem[r].p2EOF /\ t.outSeq = mem[r].outSeq
  BY <1>2, <1>3 DEF State
<1>5. Accept(r, m, "averages") /\ mem' = [mem EXCEPT ![r] = t] /\ UNCHANGED <<file, unconfirmed, outbox, phase, out>>
  BY <1>2 DEF StoreAverages, Accept
<1>6. \A s \in Replica : Drained(s)' = Drained(s)
  BY <1>5 DEF Drained
<1>7. \A s \in Replica : Quiet(s)
  BY <1>4, <1>5, <1>6, BatchQuiet
<1>8. RowsInv'
  <2>1. tomb' = tomb
    BY <1>5 DEF Accept
  <2> QED
    BY <1>1, <1>5, <1>7, <2>1, IssuedStays, RowsStay DEF OnceInv, Quiet
<1> QED
  BY <1>1, <1>7, <1>8, QuietSteps

LEMMA BufferBatchOnce ==
  ASSUME OnceInv, NEW r \in Replica, NEW m, BufferBatch(r, m)
  PROVE  OnceInv'
<1>1. EndInv /\ EndInv' /\ IndInv /\ TypeOK
  BY BufferBatchEnd DEF OnceInv, EndInv, IndInv
<1>2. PICK t : t = Recorded(Taken(mem[r], m.batch))
  OBVIOUS
<1>3. mem[r] \in State /\ disk[r].state \in State /\ ReplicaOK(r)
  BY <1>1, FieldsAre
<1>4. t.coord = mem[r].coord /\ t.p2EOF = mem[r].p2EOF /\ t.outSeq = mem[r].outSeq
  <2>1. PICK u : u = Taken(mem[r], m.batch)
    OBVIOUS
  <2>2. u.coord = mem[r].coord /\ u.p2EOF = mem[r].p2EOF /\ u.outSeq = mem[r].outSeq
    BY <1>3, <2>1 DEF Taken, State
  <2>3. t.coord = u.coord /\ t.p2EOF = u.p2EOF /\ t.outSeq = u.outSeq
    <3>1. t = Recorded(u)
      BY <1>2, <2>1
    <3>2. PICK x : x = u.buffered + 1
      OBVIOUS
    <3>3. PICK y : y = u.records + 1
      OBVIOUS
    <3>4. t = [u EXCEPT !.buffered = x, !.records = y]
      BY <3>1, <3>2, <3>3 DEF Recorded
    <3>5. "coord" \in DOMAIN u /\ "p2EOF" \in DOMAIN u /\ "outSeq" \in DOMAIN u
      BY <1>3, <2>1 DEF Taken, State
    <3> QED
      BY <3>4, <3>5
  <2> QED
    BY <2>2, <2>3
<1>5. /\ Accept(r, m, "batch") /\ ~mem[r].averagesEOF /\ mem' = [mem EXCEPT ![r] = t]
      /\ UNCHANGED <<unconfirmed, outbox, phase, out>>
      /\ \A s \in Replica \ {r} : file'[s] = file[s]
  BY <1>1, <1>2 DEF BufferBatch, Accept, TypeOK
<1>6. /\ Parts(r) /\ phase[r] = "idle" /\ r \notin tomb /\ m \in inbox[r] /\ m.type = "batch" /\ tomb' = tomb
  BY <1>1, <1>5, AcceptEnd
<1>7. m.batch \in Batch /\ home[m.batch] = r /\ m.batch \notin mem[r].seen
  <2>1. m \in Messages
    BY <1>1, <1>5, AcceptIs
  <2> QED
    BY <1>5, <1>6, <2>1, MessageKinds DEF Parts, QueueOK, Accept, Discarded
<1>8. ~disk[r].state.averagesEOF /\ Drained(r) = {}
  <2>1. ~disk[r].state.averagesEOF
    BY <1>5, <1>6 DEF Parts, SavedOK
  <2>2. m.batch \in Own(r) /\ disk[r].state.seen \subseteq mem[r].seen
    BY <1>3, <1>7 DEF Own, ReplicaOK
  <2>3. ~FileIsFinal(r)
    BY <1>7, <2>1, <2>2 DEF FileIsFinal
  <2> QED
    BY <1>6, <2>1, <2>3 DEF Parts, RepeatOK
<1>9. \A s \in Replica : Drained(s)' = Drained(s)
  BY <1>5 DEF Drained
<1>10. \A s \in Replica : Quiet(s)
  BY <1>4, <1>5, <1>8, <1>9, BatchQuiet
<1>11. RowsInv'
  BY <1>1, <1>5, <1>6, <1>10, IssuedStays, RowsStay DEF OnceInv, Quiet
<1> QED
  BY <1>1, <1>10, <1>11, QuietSteps

LEMMA FilterBatchOnce ==
  ASSUME Unharmed, OnceInv, NEW r \in Replica, NEW m, FilterBatch(r, m)
  PROVE  OnceInv'
<1>1. EndInv /\ EndInv' /\ IndInv /\ TypeOK /\ RowsInv
  BY FilterBatchEnd DEF OnceInv, EndInv, IndInv
<1>2. PICK t : t = Taken(mem[r], m.batch)
  OBVIOUS
<1>3. mem[r] \in State /\ disk[r].state \in State /\ ReplicaOK(r)
  BY <1>1, FieldsAre
<1>4. t.coord = mem[r].coord /\ t.p2EOF = mem[r].p2EOF /\ t.outSeq = mem[r].outSeq
  BY <1>2, <1>3 DEF Taken, State
<1>5. /\ Accept(r, m, "batch") /\ mem[r].averagesEOF /\ mem' = [mem EXCEPT ![r] = t] /\ UNCHANGED <<file, outbox, phase, out>>
  BY <1>2 DEF FilterBatch, Accept
<1>6. /\ Parts(r) /\ phase[r] = "idle" /\ r \notin tomb /\ ~AfterDrain(r) /\ m \in inbox[r] /\ m.type = "batch"
      /\ tomb' = tomb /\ disk' = disk
  BY <1>1, <1>5, AcceptEnd
<1>7. m.batch \in Batch /\ home[m.batch] = r /\ m.batch \notin mem[r].seen
  <2>1. m \in Messages
    BY <1>1, <1>5, AcceptIs
  <2> QED
    BY <1>5, <1>6, <2>1, MessageKinds DEF Parts, QueueOK, Accept, Discarded
<1>8. PICK x : x = Row(home[m.batch], 0, m.batch)
  OBVIOUS
<1>9. IsRow(x) /\ x.seq = 0 /\ x.sender = r /\ x.batch = m.batch /\ x.type = "row"
  BY <1>7, <1>8 DEF Row, IsRow
<1>10. Issued' = Issued \/ Issued' = Issued \cup {x}
  <2>1. CASE Passes(mem[r], m.batch)
    <3>1. PICK b : b = m.batch
      OBVIOUS
    <3>2. PICK A : A = UNION {unconfirmed[q] : q \in Replica}
      OBVIOUS
    <3>3. unconfirmed' = [unconfirmed EXCEPT ![r] = @ \cup {b}]
      BY <2>1, <3>1 DEF FilterBatch
    <3>4. \A q \in Replica : unconfirmed'[q] = IF q = r THEN unconfirmed[q] \cup {b} ELSE unconfirmed[q]
      BY <1>1, <3>3 DEF TypeOK
    <3>5. UNION {unconfirmed'[q] : q \in Replica} = A \cup {b}
      BY <3>2, <3>4
    <3>6. Issued = out \cup {Row(home[c], 0, c) : c \in A}
      BY <3>2 DEF Issued
    <3>7. Issued' = out \cup {Row(home[c], 0, c) : c \in A \cup {b}}
      BY <1>5, <3>5 DEF Issued
    <3>8. x = Row(home[b], 0, b)
      BY <1>8, <3>1
    <3> QED
      BY <3>6, <3>7, <3>8
  <2>2. CASE ~Passes(mem[r], m.batch)
    <3>1. unconfirmed' = unconfirmed
      BY <1>1, <2>2 DEF FilterBatch, TypeOK
    <3> QED
      BY <1>5, <3>1, IssuedStays
  <2> QED
    BY <2>1, <2>2
<1>11. \A s \in Replica : Drained(s)' = Drained(s)
  BY <1>5 DEF Drained
<1>12. \A s \in Replica : Quiet(s)
  BY <1>4, <1>5, <1>11, BatchQuiet
<1>13. Saved(r) = disk[r].state /\ Saved(r)' = disk[r].state /\ Saved(r).averagesEOF
  BY <1>5, <1>6 DEF Saved, Parts, SavedOK
<1>14. m.batch \notin ToSet(file[r])
  <2>1. FileOK(mem[r], disk[r].state, file[r])
    BY <1>3, <1>6 DEF ReplicaOK
  <2> QED
    BY <1>7, <2>1 DEF FileOK, ToSet
<1>15. RowsInv'
  <2>1. CASE Issued' = Issued
    BY <1>1, <1>5, <1>6, <1>12, <2>1, RowsStay DEF Quiet
  <2>2. CASE Issued' = Issued \cup {x}
    <3>1. RowOK(x)'
      <4>1. Saved(r)'.averagesEOF /\ ToSet(file[r])' = ToSet(file[r])
        BY <1>5, <1>13 DEF ToSet
      <4> QED
        BY <1>7, <1>9, <1>14, <4>1 DEF RowOK
    <3>2. \A o \in Issued : IsRow(o) => RowOK(o)'
      BY <1>1, <1>12, RowStays DEF RowsInv, Quiet
    <3>3. \A o \in Issued : IsRow(o) /\ o.batch = x.batch => o = x
      <4> SUFFICES ASSUME NEW o \in Issued, IsRow(o), o.batch = x.batch, o # x PROVE FALSE
        OBVIOUS
      <4>1. o.sender = r /\ o.seq \in Nat /\ RowOK(o)
        BY <1>1, <1>7, <1>9, RowsAre DEF RowsInv, RowOK
      <4>2. o.seq # 0
        <5> SUFFICES ASSUME o.seq = 0 PROVE o = x
          OBVIOUS
        <5>1. o \in Outputs
          BY <1>1, RowsIssued
        <5>2. o = [type |-> "row", sender |-> o.sender, seq |-> o.seq, batch |-> o.batch]
          BY <5>1 DEF Outputs, IsRow
        <5> QED
          BY <1>7, <1>8, <1>9, <4>1, <5>2 DEF Row
      <4>3. FromFile(r, o)
        BY <1>6, <1>7, <1>9, <4>1, <4>2 DEF RowOK
      <4>4. PICK i \in 1 .. Count(file[r]) : o = Row(r, Saved(r).outSeq + i, RowAt(file[r], i))
        BY <4>3 DEF FromFile
      <4>5. o.batch = RowAt(file[r], i)
        BY <4>4 DEF Row
      <4>6. RowAt(file[r], i) \in ToSet(file[r])
        <5>1. PICK f : f = file[r]
          OBVIOUS
        <5>2. f \in Seq(Batch) /\ i \in 1 .. Cardinality(Wanted(f))
          BY <1>1, <5>1, FieldsAre DEF Count
        <5>3. Wanted(f) \in SUBSET (1 .. Len(f)) /\ Wanted(f) \in SUBSET Int
          BY DEF Wanted
        <5>4. IsFiniteSet(Wanted(f))
          <6>1. IsFiniteSet(1 .. Len(f))
            BY <5>2, LenProperties, FS_Interval
          <6> QED
            BY <5>3, <6>1, FS_Subset
        <5>5. Nth(Wanted(f), i) \in 1 .. Len(f)
          BY <5>2, <5>3, <5>4, NthIs
        <5> QED
          BY <5>1, <5>5 DEF RowAt, ToSet
      <4> QED
        BY <1>9, <1>14, <4>5, <4>6
    <3>4. ASSUME NEW s \in Replica, NEW i \in 1 .. Len(outbox'[s]), IsRow(outbox'[s][i])
          PROVE  NextRowOK(s, outbox[s], i)'
      <4>1. PICK q : q = outbox[s]
        OBVIOUS
      <4>2. outbox'[s] = q
        BY <1>5, <4>1
      <4>3. NextRowOK(s, q, i)
        BY <1>1, <3>4, <4>1, <4>2 DEF RowsInv
      <4>4. phase[s] = "complete"
        BY <1>1, <3>4, <4>1, <4>2 DEF EndInv, SendsOK, SendOK
      <4>5. s \notin tomb /\ s # r
        BY <1>1, <1>6, <4>4, FieldsAre DEF ReplicaOK
      <4>6. \A o \in Issued' \ Issued : IsRow(o) => o.batch # q[i].batch
        BY <1>7, <1>9, <2>2, <4>3, <4>5 DEF NextRowOK
      <4>7. NextRowOK(s, q, i)'
        BY <1>6, <1>12, <4>3, <4>4, <4>5, <4>6, NextStays DEF Quiet
      <4>8. NextRowOK(s, outbox[s], i)' <=> NextRowOK(s, q, i)'
        BY <4>2 DEF NextRowOK
      <4> QED
        BY <4>7, <4>8
    <3>5. \A o, p \in Issued' : IsRow(o) /\ IsRow(p) /\ o.batch = p.batch => o = p
      BY <1>1, <2>2, <3>3 DEF RowsInv
    <3> QED
      BY <2>2, <3>1, <3>2, <3>4, <3>5 DEF RowsInv
  <2> QED
    BY <1>10, <2>1, <2>2
<1> QED
  BY <1>1, <1>12, <1>15, QuietSteps

LEMMA OtherQuiet ==
  ASSUME OnceInv, NEW s \in Replica,
         inbox'[s] = inbox[s], pending'[s] = pending[s], mem'[s] = mem[s], disk'[s] = disk[s], file'[s] = file[s],
         outbox'[s] = outbox[s], phase'[s] = phase[s], s \in tomb' <=> s \in tomb, Drained(s)' = Drained(s)
  PROVE  Quiet(s)
<1>1. MarksOK(s)
  BY DEF OnceInv
<1>2. Saved(s)' = Saved(s) /\ (AfterDrain(s) => AfterDrain(s)')
  BY DEF Saved, AfterDrain
<1>3. \A n \in Coming(s)' : n \in Coming(s)
  BY DEF Coming
<1>4. mem'[s].coord = mem[s].coord /\ mem'[s].p2EOF = mem[s].p2EOF /\ mem'[s].outSeq = mem[s].outSeq
  OBVIOUS
<1> QED
  BY <1>1, <1>2, <1>3, <1>4, QuietIf

(* The messages of the rounds and the SeqIDs that they are compared with.    *)
LEMMA MarksAre ==
  ASSUME IndInv, NEW r \in Replica
  PROVE  /\ Saved(r) \in State
         /\ \A s \in Sender : mem[r].coord[s] \in Nat /\ Saved(r).coord[s] \in Nat
         /\ \A m \in Coming(r) : IsOpen(m) \/ IsClosing(m) => m.seq \in Nat /\ m.sender \in Sender
<1>1. mem[r] \in State /\ disk[r].state \in State /\ Coming(r) \subseteq Messages
  BY FieldsAre DEF Coming
<1>2. Saved(r) \in State
  BY <1>1 DEF Saved
<1>3. \A t \in State : \A s \in Sender : t.coord[s] \in Nat
  BY DEF State
<1>4. Replica \subseteq Sender
  BY ConstantsAssumption DEF Replica, Sender
<1>5. ASSUME NEW m \in Messages, IsOpen(m) \/ IsClosing(m) PROVE m.seq \in Nat /\ m.sender \in Sender
  <2>1. m.type \in {"eof", "token"}
    BY <1>5 DEF IsOpen, IsClosing
  <2>2. m \in Coordination
    BY <2>1 DEF Messages, Averages
  <2> QED
    BY <1>4, <2>2 DEF Coordination, EOFs, Tokens
<1> QED
  BY <1>1, <1>2, <1>3, <1>5

LEMMA ConfirmOnce ==
  ASSUME OnceInv, NEW r \in Replica, NEW b, Confirm(r, b)
  PROVE  OnceInv'
<1>1. EndInv /\ EndInv' /\ IndInv /\ TypeOK /\ RowsInv
  BY ConfirmEnd DEF OnceInv, EndInv, IndInv
<1>2. PICK row : row = Row(home[b], 0, b)
  OBVIOUS
<1>3. row.type = "row" /\ row.seq = 0
  BY <1>2 DEF Row
<1>4. /\ out' = Accepted(row) /\ b \in unconfirmed[r]
      /\ UNCHANGED <<inbox, pending, mem, disk, file, tomb, outbox, phase>>
      /\ \A q \in Replica : unconfirmed'[q] \subseteq unconfirmed[q]
  BY <1>1, <1>2 DEF Confirm, TypeOK
<1>5. Issued' \subseteq Issued
  <2>1. UNION {unconfirmed'[q] : q \in Replica} \subseteq UNION {unconfirmed[q] : q \in Replica}
    BY <1>4
  <2>2. out' \subseteq out \cup {row} /\ row \in Issued
    BY <1>2, <1>4 DEF Accepted, Issued
  <2> QED
    BY <2>1, <2>2 DEF Issued
<1>6. \A s \in Replica : Drained(s)' = Drained(s)
  BY <1>3, <1>4 DEF Drained, Accepted
<1>7. \A s \in Replica : Quiet(s)
  BY <1>4, <1>6, OtherQuiet
<1>8. RowsInv'
  BY <1>1, <1>4, <1>5, <1>7, RowsStay DEF Quiet
<1> QED
  BY <1>1, <1>7, <1>8, QuietSteps

LEMMA CheckpointOnce ==
  ASSUME OnceInv, NEW r \in Replica, Checkpoint(r)
  PROVE  OnceInv'
<1>1. EndInv /\ EndInv' /\ IndInv /\ TypeOK /\ RowsInv /\ MarksOK(r)
  BY CheckpointEnd DEF OnceInv, EndInv, IndInv
<1>2. mem[r] \in State /\ ReplicaOK(r) /\ SavedOK(r)
  BY <1>1, FieldsAre DEF EndInv
<1>3. phase[r] # "complete" /\ outbox[r] = <<>> /\ r \notin tomb /\ ~AfterDrain(r)
  BY <1>2 DEF Checkpoint, ReplicaOK, AfterDrain
<1>4. /\ disk'[r].state = mem[r] /\ phase'[r] = "idle" /\ pending'[r] = {}
      /\ unconfirmed[r] = {} /\ UNCHANGED <<inbox, mem, file, tomb, unconfirmed, outbox, out>>
      /\ \A q \in Replica \ {r} : disk'[q] = disk[q] /\ phase'[q] = phase[q] /\ pending'[q] = pending[q]
  BY <1>1 DEF Checkpoint, TypeOK
<1>5. Saved(r)' = mem[r]
  BY <1>4 DEF Saved
<1>6. \A s \in Replica : Drained(s)' = Drained(s)
  BY <1>4 DEF Drained
<1>7. /\ Saved(r).p2EOF => mem[r].p2EOF
      /\ mem[r].outSeq = Saved(r).outSeq
      /\ \A s \in Sender : Saved(r).coord[s] <= mem[r].coord[s]
      /\ Saved(r).averagesEOF => mem[r].averagesEOF
  BY <1>1, <1>2, <1>3 DEF MarksOK, Saved, SavedOK
<1>8. \A m \in Coming(r)' : m \in Coming(r)
  BY <1>4 DEF Coming
<1>9. Calm(r)
  <2>1. ASSUME N > 1, NEW m \in Waiting(r)' PROVE m \in Waiting(r)
    <3>1. m \in Coming(r) /\ IsOpen(m) /\ m.seq > mem[r].coord[m.sender]
      BY <1>5, <1>8, <2>1 DEF Waiting
    <3>2. m.seq \in Nat /\ m.sender \in Sender /\ mem[r].coord[m.sender] \in Nat /\ Saved(r).coord[m.sender] \in Nat
      BY <1>1, <3>1, MarksAre
    <3>3. m.seq > Saved(r).coord[m.sender]
      BY <1>7, <3>1, <3>2
    <3> QED
      BY <1>3, <3>1, <3>3 DEF Waiting
  <2>2. \A i \in Sending(r)' : i \in Sending(r)
    BY <1>4 DEF Sending
  <2>3. Ends(r)' => Ends(r)
    BY <1>4, <1>6, <1>8 DEF Ends
  <2> QED
    BY <2>1, <2>2, <2>3 DEF Calm
<1>10. Steady(r)
  BY <1>3, <1>4, <1>5, <1>7 DEF Steady
<1>11. Closes(r)
  <2>1. mem'[r].p2EOF => Marked(r, mem'[r])
    BY <1>4 DEF Marked
  <2>2. Saved(r)'.p2EOF => Marked(r, Saved(r)')
    BY <1>5 DEF Marked
  <2> QED
    BY <1>3, <1>4, <1>8, <2>1, <2>2 DEF Closes
<1>12. MarksOK(r)'
  <2>1. \A s \in Sender : mem[r].coord[s] <= mem[r].coord[s]
    BY <1>1, MarksAre
  <2>2. phase'[r] = "complete" \/ (r \notin tomb' /\ Drained(r)' # {}) => mem[r].averagesEOF \/ mem[r].p2EOF
    BY <1>1, <1>4, <1>6, <1>7 DEF MarksOK
  <2>3. N > 1 /\ r = 0 /\ r \notin tomb /\ mem[r].coord[Transactions] = 0 => EOFMsg(Transactions, 1) \in inbox[r]
    BY <1>1 DEF MarksOK
  <2> QED
    BY <1>4, <1>5, <2>1, <2>2, <2>3 DEF MarksOK
<1>13. \A s \in Replica : Quiet(s)
  BY <1>4, <1>6, <1>9, <1>10, <1>11, <1>12, OtherQuiet DEF Quiet
<1>14. RowsInv'
  BY <1>1, <1>4, <1>13, IssuedStays, RowsStay DEF Quiet
<1> QED
  BY <1>1, <1>13, <1>14, QuietSteps

LEMMA CompleteOnce ==
  ASSUME OnceInv, NEW r \in Replica, Complete(r)
  PROVE  OnceInv'
<1>1. EndInv /\ EndInv' /\ IndInv /\ TypeOK /\ RowsInv
  BY CompleteEnd DEF OnceInv, EndInv, IndInv
<1>2. /\ mem'[r] = Fresh /\ disk'[r] = NoCheckpoint /\ phase'[r] = "idle" /\ pending'[r] = {}
      /\ tomb' = tomb \cup {r} /\ phase[r] = "complete" /\ outbox[r] = <<>>
      /\ unconfirmed[r] = {} /\ UNCHANGED <<inbox, file, unconfirmed, outbox, out>>
      /\ \A q \in Replica \ {r} : /\ mem'[q] = mem[q] /\ disk'[q] = disk[q]
                                  /\ phase'[q] = phase[q] /\ pending'[q] = pending[q]
  BY <1>1 DEF Complete, TypeOK
<1>3. Saved(r)' = Fresh
  BY <1>2 DEF Saved, NoCheckpoint
<1>4. \A s \in Replica : Drained(s)' = Drained(s)
  BY <1>2 DEF Drained
<1>5. \A m \in Coming(r)' : m \in Coming(r)
  BY <1>2 DEF Coming
<1>6. Calm(r)
  <2>1. \A m : m \notin Waiting(r)'
    BY <1>2 DEF Waiting
  <2>2. \A i \in Sending(r)' : i \in Sending(r)
    BY <1>2 DEF Sending
  <2>3. Ends(r)
    BY <1>2 DEF Ends
  <2> QED
    BY <2>1, <2>2, <2>3 DEF Calm
<1>7. Steady(r)
  BY <1>2 DEF Steady
<1>8. Closes(r)
  BY <1>2, <1>5 DEF Closes
<1>9. MarksOK(r)'
  <2>1. \A s \in Sender : Fresh.coord[s] = 0
    BY DEF Fresh
  <2>2. Transactions \in Sender
    BY ConstantsAssumption DEF Transactions, Sender
  <2> QED
    BY <1>2, <1>3, <2>1, <2>2 DEF MarksOK
<1>10. \A s \in Replica : Quiet(s)
  <2>1. \A s \in Replica \ {r} : s \in tomb' <=> s \in tomb
    BY <1>2
  <2> QED
    BY <1>2, <1>4, <1>6, <1>7, <1>8, <1>9, <2>1, OtherQuiet DEF Quiet
<1>11. RowsInv'
  <2>1. \A i \in 1 .. Len(outbox'[r]) : ~IsRow(outbox'[r][i])
    BY <1>2, EmptySeq
  <2>2. \A s \in Replica \ {r} : outbox'[s] = outbox[s] /\ (s \in tomb' <=> s \in tomb)
    BY <1>2
  <2> QED
    BY <1>1, <1>2, <1>10, <2>1, <2>2, IssuedStays, RowsStay DEF Quiet
<1> QED
  BY <1>1, <1>10, <1>11, QuietSteps

LEMMA RecoveredMarks ==
  ASSUME NEW d \in State, NEW f
  PROVE  Recovered(d, f).coord = d.coord
<1>1. PICK x : x = d.seen \cup RecoveredBuffer(f).headers
  OBVIOUS
<1>2. PICK y : y = d.p2Seen + Beyond(d, f)
  OBVIOUS
<1>3. PICK z : z = RecoveredBuffer(f).items
  OBVIOUS
<1>4. PICK n : n = Len(f)
  OBVIOUS
<1>5. Recovered(d, f) = [d EXCEPT !.seen = x, !.p2Seen = y, !.buffered = z, !.records = n]
  BY <1>1, <1>2, <1>3, <1>4 DEF Recovered
<1> QED
  BY <1>5 DEF State

LEMMA CrashOnce ==
  ASSUME Windows = {}, OnceInv, NEW r \in Replica, Crash(r)
  PROVE  OnceInv'
<1>1. EndInv /\ EndInv' /\ IndInv /\ TypeOK /\ RowsInv /\ MarksOK(r)
  BY CrashEnd DEF OnceInv, EndInv, IndInv
<1>2. PICK t : t = Load(r)
  OBVIOUS
<1>3. disk[r].state \in State /\ ReplicaOK(r) /\ file[r] \in Seq(Batch)
  BY <1>1, FieldsAre
<1>4. r \notin tomb /\ ~AfterDrain(r) /\ phase[r] # "forward"
  BY DEF Crash, Forwarding
<1>5. /\ mem'[r] = t /\ inbox'[r] = inbox[r] \cup pending[r] /\ pending'[r] = {}
      /\ outbox'[r] = <<>> /\ phase'[r] = "idle" /\ UNCHANGED <<disk, file, tomb, out>>
      /\ \A q \in Replica \ {r} :
           /\ mem'[q] = mem[q] /\ outbox'[q] = outbox[q] /\ phase'[q] = phase[q]
           /\ inbox'[q] = inbox[q] /\ pending'[q] = pending[q]
      /\ \A q \in Replica : unconfirmed'[q] \subseteq unconfirmed[q]
  BY <1>1, <1>2 DEF Crash, TypeOK
<1>6. PICK d : d = disk[r].state
  OBVIOUS
<1>7. d \in State /\ Saved(r) = d /\ Saved(r)' = d
  BY <1>3, <1>4, <1>5, <1>6 DEF Saved
<1>8. t.coord = d.coord /\ t.p2EOF = d.p2EOF /\ t.outSeq = d.outSeq
  <2>1. CASE disk[r].exists
    <3>1. t = Recovered(d, file[r])
      BY <1>2, <1>6, <2>1 DEF Load
    <3> QED
      BY <1>3, <1>7, <3>1, RecoveredKeeps, RecoveredMarks
  <2>2. CASE ~disk[r].exists
    BY <1>2, <1>3, <1>6, <2>2 DEF Load, ReplicaOK
  <2> QED
    BY <2>1, <2>2
<1>9. \A s \in Replica : Drained(s)' = Drained(s)
  BY <1>5 DEF Drained
<1>10. Coming(r)' = Coming(r)
  BY <1>5 DEF Coming
<1>11. d.p2EOF => mem[r].p2EOF
  BY <1>1, <1>7 DEF MarksOK
<1>12. Calm(r)
  <2>1. \A m \in Waiting(r)' : m \in Waiting(r)
    BY <1>5, <1>7, <1>10 DEF Waiting
  <2>2. \A i : i \notin Sending(r)'
    BY <1>5, EmptySeq DEF Sending
  <2>3. Ends(r)' => Ends(r)
    <3>1. \A i : i \notin 1 .. Len(outbox'[r])
      BY <1>5, EmptySeq
    <3> QED
      BY <1>4, <1>5, <1>8, <1>9, <1>10, <1>11, <3>1 DEF Ends
  <2> QED
    BY <2>1, <2>2, <2>3 DEF Calm
<1>13. Steady(r)
  BY <1>4, <1>5, <1>7 DEF Steady
<1>14. Closes(r)
  <2>1. \A i : i \notin 1 .. Len(outbox'[r])
    BY <1>5, EmptySeq
  <2>2. t.p2EOF => Marked(r, t)
    BY <1>7, <1>8 DEF Marked
  <2>3. d.p2EOF => Marked(r, d)
    BY <1>7 DEF Marked
  <2> QED
    BY <1>4, <1>5, <1>7, <1>10, <2>1, <2>2, <2>3 DEF Closes
<1>15. MarksOK(r)'
  <2>1. \A s \in Sender : d.coord[s] <= d.coord[s]
    BY <1>1, <1>7, MarksAre
  <2>2. phase'[r] = "complete" \/ (r \notin tomb' /\ Drained(r)' # {}) => d.averagesEOF \/ d.p2EOF
    BY <1>1, <1>5, <1>7, <1>9 DEF MarksOK
  <2>3. N > 1 /\ r = 0 /\ d.coord[Transactions] = 0 => EOFMsg(Transactions, 1) \in inbox[r]
    BY <1>1, <1>4, <1>7 DEF MarksOK
  <2> QED
    BY <1>5, <1>7, <1>8, <2>1, <2>2, <2>3 DEF MarksOK
<1>16. \A s \in Replica : Quiet(s)
  BY <1>5, <1>9, <1>12, <1>13, <1>14, <1>15, OtherQuiet DEF Quiet
<1>17. RowsInv'
  <2>1. \A i \in 1 .. Len(outbox'[r]) : ~IsRow(outbox'[r][i])
    BY <1>5, EmptySeq
  <2>2. UNION {unconfirmed'[q] : q \in Replica} \subseteq UNION {unconfirmed[q] : q \in Replica}
    BY <1>5
  <2>3. Issued' \subseteq Issued
    BY <1>5, <2>2 DEF Issued
  <2> QED
    BY <1>1, <1>5, <1>16, <2>1, <2>3, RowsStay DEF Quiet
<1> QED
  BY <1>1, <1>16, <1>17, QuietSteps

-----------------------------------------------------------------------------
(* A handler of a coordination message *)

(* Replica r handles m, in state s, and comes to t by o.                     *)
Turned(r, m, s, o, t) ==
  /\ mem'[r] = t /\ outbox'[r] = o.sends /\ phase'[r] = o.end
  /\ \A q \in Replica \ {r} : /\ mem'[q] = mem[q] /\ outbox'[q] = outbox[q] /\ phase'[q] = phase[q]
                              /\ inbox'[q] = inbox[q] /\ pending'[q] = pending[q]
  /\ UNCHANGED <<disk, file, tomb, unconfirmed, out>>
  /\ Coming(r)' = Coming(r) /\ inbox'[r] = inbox[r] \ {m} /\ m \in Coming(r)
  /\ phase[r] = "idle" /\ r \notin tomb /\ ~AfterDrain(r)
  /\ t.p2EOF = o.state.p2EOF /\ t.averagesEOF = o.state.averagesEOF /\ t.outSeq = o.state.outSeq
  /\ m.sender \in Sender /\ m.seq \in Nat /\ m.seq > mem[r].coord[m.sender]
  /\ \A x \in Sender : t.coord[x] = IF x = m.sender THEN m.seq ELSE mem[r].coord[x]
  /\ Saved(r)' = IF o.end = "forward" THEN t ELSE Saved(r)
  /\ Saved(r).outSeq = s.outSeq /\ Saved(r).averagesEOF = s.averagesEOF /\ Saved(r).p2EOF = s.p2EOF
  /\ mem[r].p2EOF = s.p2EOF
  /\ IsOpen(m) \/ IsClosing(m) \/ m.sender = Aggregator
  /\ ~(IsOpen(m) /\ IsClosing(m))
  /\ IsClosing(m) => m.sender \in Replica /\ Successor(m.sender) = r
  /\ m.sender = Transactions => m.type = "eof"

LEMMA TurnIs ==
  ASSUME EndInv, NEW r \in Replica, NEW m \in Coordination, NEW type, Accept(r, m, type),
         type \in {"eof", "token"}, NEW s, s.coord = mem[r].coord, s.outSeq = mem[r].outSeq,
         s.p2EOF = mem[r].p2EOF, s.averagesEOF = mem[r].averagesEOF,
         NEW o, o.state \in State, o.state.coord = s.coord, o.end # "idle", Apply(r, m, o),
         NEW t, t = [o.state EXCEPT !.coord[m.sender] = m.seq]
  PROVE  Turned(r, m, s, o, t)
<1>1. /\ Parts(r) /\ IndInv /\ phase[r] = "idle" /\ r \notin tomb /\ ~AfterDrain(r)
      /\ m \in inbox[r] /\ m.type = type
      /\ inbox'[r] \cup pending'[r] = inbox[r] \cup pending[r]
      /\ \A q \in Replica \ {r} : inbox'[q] = inbox[q] /\ pending'[q] = pending[q]
      /\ tomb' = tomb /\ disk' = disk /\ out' = out
  BY AcceptEnd
<1>2. mem[r] \in State /\ disk[r].state \in State
  BY <1>1, FieldsAre
<1>3. /\ t.p2EOF = o.state.p2EOF /\ t.averagesEOF = o.state.averagesEOF /\ t.outSeq = o.state.outSeq
  BY DEF State
<1>4. mem' = [mem EXCEPT ![r] = t] /\ outbox' = [outbox EXCEPT ![r] = o.sends]
      /\ phase' = [phase EXCEPT ![r] = o.end] /\ UNCHANGED <<file, unconfirmed>>
  BY DEF Apply
<1>5. /\ mem'[r] = t /\ outbox'[r] = o.sends /\ phase'[r] = o.end
      /\ \A q \in Replica \ {r} : mem'[q] = mem[q] /\ outbox'[q] = outbox[q] /\ phase'[q] = phase[q]
  BY <1>1, <1>4 DEF IndInv, TypeOK
<1>6. Coming(r)' = Coming(r) /\ inbox'[r] = inbox[r] \ {m} /\ m \in Coming(r)
  BY <1>1 DEF Coming, Accept, IndInv, TypeOK
<1>7. m.type \in {"eof", "token"}
  BY <1>1
<1>8. /\ m.type = "eof" => m \in EOFs
      /\ m.type = "token" => m \in Tokens
  BY DEF Coordination, EOFs, Tokens
<1>9. Replica \subseteq Sender /\ Transactions \notin Replica
  BY ConstantsAssumption DEF Replica, Sender, Transactions
<1>10. /\ m.sender \in Sender /\ m.seq \in Nat
       /\ m.type = "token" => m.sender \in Replica /\ m.closing \in BOOLEAN
  BY <1>7, <1>8, <1>9 DEF EOFs, Tokens
<1>11. m.seq > mem[r].coord[m.sender]
  <2>1. ~(m.seq <= mem[r].coord[m.sender])
    BY <1>7 DEF Accept, Discarded
  <2>2. mem[r].coord[m.sender] \in Nat
    BY <1>2, <1>10 DEF State
  <2> QED
    BY <1>10, <2>1, <2>2
<1>12. \A x \in Sender : t.coord[x] = IF x = m.sender THEN m.seq ELSE mem[r].coord[x]
  <2>1. PICK c : c = o.state.coord
    OBVIOUS
  <2>2. c \in [Sender -> Nat] /\ t.coord = [c EXCEPT ![m.sender] = m.seq] /\ c = mem[r].coord
    BY <2>1 DEF State
  <2> QED
    BY <1>10, <2>2
<1>13. Saved(r) = disk[r].state /\ Saved(r)' = IF o.end = "forward" THEN t ELSE Saved(r)
  BY <1>1, <1>5 DEF Saved
<1>14. Saved(r).outSeq = s.outSeq /\ Saved(r).averagesEOF = s.averagesEOF /\ Saved(r).p2EOF = s.p2EOF
  BY <1>1, <1>13 DEF Parts, SavedOK
<1>15. /\ IsOpen(m) \/ IsClosing(m) \/ m.sender = Aggregator
       /\ ~(IsOpen(m) /\ IsClosing(m))
  BY <1>7 DEF IsOpen, IsClosing
<1>16. IsClosing(m) => m.sender \in Replica /\ Successor(m.sender) = r
  BY <1>1, <1>10 DEF IsClosing, Parts, QueueOK
<1>17. m.sender = Transactions => m.type = "eof"
  BY <1>7, <1>9, <1>10
<1> QED
  BY <1>1, <1>3, <1>4, <1>5, <1>6, <1>10, <1>11, <1>12, <1>13, <1>14, <1>15, <1>16, <1>17 DEF Turned

(* What is known of a handler. *)
Handled(r, m, s, f, o, t) ==
  /\ Turned(r, m, s, o, t)
  /\ TurnOK(r, m, s, f, o)
  /\ o.end \in {"checkpoint", "forward", "complete"}
  /\ f = file[r]
  /\ s.averagesEOF => o.state.averagesEOF
  /\ o.end = "complete" => (s.averagesEOF \/ s.p2EOF) /\ DrainSays(r, s.outSeq, f, o.sends)

LEMMA TurnMarks ==
  ASSUME OnceInv, NEW r \in Replica, NEW m, NEW s, NEW f, NEW o, NEW t, Handled(r, m, s, f, o, t)
  PROVE  MarksOK(r)'
<1>1. IndInv /\ MarksOK(r) /\ Turned(r, m, s, o, t) /\ TurnOK(r, m, s, f, o)
  BY DEF OnceInv, EndInv, Handled
<1>2. \A x \in Sender : mem[r].coord[x] \in Nat /\ Saved(r).coord[x] \in Nat /\ Saved(r).coord[x] <= mem[r].coord[x]
  BY <1>1, MarksAre DEF MarksOK
<1>3. \A x \in Sender : mem[r].coord[x] <= t.coord[x] /\ t.coord[x] \in Nat
  BY <1>1, <1>2 DEF Turned
<1>4. \A x \in Sender : Saved(r)'.coord[x] <= mem'[r].coord[x]
  <2>1. \A x \in Sender : Saved(r).coord[x] <= t.coord[x] /\ t.coord[x] <= t.coord[x]
    BY <1>2, <1>3
  <2>2. mem'[r] = t /\ (Saved(r)' = t \/ Saved(r)' = Saved(r))
    BY <1>1 DEF Turned
  <2> QED
    BY <2>1, <2>2
<1>5. Saved(r)'.p2EOF => mem'[r].p2EOF
  BY <1>1 DEF Turned, TurnOK
<1>6. phase'[r] # "complete" => mem'[r].outSeq = Saved(r)'.outSeq
  BY <1>1 DEF Handled, Turned, TurnOK
<1>7. phase'[r] = "complete" \/ Drained(r)' # {} => Saved(r)'.averagesEOF \/ Saved(r)'.p2EOF
  <2>1. Drained(r)' = Drained(r)
    BY <1>1 DEF Turned, Drained
  <2>2. o.end = "complete" \/ Drained(r) # {} => s.averagesEOF \/ s.p2EOF
    BY <1>1 DEF Handled, Turned, MarksOK
  <2>3. (s.averagesEOF => t.averagesEOF) /\ (s.p2EOF => t.p2EOF)
    BY <1>1 DEF Handled, Turned, TurnOK
  <2> QED
    BY <1>1, <2>1, <2>2, <2>3 DEF Turned
<1>8. Transactions \in Sender /\ Transactions # Aggregator
  BY ConstantsAssumption DEF Transactions, Sender, Aggregator
<1>9. N > 1 /\ r = 0 => mem'[r].coord[Transactions] = Saved(r)'.coord[Transactions]
  <2> SUFFICES ASSUME N > 1, r = 0 PROVE mem'[r].coord[Transactions] = Saved(r)'.coord[Transactions]
    OBVIOUS
  <2>1. CASE o.end = "forward"
    BY <1>1, <2>1 DEF Turned
  <2>2. CASE o.end # "forward"
    <3>1. m.sender # Transactions
      BY <1>1, <1>8, <2>2 DEF Turned, TurnOK
    <3>2. t.coord[Transactions] = mem[r].coord[Transactions]
      BY <1>1, <1>8, <3>1 DEF Turned
    <3> QED
      BY <1>1, <2>2, <3>2 DEF Turned, MarksOK
  <2> QED
    BY <2>1, <2>2
<1>10. N > 1 /\ r = 0 /\ mem'[r].coord[Transactions] = 0 => EOFMsg(Transactions, 1) \in inbox'[r]
  <2> SUFFICES ASSUME N > 1, r = 0, t.coord[Transactions] = 0 PROVE EOFMsg(Transactions, 1) \in inbox[r] \ {m}
    BY <1>1 DEF Turned
  <2>1. m.sender # Transactions
    <3> SUFFICES ASSUME m.sender = Transactions PROVE FALSE
      OBVIOUS
    <3>1. m.seq = 0 /\ m.seq > mem[r].coord[Transactions] /\ mem[r].coord[Transactions] \in Nat
      BY <1>1, <1>2, <1>8 DEF Turned
    <3> QED
      BY <3>1
  <2>2. mem[r].coord[Transactions] = 0
    BY <1>1, <1>8, <2>1 DEF Turned
  <2>3. EOFMsg(Transactions, 1) \in inbox[r]
    BY <1>1, <2>2 DEF MarksOK, Turned
  <2>4. EOFMsg(Transactions, 1).sender = Transactions
    BY DEF EOFMsg
  <2> QED
    BY <2>1, <2>3, <2>4
<1> QED
  BY <1>4, <1>5, <1>6, <1>7, <1>9, <1>10 DEF MarksOK

(* The closing token comes to a replica that has not closed the round. *)
LEMMA FirstClosing ==
  ASSUME OnceInv, NEW r \in Replica, NEW m, NEW s, NEW f, NEW o, NEW t, Handled(r, m, s, f, o, t), N > 1, IsClosing(m)
  PROVE  ~s.p2EOF
<1> SUFFICES ASSUME s.p2EOF PROVE FALSE
  OBVIOUS
<1>1. IndInv /\ Turned(r, m, s, o, t) /\ CloseInv
  BY DEF OnceInv, EndInv, Handled
<1>2. PICK p : p = m.sender
  OBVIOUS
<1>3. p \in Replica /\ Successor(p) = r /\ m \in Coming(r) /\ mem[r].p2EOF /\ r \notin tomb
  BY <1>1, <1>2 DEF Turned
<1>4. ClosedAs(p, m.seq)
  BY <1>2, <1>3 DEF ClosedAs
<1>5. ClosedAs(p, mem[r].coord[p])
  BY <1>3 DEF ClosedAs
<1>6. m.seq = mem[r].coord[p]
  BY <1>1, <1>3, <1>4, <1>5 DEF CloseInv
<1>7. m.seq > mem[r].coord[p] /\ m.seq \in Nat
  BY <1>1, <1>2 DEF Turned
<1> QED
  BY <1>6, <1>7

LEMMA TurnSaved ==
  ASSUME OnceInv, NEW r \in Replica, NEW m, NEW s, NEW f, NEW o, NEW t, Handled(r, m, s, f, o, t)
  PROVE  \A n \in Waiting(r)' : n \in Waiting(r) /\ (o.end = "forward" => n # m)
<1>1. IndInv /\ MarksOK(r) /\ Turned(r, m, s, o, t) /\ TurnOK(r, m, s, f, o)
  BY DEF OnceInv, EndInv, Handled
<1>2. \A x \in Sender : mem[r].coord[x] \in Nat /\ Saved(r).coord[x] \in Nat /\ Saved(r).coord[x] <= mem[r].coord[x]
  BY <1>1, MarksAre DEF MarksOK
<1>3. \A x \in Sender : t.coord[x] \in Nat /\ Saved(r).coord[x] <= t.coord[x]
  BY <1>1, <1>2 DEF Turned
<1> SUFFICES ASSUME NEW n \in Waiting(r)' PROVE n \in Waiting(r) /\ (o.end = "forward" => n # m)
  OBVIOUS
<1>4. n \in Coming(r) /\ IsOpen(n) /\ r \notin tomb /\ n.seq > Saved(r)'.coord[n.sender]
  BY <1>1 DEF Waiting, Turned
<1>5. n.seq \in Nat /\ n.sender \in Sender
  BY <1>1, <1>4, MarksAre
<1>6. CASE o.end = "forward"
  <2>1. n.seq > t.coord[n.sender]
    BY <1>1, <1>4, <1>6 DEF Turned
  <2>2. n.seq > Saved(r).coord[n.sender]
    BY <1>2, <1>3, <1>5, <2>1
  <2>3. n # m
    <3>1. t.coord[m.sender] = m.seq /\ m.seq \in Nat
      BY <1>1 DEF Turned
    <3> QED
      BY <2>1, <3>1
  <2> QED
    BY <1>4, <2>2, <2>3 DEF Waiting
<1>7. CASE o.end # "forward"
  BY <1>1, <1>4, <1>7 DEF Turned, Waiting
<1> QED
  BY <1>6, <1>7

(* An open message that is handled ends its turn alone. *)
LEMMA OpenTurn ==
  ASSUME OnceInv, NEW r \in Replica, NEW m, NEW s, NEW f, NEW o, NEW t, Handled(r, m, s, f, o, t), N > 1, IsOpen(m)
  PROVE  /\ ~Ending
         /\ \A q \in Replica : Sending(q) = {} /\ \A n \in Waiting(q) : q = r /\ n = m
<1>1. IndInv /\ MarksOK(r) /\ Turned(r, m, s, o, t) /\ RoundInv /\ ClosedInv
  BY DEF OnceInv, EndInv, Handled
<1>2. m \in Waiting(r)
  <2>1. m.sender \in Sender /\ m.seq \in Nat /\ m.seq > mem[r].coord[m.sender] /\ m \in Coming(r) /\ r \notin tomb
    BY <1>1 DEF Turned
  <2>2. mem[r].coord[m.sender] \in Nat /\ Saved(r).coord[m.sender] \in Nat /\ Saved(r).coord[m.sender] <= mem[r].coord[m.sender]
    BY <1>1, <2>1, MarksAre DEF MarksOK
  <2>3. m.seq > Saved(r).coord[m.sender]
    BY <2>1, <2>2
  <2> QED
    BY <2>1, <2>3 DEF Waiting
<1>3. ~Ending
  BY <1>1, <1>2 DEF ClosedInv
<1>4. \A q \in Replica : Sending(q) = {} /\ \A n \in Waiting(q) : q = r /\ n = m
  BY <1>1, <1>2 DEF RoundInv
<1> QED
  BY <1>3, <1>4

LEMMA TurnSteady ==
  ASSUME OnceInv, NEW r \in Replica, NEW m, NEW s, NEW f, NEW o, NEW t, Handled(r, m, s, f, o, t)
  PROVE  \A q \in Replica : Steady(q)
<1>1. IndInv /\ MarksOK(r) /\ Turned(r, m, s, o, t) /\ TurnOK(r, m, s, f, o)
  BY DEF OnceInv, EndInv, Handled
<1>2. /\ r \notin tomb /\ tomb' = tomb /\ ~AfterDrain(r) /\ phase[r] = "idle" /\ file' = file
      /\ Saved(r)' = IF o.end = "forward" THEN t ELSE Saved(r)
  BY <1>1 DEF Turned
<1>3. /\ Saved(r).p2EOF => Saved(r)'.p2EOF
      /\ Saved(r).averagesEOF => Saved(r)'.averagesEOF
  BY <1>1 DEF Handled, Turned, TurnOK
<1>4. Drained(r) # {} \/ (N > 1 /\ Ending /\ ~Saved(r)'.p2EOF) => Saved(r)'.outSeq = Saved(r).outSeq
  <2>1. CASE o.end # "forward"
    BY <1>2, <2>1
  <2>2. CASE o.end = "forward"
    <3>1. PICK x : /\ o.sends = <<x>>
                   /\ \/ IsOpen(m) /\ x.type = "eof" /\ o.state.outSeq = s.outSeq
                      \/ IsOpen(m) /\ N > 1 /\ x.type = "token" /\ (x.closing => r = 0)
                      \/ IsClosing(m) /\ r # 0 /\ ~s.averagesEOF /\ o.state.p2EOF /\ IsClosing(x)
      BY <1>1, <2>2 DEF TurnOK, Forwards
    <3>2. CASE IsOpen(m) /\ o.state.outSeq = s.outSeq
      BY <1>1, <1>2, <2>2, <3>2 DEF Turned
    <3>3. CASE IsOpen(m) /\ N > 1
      <4>1. ~Ending
        BY <3>3, OpenTurn
      <4>2. Drained(r) = {}
        BY <4>1 DEF Ending, Ends
      <4> QED
        BY <4>1, <4>2
    <3>4. CASE IsClosing(m) /\ r # 0 /\ ~s.averagesEOF /\ o.state.p2EOF
      <4>1. N > 1
        BY <3>4, ConstantsAssumption DEF Replica
      <4>2. ~s.p2EOF
        BY <3>4, <4>1, FirstClosing
      <4>3. ~Saved(r).averagesEOF /\ ~Saved(r).p2EOF
        BY <1>1, <3>4, <4>2 DEF Turned
      <4>4. Drained(r) = {}
        BY <1>1, <1>2, <4>3 DEF MarksOK
      <4>5. Saved(r)'.p2EOF
        BY <1>1, <1>2, <2>2, <3>4 DEF Turned
      <4> QED
        BY <4>4, <4>5
    <3> QED
      BY <3>1, <3>2, <3>3, <3>4
  <2> QED
    BY <2>1, <2>2
<1>5. Steady(r)
  BY <1>2, <1>3, <1>4 DEF Steady
<1>6. ASSUME NEW q \in Replica \ {r} PROVE Steady(q)
  <2>1. Saved(q)' = Saved(q) /\ (AfterDrain(q) => AfterDrain(q)')
    BY <1>1 DEF Turned, Saved, AfterDrain
  <2> QED
    BY <1>2, <2>1 DEF Steady
<1> QED
  BY <1>5, <1>6

LEMMA TurnRounds ==
  ASSUME OnceInv, NEW r \in Replica, NEW m, NEW s, NEW f, NEW o, NEW t, Handled(r, m, s, f, o, t)
  PROVE  RoundInv' /\ ClosedInv'
<1>1. /\ IndInv /\ MarksOK(r) /\ Turned(r, m, s, o, t) /\ TurnOK(r, m, s, f, o) /\ RoundInv /\ ClosedInv
      /\ o.end \in {"checkpoint", "forward", "complete"}
  BY DEF OnceInv, EndInv, Handled
<1>2. \A n \in Waiting(r)' : n \in Waiting(r) /\ (o.end = "forward" => n # m)
  BY TurnSaved
<1>3. /\ \A q \in Replica : Drained(q)' = Drained(q)
      /\ tomb' = tomb /\ r \notin tomb /\ Coming(r)' = Coming(r) /\ outbox'[r] = o.sends /\ phase'[r] = o.end
      /\ mem'[r].p2EOF = o.state.p2EOF
  BY <1>1 DEF Turned, Drained
<1>4. ASSUME NEW q \in Replica \ {r}
      PROVE  Waiting(q)' = Waiting(q) /\ Sending(q)' = Sending(q) /\ (Ends(q)' <=> Ends(q))
  <2>1. Saved(q)' = Saved(q) /\ Coming(q)' = Coming(q)
    BY <1>1 DEF Turned, Saved, Coming
  <2>2. mem'[q] = mem[q] /\ outbox'[q] = outbox[q] /\ phase'[q] = phase[q]
    BY <1>1 DEF Turned
  <2> QED
    BY <1>3, <2>1, <2>2 DEF Waiting, Sending, Ends
<1>5. N > 1 /\ o.state.p2EOF => s.p2EOF \/ IsClosing(m)
  BY <1>1 DEF TurnOK
<1>6. s.p2EOF \/ IsClosing(m) => Ends(r)
  BY <1>1 DEF Turned, Ends
<1>7. CASE o.end = "checkpoint"
  <2>1. \A i : i \notin 1 .. Len(outbox'[r])
    BY <1>1, <1>3, <1>7, EmptySeq DEF TurnOK
  <2>2. N > 1 => (Ends(r)' => Ends(r))
    BY <1>3, <1>5, <1>6, <1>7, <2>1 DEF Ends
  <2>3. \A i : i \notin Sending(r)'
    BY <2>1 DEF Sending
  <2>4. \A q \in Replica : Calm(q)
    BY <1>2, <1>4, <2>2, <2>3 DEF Calm
  <2> QED
    BY <1>1, <2>4, CalmRounds
<1>8. CASE o.end = "complete"
  <2>1. N > 1 => Ends(r)
    BY <1>1, <1>6, <1>8 DEF TurnOK, Completes
  <2>2. \A i \in 1 .. Len(o.sends) : ~IsOpen(o.sends[i])
    BY <1>1, <1>8 DEF TurnOK, Completes, IsOpen
  <2>3. \A i : i \notin Sending(r)'
    BY <1>3, <2>2 DEF Sending
  <2>4. \A q \in Replica : Calm(q)
    BY <1>2, <1>4, <2>1, <2>3 DEF Calm
  <2> QED
    BY <1>1, <2>4, CalmRounds
<1>9. CASE o.end = "forward"
  <2>1. PICK x : /\ o.sends = <<x>>
                 /\ \/ IsOpen(m) /\ x.type \in {"eof", "token"}
                    \/ IsClosing(m) /\ IsClosing(x)
    BY <1>1, <1>9 DEF TurnOK, Forwards
  <2>2. outbox'[r] = <<x>> /\ <<x>>[1] = x /\ Len(<<x>>) = 1 /\ \A i \in 1 .. Len(<<x>>) : i = 1
    BY <1>3, <2>1
  <2>3. \A i \in Sending(r)' : i = 1 /\ IsOpen(x)
    BY <2>2 DEF Sending
  <2>4. IsClosing(x) => ~IsOpen(x)
    BY DEF IsClosing, IsOpen
  <2>5. CASE IsClosing(m)
    <3>1. IsClosing(x)
      BY <1>1, <2>1, <2>5 DEF Turned
    <3>2. \A i : i \notin Sending(r)'
      BY <2>3, <2>4, <3>1
    <3>3. Ends(r)
      BY <1>6, <2>5
    <3>4. \A q \in Replica : Calm(q)
      BY <1>2, <1>4, <3>2, <3>3 DEF Calm
    <3> QED
      BY <1>1, <3>4, CalmRounds
  <2>6. CASE IsOpen(m)
    <3> SUFFICES ASSUME N > 1 PROVE RoundInv' /\ ClosedInv'
      BY DEF RoundInv, ClosedInv
    <3>1. /\ ~Ending
          /\ \A q \in Replica : Sending(q) = {} /\ \A n \in Waiting(q) : q = r /\ n = m
      BY <2>6, OpenTurn
    <3>2. \A q \in Replica : \A n : n \notin Waiting(q)'
      <4>1. \A n : n \notin Waiting(r)'
        BY <1>2, <1>9, <3>1
      <4>2. ASSUME NEW q \in Replica \ {r} PROVE \A n : n \notin Waiting(q)'
        BY <1>4, <3>1
      <4> QED
        BY <4>1, <4>2
    <3>3. \A q \in Replica : \A i \in Sending(q)' : q = r /\ i = 1 /\ IsOpen(x)
      <4>1. ASSUME NEW q \in Replica \ {r} PROVE \A i : i \notin Sending(q)'
        BY <1>4, <3>1
      <4> QED
        BY <2>3, <4>1
    <3>4. RoundInv'
      BY <3>2, <3>3 DEF RoundInv
    <3>5. Ending' => IsClosing(x)
      <4> SUFFICES ASSUME NEW q \in Replica, Ends(q)' PROVE IsClosing(x)
        BY DEF Ending
      <4>1. ~Ends(q) /\ ~Ends(r)
        BY <3>1 DEF Ending
      <4>2. q = r
        BY <1>4, <4>1
      <4>3. ~o.state.p2EOF
        BY <1>5, <1>6, <4>1
      <4>4. \A n \in Coming(r) : ~IsClosing(n)
        BY <4>1 DEF Ends
      <4>5. Drained(r) = {}
        BY <4>1 DEF Ends
      <4> QED
        BY <1>3, <1>9, <2>2, <4>2, <4>3, <4>4, <4>5 DEF Ends
    <3>6. ClosedInv'
      <4> SUFFICES ASSUME Ending', NEW q \in Replica PROVE (Waiting(q) = {} /\ Sending(q) = {})'
        BY DEF ClosedInv
      <4>1. ~IsOpen(x)
        BY <2>4, <3>5
      <4>2. \A i : i \notin Sending(q)'
        BY <3>3, <4>1
      <4> QED
        BY <3>2, <4>2
    <3> QED
      BY <3>4, <3>6
  <2> QED
    BY <2>1, <2>5, <2>6
<1> QED
  BY <1>1, <1>7, <1>8, <1>9

(* A closing token that is known after the turn was known, or is sent by it. *)
Sent(o, a) == \E i \in 1 .. Len(o.sends) : IsClosing(o.sends[i]) /\ o.sends[i].seq = a

LEMMA TurnClosed ==
  ASSUME OnceInv, NEW r \in Replica, NEW m, NEW s, NEW f, NEW o, NEW t, Handled(r, m, s, f, o, t), N > 1,
         NEW q \in Replica, NEW a, ClosedAs(q, a)'
  PROVE  ClosedAs(q, a) \/ (q = r /\ Sent(o, a))
<1>1. /\ IndInv /\ Turned(r, m, s, o, t) /\ TurnOK(r, m, s, f, o) /\ ClosedInv
  BY DEF OnceInv, EndInv, Handled
<1>2. PICK p : p = Successor(q)
  OBVIOUS
<1>3. p \in Replica /\ q \in Sender /\ q # Aggregator
  <2>1. q \in Sender /\ q # Aggregator
    BY ConstantsAssumption DEF Replica, Sender, Aggregator
  <2> QED
    BY <1>2, <2>1, SuccessorIs
<1>4. /\ tomb' = tomb /\ r \notin tomb /\ m \in Coming(r)
      /\ \A z \in Replica : Coming(z)' = Coming(z)
      /\ \A z \in Replica \ {r} : mem'[z] = mem[z] /\ outbox'[z] = outbox[z] /\ Saved(z)' = Saved(z)
      /\ mem'[r] = t /\ outbox'[r] = o.sends
      /\ Saved(r)' = IF o.end = "forward" THEN t ELSE Saved(r)
  BY <1>1 DEF Turned, Coming, Saved
<1>5. \/ \E n \in Coming(p)' : IsClosing(n) /\ n.sender = q /\ n.seq = a
      \/ \E i \in 1 .. Len(outbox'[q]) : IsClosing(outbox'[q][i]) /\ outbox'[q][i].seq = a
      \/ p \notin tomb' /\ mem'[p].p2EOF /\ mem'[p].coord[q] = a
      \/ p \notin tomb' /\ Saved(p)'.p2EOF /\ Saved(p)'.coord[q] = a
  BY <1>2 DEF ClosedAs
<1>6. CASE \E n \in Coming(p)' : IsClosing(n) /\ n.sender = q /\ n.seq = a
  BY <1>2, <1>3, <1>4, <1>6 DEF ClosedAs
<1>7. CASE \E i \in 1 .. Len(outbox'[q]) : IsClosing(outbox'[q][i]) /\ outbox'[q][i].seq = a
  <2>1. CASE q = r
    BY <1>4, <1>7, <2>1 DEF Sent
  <2>2. CASE q # r
    BY <1>4, <1>7, <2>2 DEF ClosedAs
  <2> QED
    BY <2>1, <2>2
(* What the handler knows comes from m, or it knew it. *)
<1>8. p = r /\ t.p2EOF /\ t.coord[q] = a => ClosedAs(q, a)
  <2> SUFFICES ASSUME p = r, t.p2EOF, t.coord[q] = a PROVE ClosedAs(q, a)
    OBVIOUS
  <2>1. s.p2EOF \/ IsClosing(m)
    BY <1>1 DEF TurnOK, Turned
  <2>2. a = IF q = m.sender THEN m.seq ELSE mem[r].coord[q]
    BY <1>1, <1>3 DEF Turned
  <2>3. CASE IsClosing(m)
    <3>1. m.sender = q
      BY <1>1, <1>2, <2>3, OnePredecessor DEF Turned
    <3> QED
      BY <1>2, <1>4, <2>2, <2>3, <3>1 DEF ClosedAs
  <2>4. CASE ~IsClosing(m)
    <3>1. s.p2EOF /\ mem[r].p2EOF
      BY <1>1, <2>1, <2>4 DEF Turned
    <3>2. ~IsOpen(m)
      <4> SUFFICES ASSUME IsOpen(m) PROVE FALSE
        OBVIOUS
      <4>1. ~Ending
        BY OpenTurn
      <4> QED
        BY <3>1, <4>1 DEF Ending, Ends
    <3>3. m.sender = Aggregator
      BY <1>1, <2>4, <3>2 DEF Turned
    <3>4. a = mem[r].coord[q]
      BY <1>3, <2>2, <3>3
    <3> QED
      BY <1>2, <1>4, <3>1, <3>4 DEF ClosedAs
  <2> QED
    BY <2>3, <2>4
<1>9. CASE p \notin tomb' /\ mem'[p].p2EOF /\ mem'[p].coord[q] = a
  <2>1. CASE p = r
    BY <1>4, <1>8, <1>9, <2>1
  <2>2. CASE p # r
    BY <1>2, <1>3, <1>4, <1>9, <2>2 DEF ClosedAs
  <2> QED
    BY <2>1, <2>2
<1>10. CASE p \notin tomb' /\ Saved(p)'.p2EOF /\ Saved(p)'.coord[q] = a
  <2>1. CASE p = r /\ o.end = "forward"
    BY <1>4, <1>8, <1>10, <2>1
  <2>2. CASE ~(p = r /\ o.end = "forward")
    <3>1. Saved(p)' = Saved(p)
      BY <1>3, <1>4, <2>2
    <3> QED
      BY <1>2, <1>4, <1>10, <3>1 DEF ClosedAs
  <2> QED
    BY <2>1, <2>2
<1> QED
  BY <1>5, <1>6, <1>7, <1>9, <1>10

(* The one that a turn sends is the one that was known, if one was. *)
LEMMA TurnSends ==
  ASSUME OnceInv, NEW r \in Replica, NEW m, NEW s, NEW f, NEW o, NEW t, Handled(r, m, s, f, o, t), N > 1,
         NEW a, Sent(o, a)
  PROVE  /\ AgainOK(r, a)'
         /\ \A b : ClosedAs(r, b) \/ Sent(o, b) => b = a
<1>1. /\ IndInv /\ Turned(r, m, s, o, t) /\ TurnOK(r, m, s, f, o) /\ CloseInv /\ MarksOK(r)
      /\ \A q \in Replica : MarksOK(q)
      /\ o.end \in {"checkpoint", "forward", "complete"} /\ f = file[r]
  BY DEF OnceInv, EndInv, Handled
<1>2. /\ tomb' = tomb /\ r \notin tomb /\ file' = file /\ ~AfterDrain(r)
      /\ Saved(r)' = IF o.end = "forward" THEN t ELSE Saved(r)
      /\ Saved(r).outSeq = s.outSeq /\ Saved(r).averagesEOF = s.averagesEOF /\ Saved(r).p2EOF = s.p2EOF
      /\ t.p2EOF = o.state.p2EOF
  BY <1>1 DEF Turned
<1>3. PICK i \in 1 .. Len(o.sends) : IsClosing(o.sends[i]) /\ o.sends[i].seq = a
  BY DEF Sent
<1>4. o.end # "checkpoint"
  BY <1>1, <1>3, EmptySeq DEF TurnOK
<1>5. CASE o.end = "forward"
  <2>1. PICK x : /\ o.sends = <<x>>
                 /\ \/ IsOpen(m) /\ x.type = "eof" /\ o.state.outSeq = s.outSeq
                    \/ IsOpen(m) /\ N > 1 /\ x.type = "token" /\ (x.closing => r = 0)
                    \/ IsClosing(m) /\ r # 0 /\ ~s.averagesEOF /\ o.state.p2EOF /\ IsClosing(x)
    BY <1>1, <1>5 DEF TurnOK, Forwards
  <2>2. <<x>>[1] = x /\ Len(<<x>>) = 1 /\ \A j \in 1 .. Len(<<x>>) : j = 1
    OBVIOUS
  <2>3. IsClosing(x) /\ x.seq = a
    BY <1>3, <2>1, <2>2
  <2>4. \A b : Sent(o, b) => b = a
    BY <2>1, <2>2, <2>3 DEF Sent
  <2>5. CASE IsOpen(m)
    <3>1. r = 0
      BY <1>1, <2>1, <2>3, <2>5 DEF IsClosing, Turned
    <3>2. \A b : ~ClosedAs(r, b)
      BY <1>1, <2>5, OpenTurn, ClosedEnds
    <3> QED
      BY <2>4, <3>1, <3>2 DEF AgainOK
  <2>6. CASE IsClosing(m)
    <3>1. r # 0 /\ ~s.averagesEOF /\ o.state.p2EOF
      BY <1>1, <2>1, <2>6 DEF Turned
    <3>2. ~s.p2EOF
      BY <2>6, FirstClosing
    <3>3. \A b : ~ClosedAs(r, b)
      <4> SUFFICES ASSUME NEW b, ClosedAs(r, b) PROVE FALSE
        OBVIOUS
      <4>1. AgainOK(r, b)
        BY <1>1 DEF CloseInv
      <4> QED
        BY <1>2, <3>1, <3>2, <4>1 DEF AgainOK
    <3>4. Saved(r)'.p2EOF
      BY <1>2, <1>5, <3>1
    <3> QED
      BY <2>4, <3>3, <3>4 DEF AgainOK
  <2> QED
    BY <2>1, <2>5, <2>6
<1>6. CASE o.end = "complete"
  <2>1. PICK c : c = ClosingAt(r, s.outSeq, f)
    OBVIOUS
  <2>2. \A j \in 1 .. Len(o.sends) : IsClosing(o.sends[j]) =>
           o.sends[j].seq = c /\ r # 0 /\ IsClosing(m) /\ s.averagesEOF
    BY <1>1, <1>6, <2>1 DEF TurnOK, Completes, IsClosing
  <2>3. a = c /\ r # 0 /\ IsClosing(m) /\ s.averagesEOF
    BY <1>3, <2>2
  <2>4. \A b : Sent(o, b) => b = a
    BY <2>2, <2>3 DEF Sent
  <2>5. ~s.p2EOF
    BY <2>3, FirstClosing
  <2>6. ASSUME NEW b, ClosedAs(r, b) PROVE b = a
    <3>1. AgainOK(r, b)
      BY <1>1, <2>6 DEF CloseInv
    <3>2. b = ClosingAt(r, Saved(r).outSeq, file[r])
      BY <1>2, <2>3, <2>5, <3>1 DEF AgainOK
    <3> QED
      BY <1>1, <1>2, <2>1, <2>3, <3>2
  <2>7. AgainOK(r, a)'
    <3>1. Saved(r)'.averagesEOF /\ Saved(r)'.outSeq = s.outSeq
      BY <1>2, <1>6, <2>3
    <3>2. ClosingAt(r, Saved(r).outSeq, file[r])' = ClosingAt(r, Saved(r)'.outSeq, file'[r])
      BY DEF ClosingAt, Rows, Drain, CountRows, PassingRecords, Passes
    <3>3. ClosingAt(r, Saved(r)'.outSeq, file'[r]) = a
      BY <1>1, <1>2, <2>1, <2>3, <3>1
    <3> QED
      BY <3>1, <3>2, <3>3 DEF AgainOK
  <2> QED
    BY <2>4, <2>6, <2>7
<1> QED
  BY <1>1, <1>4, <1>5, <1>6

LEMMA TurnCloses ==
  ASSUME OnceInv, NEW r \in Replica, NEW m, NEW s, NEW f, NEW o, NEW t, Handled(r, m, s, f, o, t)
  PROVE  CloseInv'
<1> SUFFICES ASSUME N > 1, NEW q \in Replica
             PROVE  /\ \A a, b : ClosedAs(q, a)' /\ ClosedAs(q, b)' => a = b
                    /\ \A a : ClosedAs(q, a)' => AgainOK(q, a)'
  BY DEF CloseInv
<1>1. CloseInv /\ \A p \in Replica : MarksOK(p)
  BY DEF OnceInv
<1>2. \A a : ClosedAs(q, a)' => ClosedAs(q, a) \/ (q = r /\ Sent(o, a))
  BY TurnClosed
<1>3. \A a : q = r /\ Sent(o, a) => AgainOK(q, a)' /\ \A b : ClosedAs(q, b) \/ Sent(o, b) => b = a
  BY TurnSends
<1>4. \A a : ClosedAs(q, a) => AgainOK(q, a)'
  BY <1>1, TurnSteady, AgainStays DEF CloseInv
<1>5. \A a, b : ClosedAs(q, a) /\ ClosedAs(q, b) => a = b
  BY <1>1 DEF CloseInv
<1>6. \A a, b : ClosedAs(q, a)' /\ ClosedAs(q, b)' => a = b
  BY <1>2, <1>3, <1>5
<1> QED
  BY <1>2, <1>3, <1>4, <1>6

(* No record of the file is drained twice. *)
LEMMA RowAtOnce ==
  ASSUME NEW f \in Seq(Batch), \A i, j \in 1 .. Len(f) : f[i] = f[j] => i = j
  PROVE  /\ \A i \in 1 .. Count(f) : RowAt(f, i) \in ToSet(f)
         /\ \A i, k \in 1 .. Count(f) : RowAt(f, i) = RowAt(f, k) => i = k
<1>1. PICK W : W = Wanted(f)
  OBVIOUS
<1>2. PICK c : c = Cardinality(W)
  OBVIOUS
<1>3. W \in SUBSET (1 .. Len(f)) /\ W \in SUBSET Int /\ Count(f) = c
  BY <1>1, <1>2 DEF Wanted, Count
<1>4. IsFiniteSet(W)
  <2>1. IsFiniteSet(1 .. Len(f))
    BY LenProperties, FS_Interval
  <2> QED
    BY <1>3, <2>1, FS_Subset
<1>5. \A i \in 1 .. c : Nth(W, i) \in W
  BY <1>2, <1>3, <1>4, NthIs
<1>6. \A p \in W : \E i \in 1 .. c : Nth(W, i) = p
  BY <1>2, <1>3, <1>4, PlaceOf
<1>7. PICK nth : nth = [i \in 1 .. c |-> Nth(W, i)]
  OBVIOUS
<1>8. nth \in Surjection(1 .. c, W)
  BY <1>5, <1>6, <1>7 DEF Surjection
<1>9. IsFiniteSet(1 .. c) /\ Cardinality(1 .. c) = c
  <2>1. c \in Nat
    BY <1>2, <1>4, FS_CardinalityType
  <2> QED
    BY <2>1, FS_Interval
<1>10. nth \in Injection(1 .. c, W)
  BY <1>2, <1>8, <1>9, FS_Surjection
<1>11. \A i, k \in 1 .. c : nth[i] = nth[k] => i = k
  BY <1>10 DEF Injection, IsInjective
<1>12. \A i \in 1 .. c : nth[i] \in 1 .. Len(f) /\ RowAt(f, i) = f[nth[i]]
  BY <1>1, <1>3, <1>5, <1>7 DEF RowAt
<1>13. \A i \in 1 .. c : RowAt(f, i) \in ToSet(f)
  BY <1>12 DEF ToSet
<1>14. \A i, k \in 1 .. c : RowAt(f, i) = RowAt(f, k) => i = k
  BY <1>11, <1>12
<1> QED
  BY <1>3, <1>13, <1>14

(* A drain publishes one row for a batch, the one that is in if one is.      *)
LEMMA DrainNext ==
  ASSUME Unharmed, OnceInv, NEW r \in Replica, NEW m, NEW s, NEW f, NEW o, NEW t, Handled(r, m, s, f, o, t),
         o.end = "complete", NEW j \in 1 .. Len(o.sends), IsRow(o.sends[j])
  PROVE  NextRowOK(r, o.sends, j)'
<1>1. PICK q : q = o.sends
  OBVIOUS
<1>2. PICK n : n = s.outSeq
  OBVIOUS
<1>3. /\ EndInv /\ IndInv /\ TypeOK /\ RowsInv /\ Turned(r, m, s, o, t) /\ f = file[r] /\ DrainSays(r, n, f, q)
  BY <1>1, <1>2 DEF OnceInv, EndInv, IndInv, Handled
<1>4. /\ r \notin tomb /\ file' = file /\ Issued' = Issued /\ tomb' = tomb /\ ~AfterDrain(r)
      /\ Saved(r)' = Saved(r) /\ Saved(r).outSeq = n
  BY <1>2, <1>3, IssuedStays DEF Turned
<1>5. Saved(r) \in State /\ mem[r] \in State /\ f \in Seq(Batch) /\ ReplicaOK(r) /\ StateOK(r, mem[r])
  BY <1>3, FieldsAre, MarksAre DEF EndInv
<1>6. n \in Nat
  BY <1>4, <1>5 DEF State
<1>7. FileOK(mem[r], disk[r].state, f)
  BY <1>3, <1>4, <1>5 DEF ReplicaOK
<1>8. /\ \A i \in 1 .. Count(f) : RowAt(f, i) \in ToSet(f)
      /\ \A i, k \in 1 .. Count(f) : RowAt(f, i) = RowAt(f, k) => i = k
  <2>1. \A i, k \in 1 .. Len(f) : f[i] = f[k] => i = k
    BY <1>7 DEF FileOK
  <2> QED
    BY <1>5, <2>1, RowAtOnce
<1>9. \A b \in ToSet(f) : b \in Batch /\ home[b] = r
  BY <1>5, <1>7 DEF FileOK, ToSet, StateOK, Own
<1>10. \A c, i : IsRow(Row(r, i, c)) /\ Row(r, i, c).seq = i /\ Row(r, i, c).batch = c
  BY DEF Row, IsRow
<1>11. /\ Rising(q)
       /\ \A k \in 1 .. Len(q) : IsRow(q[k]) => \E i \in 1 .. Count(f) : q[k] = Row(r, n + i, RowAt(f, i))
  BY <1>3 DEF DrainSays
<1>12. j \in 1 .. Len(q) /\ IsRow(q[j])
  BY <1>1
<1>13. PICK i \in 1 .. Count(f) : q[j] = Row(r, n + i, RowAt(f, i))
  BY <1>11, <1>12
<1>14. q[j].batch = RowAt(f, i) /\ q[j].seq = n + i /\ RowAt(f, i) \in ToSet(f)
  BY <1>8, <1>10, <1>13
<1>15. home[q[j].batch] = r /\ q[j].seq > 0
  BY <1>6, <1>9, <1>14
<1>16. FromFile(r, q[j])'
  <2>1. PICK x : x = q[j]
    OBVIOUS
  <2>2. FromFile(r, x)
    BY <1>3, <1>4, <1>13, <2>1 DEF FromFile
  <2>3. FromFile(r, x)'
    BY <1>4, <2>2, FromFileStays
  <2> QED
    BY <2>1, <2>3 DEF FromFile
<1>17. ASSUME NEW x \in Issued, IsRow(x), x.batch = q[j].batch PROVE x = q[j]
  <2>1. RowOK(x) /\ x.seq \in Nat /\ home[x.batch] = r
    BY <1>3, <1>15, <1>17, RowsAre DEF RowsInv
  <2>2. x.batch \in ToSet(file[r])
    BY <1>3, <1>14, <1>17
  <2>3. FromFile(r, x)
    BY <1>4, <2>1, <2>2 DEF RowOK
  <2>4. PICK k \in 1 .. Count(f) : x = Row(r, n + k, RowAt(f, k))
    BY <1>3, <1>4, <2>3 DEF FromFile
  <2>5. RowAt(f, k) = RowAt(f, i)
    BY <1>10, <1>14, <1>17, <2>4
  <2> QED
    BY <1>8, <1>13, <2>4, <2>5
<1>18. ASSUME NEW k \in 1 .. Len(q), IsRow(q[k]), q[k].batch = q[j].batch PROVE j = k
  <2>1. PICK l \in 1 .. Count(f) : q[k] = Row(r, n + l, RowAt(f, l))
    BY <1>11, <1>18
  <2>2. RowAt(f, l) = RowAt(f, i)
    BY <1>10, <1>14, <1>18, <2>1
  <2>3. l = i
    BY <1>8, <2>2
  <2>4. q[k].seq = n + i /\ q[j].seq = n + i /\ i \in Nat
    <3>1. i \in Nat
      BY <1>13
    <3> QED
      BY <1>10, <1>14, <2>1, <2>3, <3>1
  <2>5. ~(q[k].seq < q[j].seq) /\ ~(q[j].seq < q[k].seq)
    BY <1>6, <2>4
  <2>6. ~(j < k) /\ ~(k < j)
    BY <1>11, <1>12, <1>18, <2>5 DEF Rising
  <2>7. j \in Int /\ k \in Int
    BY <1>12, <1>18
  <2> QED
    BY <2>6, <2>7
<1>19. NextRowOK(r, q, j)'
  BY <1>4, <1>15, <1>16, <1>17, <1>18 DEF NextRowOK
<1> QED
  BY <1>1, <1>19

LEMMA TurnRows ==
  ASSUME Unharmed, OnceInv, NEW r \in Replica, NEW m, NEW s, NEW f, NEW o, NEW t, Handled(r, m, s, f, o, t)
  PROVE  RowsInv'
<1>1. /\ EndInv /\ IndInv /\ TypeOK /\ RowsInv /\ Turned(r, m, s, o, t) /\ TurnOK(r, m, s, f, o)
      /\ o.end \in {"checkpoint", "forward", "complete"}
  BY DEF OnceInv, EndInv, IndInv, Handled
<1>2. \A q \in Replica : Steady(q)
  BY TurnSteady
<1>3. /\ outbox'[r] = o.sends /\ Issued' = Issued /\ tomb' = tomb
      /\ \A q \in Replica \ {r} : outbox'[q] = outbox[q]
  BY <1>1, IssuedStays DEF Turned
<1>4. CASE o.end # "complete"
  <2>1. \A i \in 1 .. Len(o.sends) : ~IsRow(o.sends[i])
    <3>1. CASE o.end = "checkpoint"
      BY <1>1, <3>1, EmptySeq DEF TurnOK
    <3>2. CASE o.end = "forward"
      <4>1. PICK x : o.sends = <<x>> /\ x.type \in {"eof", "token"}
        BY <1>1, <3>2 DEF TurnOK, Forwards, IsClosing
      <4>2. <<x>>[1] = x /\ \A i \in 1 .. Len(<<x>>) : i = 1
        OBVIOUS
      <4> QED
        BY <4>1, <4>2 DEF IsRow
    <3> QED
      BY <1>1, <1>4, <3>1, <3>2
  <2>2. \A i \in 1 .. Len(outbox'[r]) : ~IsRow(outbox'[r][i])
    BY <1>3, <2>1
  <2> QED
    BY <1>1, <1>2, <1>3, <2>2, RowsStay
<1>5. CASE o.end = "complete"
  <2>1. \A x \in Issued' : IsRow(x) => RowOK(x)'
    BY <1>1, <1>2, <1>3, RowStays DEF RowsInv
  <2>2. ASSUME NEW p \in Replica, NEW i \in 1 .. Len(outbox'[p]), IsRow(outbox'[p][i])
        PROVE  NextRowOK(p, outbox[p], i)'
    <3>1. PICK q : q = outbox'[p]
      OBVIOUS
    <3>2. CASE p = r
      <4>1. q = o.sends
        BY <1>3, <3>1, <3>2
      <4>2. NextRowOK(r, q, i)'
        BY <1>5, <2>2, <3>1, <4>1, DrainNext
      <4> QED
        BY <3>1, <3>2, <4>2 DEF NextRowOK
    <3>3. CASE p # r
      <4>1. outbox[p] = q
        BY <1>3, <3>1, <3>3
      <4>2. NextRowOK(p, q, i)
        BY <1>1, <2>2, <3>1, <4>1 DEF RowsInv
      <4>3. phase[p] = "complete"
        BY <1>1, <2>2, <3>1, <4>1 DEF EndInv, SendsOK, SendOK
      <4>4. p \notin tomb
        BY <1>1, <4>3, FieldsAre DEF ReplicaOK
      <4>5. NextRowOK(p, q, i)'
        BY <1>2, <1>3, <4>2, <4>3, <4>4, NextStays
      <4> QED
        BY <3>1, <4>5 DEF NextRowOK
    <3> QED
      BY <3>2, <3>3
  <2>3. \A x, y \in Issued' : IsRow(x) /\ IsRow(y) /\ x.batch = y.batch => x = y
    BY <1>1, <1>3 DEF RowsInv
  <2> QED
    BY <2>1, <2>2, <2>3 DEF RowsInv
<1> QED
  BY <1>4, <1>5

LEMMA TurnOnce ==
  ASSUME Unharmed, OnceInv, EndInv', NEW r \in Replica, NEW m \in Coordination,
         NEW type, Accept(r, m, type), type \in {"eof", "token"},
         NEW s, s.coord = mem[r].coord, s.outSeq = mem[r].outSeq,
         s.p2EOF = mem[r].p2EOF, s.averagesEOF = mem[r].averagesEOF,
         NEW f, f = file[r], NEW o, GoodOutcome(s, o), EndsWell(r, s, f, o), TurnOK(r, m, s, f, o), Apply(r, m, o)
  PROVE  OnceInv'
<1>1. PICK t : t = [o.state EXCEPT !.coord[m.sender] = m.seq]
  OBVIOUS
<1>2. EndInv
  BY DEF OnceInv
<1>3. o.state \in State /\ o.end \in {"checkpoint", "forward", "complete"} /\ o.state.coord = s.coord
  BY DEF GoodOutcome, TurnOK
<1>4. Turned(r, m, s, o, t)
  BY <1>1, <1>2, <1>3, TurnIs
<1>5. Handled(r, m, s, f, o, t)
  BY <1>3, <1>4 DEF Handled, EndsWell
<1>6. RoundInv' /\ ClosedInv' /\ CloseInv' /\ RowsInv' /\ MarksOK(r)'
  BY <1>5, TurnMarks, TurnRounds, TurnCloses, TurnRows
<1>7. ASSUME NEW q \in Replica \ {r} PROVE MarksOK(q)'
  <2>1. MarksOK(q)
    BY DEF OnceInv
  <2>2. /\ mem'[q] = mem[q] /\ phase'[q] = phase[q] /\ inbox'[q] = inbox[q]
        /\ Saved(q)' = Saved(q) /\ Drained(q)' = Drained(q) /\ tomb' = tomb
    BY <1>4 DEF Turned, Saved, Drained
  <2> QED
    BY <2>1, <2>2 DEF MarksOK
<1> QED
  BY <1>6, <1>7 DEF OnceInv

LEMMA HandleEOFOnce ==
  ASSUME Unharmed, OnceInv, NEW r \in Replica, NEW m, HandleEOF(r, m)
  PROVE  OnceInv'
<1>1. PICK s : s = [mem[r] EXCEPT !.cached = m]
  OBVIOUS
<1>2. PICK f : f = file[r]
  OBVIOUS
<1>3. PICK o : o = IF m.sender = Aggregator THEN AveragesEnd(r, s, f) ELSE TransactionsEOF(s, f)
  OBVIOUS
<1>4. EndInv /\ EndInv'
  BY HandleEOFEnd DEF OnceInv
<1>5. /\ Accept(r, m, "eof") /\ Apply(r, m, o) /\ m \in Coordination /\ m.type = "eof"
      /\ m.sender = Aggregator \/ r = 0
      /\ s \in State /\ s.outSeq = mem[r].outSeq /\ s.coord = mem[r].coord
      /\ s.p2EOF = mem[r].p2EOF /\ s.averagesEOF = mem[r].averagesEOF
      /\ f \in Seq(Batch) /\ Sound(r, s, f)
      /\ GoodOutcome(s, o) /\ EndsWell(r, s, f, o)
  BY <1>1, <1>2, <1>3, <1>4, HandleEOFIs
<1>6. s.records = Len(f) /\ (s.averagesEOF => s.avg)
  BY <1>5 DEF Sound
<1>7. TurnOK(r, m, s, f, o)
  <2>1. CASE m.sender = Aggregator
    <3>1. TurnOK(r, m, s, f, AveragesEnd(r, s, f))
      BY <1>5, <1>6, <2>1, AveragesEndTurn
    <3> QED
      BY <1>3, <2>1, <3>1
  <2>2. CASE m.sender # Aggregator
    <3>1. r = 0 /\ TurnOK(0, m, s, f, TransactionsEOF(s, f))
      BY <1>5, <1>6, <2>2, TransactionsEOFTurn
    <3> QED
      BY <1>3, <2>2, <3>1
  <2> QED
    BY <2>1, <2>2
<1> QED
  BY <1>2, <1>4, <1>5, <1>7, TurnOnce

LEMMA HandleTokenOnce ==
  ASSUME Unharmed, OnceInv, NEW r \in Replica, NEW m, HandleToken(r, m)
  PROVE  OnceInv'
<1>1. PICK s : s = mem[r]
  OBVIOUS
<1>2. PICK f : f = file[r]
  OBVIOUS
<1>3. PICK o : o = RingToken(r, s, f, m)
  OBVIOUS
<1>4. EndInv /\ EndInv'
  BY HandleTokenEnd DEF OnceInv
<1>5. /\ Accept(r, m, "token") /\ Apply(r, m, o) /\ m \in Tokens /\ m \in Coordination
      /\ s \in State /\ f \in Seq(Batch) /\ Sound(r, s, f)
      /\ GoodOutcome(s, o) /\ EndsWell(r, s, f, o)
  BY <1>1, <1>2, <1>3, <1>4, HandleTokenIs
<1>6. s.records = Len(f) /\ (s.averagesEOF => s.avg)
  BY <1>5 DEF Sound
<1>7. TurnOK(r, m, s, f, o)
  BY <1>3, <1>5, <1>6, RingTokenTurn
<1> QED
  BY <1>1, <1>2, <1>4, <1>5, <1>7, TurnOnce

-----------------------------------------------------------------------------
(* A message that is published *)

(* Replica r publishes m, the first of q, and rest is left.                  *)
Published(r, m, q, rest) ==
  /\ q = outbox[r] /\ q[1] = m /\ 1 \in 1 .. Len(q) /\ m \in Sendable
  /\ \A i \in 1 .. Len(rest) : i \in Int /\ i + 1 \in 1 .. Len(q) /\ i + 1 # 1 /\ rest[i] = q[i + 1]
  /\ outbox'[r] = rest /\ \A p \in Replica \ {r} : outbox'[p] = outbox[p]
  /\ UNCHANGED <<pending, mem, disk, tomb, unconfirmed, phase>>
  /\ \A p \in Replica : \A n \in Coming(p)' :
       n \in Coming(p) \/ (n = m /\ p = IF m.type = "token" THEN Successor(r) ELSE r)
  /\ \A p \in Replica : inbox[p] \subseteq inbox'[p]
  /\ m.type = "token" => m.sender = r
  /\ IsRow(m) \/ m.type = "outeof" => m.sender = r /\ phase[r] = "complete" /\ out' = Accepted(m)
  /\ ~IsRow(m) => \A o \in out' \ out : ~IsRow(o)
  /\ out \subseteq out'
  /\ \A p \in Replica : file'[p] = file[p] \/ (p = r /\ AfterDrain(r)' /\ file'[r] = <<>>)
  /\ IsRow(m) => file' = file

LEMMA PublishIs ==
  ASSUME EndInv, NEW r \in Replica, Publish(r), NEW q, q = outbox[r], NEW m, m = Head(q), NEW rest, rest = Tail(q)
  PROVE  Published(r, m, q, rest)
<1>1. Parts(r) /\ IndInv /\ TypeOK
  BY DEF EndInv, Parts, IndInv
<1>2. q \in Seq(Sendable) /\ q # <<>>
  BY <1>1, FieldsAre DEF Publish
<1>3. /\ m = q[1] /\ 1 \in 1 .. Len(q) /\ rest \in Seq(Sendable) /\ Len(q) \in Nat
      /\ \A i \in 1 .. Len(rest) : i + 1 \in 1 .. Len(q) /\ rest[i] = q[i + 1]
  BY <1>2, TailOfSends
<1>4. \A i \in 1 .. Len(rest) : i \in Int /\ i + 1 # 1
  OBVIOUS
<1>5. m \in Sendable
  BY <1>2, <1>3, ElementOfSeq
<1>6. /\ Send(r, m) /\ UNCHANGED <<pending, mem, disk, tomb, unconfirmed, phase>>
      /\ outbox'[r] = rest /\ \A p \in Replica \ {r} : outbox'[p] = outbox[p]
  BY <1>1 DEF Publish, TypeOK
<1>7. SendOK(r, phase[r], q, 1)
  BY <1>1, <1>3 DEF Parts, SendsOK
<1>8. /\ m.type = "token" => /\ inbox' = [inbox EXCEPT ![Successor(r)] = @ \cup {m}]
                             /\ file' = file /\ out' = out /\ m \in Tokens
      /\ m.type = "eof" => inbox' = [inbox EXCEPT ![r] = @ \cup {m}] /\ file' = file /\ out' = out
      /\ m.type = "remove" => inbox' = inbox /\ file' = [file EXCEPT ![r] = <<>>] /\ out' = out
      /\ m.type \in {"row", "outeof"} => inbox' = inbox /\ file' = file /\ out' = Accepted(m) /\ unconfirmed[r] = {}
      /\ m.type \in {"token", "eof", "remove", "row", "outeof"}
  BY <1>1, <1>5, <1>6, SendIs
<1>9. /\ m.type = "token" => m.sender = r
      /\ m.type \in {"row", "outeof"} => m.sender = r /\ phase[r] = "complete"
  BY <1>3, <1>7 DEF SendOK, IsRow
<1>10. \A p \in Replica : /\ inbox[p] \subseteq inbox'[p]
                          /\ \A n \in inbox'[p] : n \in inbox[p] \/ (n = m /\ p = IF m.type = "token" THEN Successor(r) ELSE r)
  BY <1>1, <1>8 DEF TypeOK
<1>11. \A p \in Replica : \A n \in Coming(p)' :
         n \in Coming(p) \/ (n = m /\ p = IF m.type = "token" THEN Successor(r) ELSE r)
  BY <1>6, <1>10 DEF Coming
<1>12. m.type = "remove" => AfterDrain(r)' /\ file'[r] = <<>> /\ \A p \in Replica \ {r} : file'[p] = file[p]
  <2>1. m.type = "remove" => m = Removal
    BY <1>5 DEF Sendable, Coordination, EOFs, Tokens, Outputs
  <2>2. ReplicaOK(r)
    BY <1>1, FieldsAre
  <2>3. m = Removal => phase[r] = "complete" /\ mem[r].records > 0
    BY <1>3, <2>2 DEF ReplicaOK, NoRemoval
  <2>4. m.type = "remove" => file'[r] = <<>> /\ \A p \in Replica \ {r} : file'[p] = file[p]
    BY <1>1, <1>8 DEF TypeOK
  <2> QED
    BY <1>6, <2>1, <2>3, <2>4 DEF AfterDrain
<1>13. \A p \in Replica : file'[p] = file[p] \/ (p = r /\ AfterDrain(r)' /\ file'[r] = <<>>)
  BY <1>8, <1>12
<1>14. out \subseteq out' /\ (~IsRow(m) => \A o \in out' \ out : ~IsRow(o))
  BY <1>8 DEF Accepted, IsRow
<1>15. IsRow(m) \/ m.type = "outeof" => m.sender = r /\ phase[r] = "complete" /\ out' = Accepted(m)
  BY <1>8, <1>9 DEF IsRow
<1>16. IsRow(m) => file' = file
  BY <1>8 DEF IsRow
<1> QED
  BY <1>3, <1>4, <1>5, <1>6, <1>9, <1>10, <1>11, <1>13, <1>14, <1>15, <1>16 DEF Published

LEMMA PublishSteady ==
  ASSUME EndInv, NEW r \in Replica, NEW m, NEW q, NEW rest, Published(r, m, q, rest)
  PROVE  /\ \A p \in Replica : Steady(p) /\ Saved(p)' = Saved(p)
         /\ \A p \in Replica : Drained(p)' = Drained(p) \/ (p = r /\ phase[r] = "complete")
<1>1. UNCHANGED <<mem, disk, tomb, phase>>
  BY DEF Published
<1>2. \A p \in Replica : Saved(p)' = Saved(p)
  BY <1>1 DEF Saved
<1>3. \A p \in Replica : file'[p] = file[p] \/ (AfterDrain(p)' /\ file'[p] = <<>>)
  BY DEF Published
<1>4. \A p \in Replica : AfterDrain(p) => AfterDrain(p)'
  BY <1>1, <1>3 DEF AfterDrain
<1>5. \A p \in Replica : Steady(p)
  BY <1>1, <1>2, <1>3, <1>4 DEF Steady
<1>6. ASSUME NEW p \in Replica PROVE Drained(p)' = Drained(p) \/ (p = r /\ phase[r] = "complete")
  <2>1. CASE IsRow(m)
    BY <2>1 DEF Published, Accepted, Drained
  <2>2. CASE ~IsRow(m)
    BY <2>2 DEF Published, Drained
  <2> QED
    BY <2>1, <2>2
<1> QED
  BY <1>2, <1>5, <1>6

LEMMA PublishMarks ==
  ASSUME OnceInv, NEW r \in Replica, NEW m, NEW q, NEW rest, Published(r, m, q, rest)
  PROVE  \A p \in Replica : MarksOK(p)'
<1> SUFFICES ASSUME NEW p \in Replica PROVE MarksOK(p)'
  OBVIOUS
<1>1. MarksOK(p)
  BY DEF OnceInv
<1>2. Saved(p)' = Saved(p) /\ (Drained(p)' = Drained(p) \/ phase[p] = "complete")
  BY PublishSteady DEF OnceInv
<1>3. UNCHANGED <<mem, tomb, phase>> /\ inbox[p] \subseteq inbox'[p]
  BY DEF Published
<1> QED
  BY <1>1, <1>2, <1>3 DEF MarksOK

LEMMA PublishRounds ==
  ASSUME OnceInv, NEW r \in Replica, NEW m, NEW q, NEW rest, Published(r, m, q, rest), N > 1
  PROVE  RoundInv' /\ ClosedInv'
<1>1. EndInv /\ RoundInv /\ ClosedInv
  BY DEF OnceInv
<1>2. PICK d : d = IF m.type = "token" THEN Successor(r) ELSE r
  OBVIOUS
<1>3. \A p \in Replica : \A n \in Coming(p)' : n \in Coming(p) \/ (n = m /\ p = d)
  BY <1>2 DEF Published
<1>4. UNCHANGED <<mem, disk, tomb, phase>> /\ \A p \in Replica : Saved(p)' = Saved(p)
  BY <1>1, PublishSteady DEF Published
<1>5. \A p \in Replica : \A n \in Waiting(p)' : n \in Waiting(p) \/ (n = m /\ p = d /\ IsOpen(m))
  BY <1>3, <1>4 DEF Waiting
<1>6. /\ \A i \in Sending(r)' : i \in Int /\ i + 1 \in Sending(r) /\ i + 1 # 1
      /\ \A p \in Replica \ {r} : Sending(p)' = Sending(p)
      /\ IsOpen(m) => 1 \in Sending(r)
  BY DEF Published, Sending
<1>7. Ending' => Ending
  <2> SUFFICES ASSUME NEW p \in Replica, Ends(p)' PROVE Ending
    BY DEF Ending
  <2>1. IsClosing(m) => Ends(r)
    BY DEF Published, Ends
  <2>2. CASE \E n \in Coming(p)' : IsClosing(n)
    BY <1>3, <2>1, <2>2 DEF Ending, Ends
  <2>3. CASE \E i \in 1 .. Len(outbox'[p]) : IsClosing(outbox'[p][i])
    <3>1. CASE p = r
      <4>1. PICK i \in 1 .. Len(rest) : IsClosing(rest[i])
        BY <2>3, <3>1 DEF Published
      <4>2. i + 1 \in 1 .. Len(outbox[r]) /\ IsClosing(outbox[r][i + 1])
        BY <4>1 DEF Published
      <4> QED
        BY <4>2 DEF Ending, Ends
    <3>2. CASE p # r
      BY <2>3, <3>2 DEF Published, Ending, Ends
    <3> QED
      BY <3>1, <3>2
  <2>4. CASE Drained(p)' # {}
    BY <1>1, <2>4, PublishSteady DEF Ending, Ends
  <2>5. CASE p \in tomb' \/ phase'[p] = "complete" \/ mem'[p].p2EOF
    BY <1>4, <2>5 DEF Ending, Ends
  <2> QED
    BY <2>2, <2>3, <2>4, <2>5 DEF Ends
<1>8. CASE IsOpen(m)
  <2>1. \A p \in Replica : \A n : n \notin Waiting(p)
    BY <1>1, <1>6, <1>8 DEF RoundInv
  <2>2. \A p \in Replica : \A i \in Sending(p) : p = r /\ i = 1
    BY <1>1, <1>6, <1>8 DEF RoundInv
  <2>3. \A p \in Replica : \A n \in Waiting(p)' : n = m /\ p = d
    BY <1>5, <2>1
  <2>4. \A p \in Replica : \A i : i \notin Sending(p)'
    BY <1>6, <2>2
  <2>5. RoundInv'
    BY <2>3, <2>4 DEF RoundInv
  <2>6. ~Ending
    BY <1>1, <1>6, <1>8 DEF ClosedInv
  <2> QED
    BY <1>7, <2>5, <2>6 DEF ClosedInv
<1>9. CASE ~IsOpen(m)
  <2>1. \A p \in Replica : \A n \in Waiting(p)' : n \in Waiting(p)
    BY <1>5, <1>9
  <2>2. ASSUME NEW p \in Replica, NEW i \in Sending(p)'
        PROVE  Sending(p) # {}
    BY <1>6, <2>2
  <2>3. ASSUME NEW p \in Replica, NEW z \in Replica, NEW i \in Sending(p)', NEW j \in Sending(z)'
        PROVE  p = z /\ i = j
    <3>1. p = z
      BY <1>1, <2>2, <2>3 DEF RoundInv
    <3>2. CASE p = r
      <4>1. i \in Int /\ j \in Int /\ i + 1 \in Sending(r) /\ j + 1 \in Sending(r)
        BY <1>6, <2>3, <3>1, <3>2
      <4>2. PICK x : x = i + 1
        OBVIOUS
      <4>3. PICK y : y = j + 1
        OBVIOUS
      <4>4. x = y
        BY <1>1, <4>1, <4>2, <4>3 DEF RoundInv
      <4> QED
        BY <3>1, <4>1, <4>2, <4>3, <4>4
    <3>3. CASE p # r
      BY <1>1, <1>6, <2>3, <3>1, <3>3 DEF RoundInv
    <3> QED
      BY <3>1, <3>2, <3>3
  <2>4. RoundInv'
    <3> SUFFICES ASSUME NEW p \in Replica, NEW z \in Replica
                 PROVE  /\ \A n \in Waiting(p)', k \in Waiting(z)' : p = z /\ n = k
                        /\ \A i \in Sending(p)', j \in Sending(z)' : p = z /\ i = j
                        /\ Waiting(p)' = {} \/ Sending(z)' = {}
      BY DEF RoundInv
    <3>1. \A n \in Waiting(p)', k \in Waiting(z)' : p = z /\ n = k
      BY <1>1, <2>1 DEF RoundInv
    <3>2. Waiting(p) = {} \/ Sending(z) = {}
      BY <1>1 DEF RoundInv
    <3>3. Waiting(p)' = {} \/ Sending(z)' = {}
      BY <2>1, <2>2, <3>2
    <3> QED
      BY <2>3, <3>1, <3>3
  <2>5. ClosedInv'
    <3> SUFFICES ASSUME Ending', NEW p \in Replica PROVE (Waiting(p) = {} /\ Sending(p) = {})'
      BY DEF ClosedInv
    <3>1. Waiting(p) = {} /\ Sending(p) = {}
      BY <1>1, <1>7 DEF ClosedInv
    <3> QED
      BY <2>1, <2>2, <3>1
  <2> QED
    BY <2>4, <2>5
<1> QED
  BY <1>8, <1>9

LEMMA PublishCloses ==
  ASSUME OnceInv, NEW r \in Replica, NEW m, NEW q, NEW rest, Published(r, m, q, rest)
  PROVE  CloseInv'
<1> SUFFICES ASSUME N > 1, NEW p \in Replica
             PROVE  /\ \A a, b : ClosedAs(p, a)' /\ ClosedAs(p, b)' => a = b
                    /\ \A a : ClosedAs(p, a)' => AgainOK(p, a)'
  BY DEF CloseInv
<1>1. EndInv /\ CloseInv /\ \A s \in Replica : MarksOK(s)
  BY DEF OnceInv
<1>2. PICK s : s = Successor(p)
  OBVIOUS
<1>3. s \in Replica /\ Saved(s)' = Saved(s) /\ UNCHANGED <<mem, tomb>>
  BY <1>1, <1>2, PublishSteady, SuccessorIs DEF Published
<1>4. ASSUME NEW a, ClosedAs(p, a)' PROVE ClosedAs(p, a)
  <2>1. \/ \E n \in Coming(s)' : IsClosing(n) /\ n.sender = p /\ n.seq = a
        \/ \E i \in 1 .. Len(outbox'[p]) : IsClosing(outbox'[p][i]) /\ outbox'[p][i].seq = a
        \/ s \notin tomb' /\ mem'[s].p2EOF /\ mem'[s].coord[p] = a
        \/ s \notin tomb' /\ Saved(s)'.p2EOF /\ Saved(s)'.coord[p] = a
    BY <1>2, <1>4 DEF ClosedAs
  <2>2. CASE \E n \in Coming(s)' : IsClosing(n) /\ n.sender = p /\ n.seq = a
    <3>1. PICK n \in Coming(s)' : IsClosing(n) /\ n.sender = p /\ n.seq = a
      BY <2>2
    <3>2. CASE n \in Coming(s)
      BY <1>2, <3>1, <3>2 DEF ClosedAs
    <3>3. CASE n \notin Coming(s)
      <4>1. n = m
        BY <1>3, <3>1, <3>3 DEF Published
      <4>2. p = r /\ m = outbox[r][1] /\ 1 \in 1 .. Len(outbox[r])
        BY <3>1, <4>1 DEF Published, IsClosing
      <4> QED
        BY <3>1, <4>1, <4>2 DEF ClosedAs
    <3> QED
      BY <3>2, <3>3
  <2>3. CASE \E i \in 1 .. Len(outbox'[p]) : IsClosing(outbox'[p][i]) /\ outbox'[p][i].seq = a
    <3>1. CASE p = r
      BY <2>3, <3>1 DEF Published, ClosedAs
    <3>2. CASE p # r
      BY <2>3, <3>2 DEF Published, ClosedAs
    <3> QED
      BY <3>1, <3>2
  <2> QED
    BY <1>2, <1>3, <2>1, <2>2, <2>3 DEF ClosedAs
<1>5. \A a : ClosedAs(p, a) => AgainOK(p, a)'
  BY <1>1, PublishSteady, AgainStays DEF CloseInv
<1> QED
  BY <1>1, <1>4, <1>5 DEF CloseInv

LEMMA PublishRows ==
  ASSUME OnceInv, NEW r \in Replica, NEW m, NEW q, NEW rest, Published(r, m, q, rest)
  PROVE  RowsInv'
<1>1. EndInv /\ IndInv /\ TypeOK /\ RowsInv
  BY DEF OnceInv, EndInv, IndInv
<1>2. \A p \in Replica : Steady(p)
  BY <1>1, PublishSteady
<1>3. /\ q = outbox[r] /\ q[1] = m /\ 1 \in 1 .. Len(q) /\ tomb' = tomb /\ Issued \subseteq Issued' /\ Issued' \ Issued \subseteq out' \ out
      /\ \A i \in 1 .. Len(rest) : i \in Int /\ i + 1 \in 1 .. Len(q) /\ i + 1 # 1 /\ rest[i] = q[i + 1]
      /\ outbox'[r] = rest /\ \A p \in Replica \ {r} : outbox'[p] = outbox[p]
  BY DEF Published, Issued
<1>4. IsRow(m) => NextRowOK(r, q, 1) /\ out' = Accepted(m) /\ m.sender = r /\ phase[r] = "complete" /\ r \notin tomb
  BY <1>1, <1>3, FieldsAre DEF Published, RowsInv, ReplicaOK
(* What is issued is m, and no row of its batch was. *)
<1>5. \A o \in Issued' \ Issued : IsRow(o) => o = m /\ IsRow(m)
  <2>1. CASE IsRow(m)
    BY <1>3, <1>4, <2>1 DEF Accepted
  <2>2. CASE ~IsRow(m)
    BY <1>3, <2>2 DEF Published
  <2> QED
    BY <2>1, <2>2
<1>6. ASSUME IsRow(m), m \in Issued', m \notin Issued, NEW o \in Issued, IsRow(o) PROVE o.batch # m.batch
  BY <1>3, <1>4, <1>6 DEF NextRowOK
<1>7. \A o, p \in Issued' : IsRow(o) /\ IsRow(p) /\ o.batch = p.batch => o = p
  BY <1>1, <1>5, <1>6 DEF RowsInv
<1>8. ASSUME NEW p \in Replica, NEW z, z = outbox[p], NEW i \in 1 .. Len(z), IsRow(z[i]), p # r \/ i # 1
      PROVE  NextRowOK(p, z, i)'
  <2>1. NextRowOK(p, z, i)
    BY <1>1, <1>8 DEF RowsInv
  <2>2. phase[p] = "complete"
    BY <1>1, <1>8 DEF EndInv, SendsOK, SendOK
  <2>3. p \notin tomb
    BY <1>1, <2>2, FieldsAre DEF ReplicaOK
  <2>4. IsRow(m) => m.batch # z[i].batch
    <3>1. CASE p = r
      <4>1. z = q /\ i # 1
        BY <1>3, <1>8, <3>1
      <4>2. IsRow(m) => (q[i].batch = q[1].batch => 1 = i)
        BY <1>4, <1>8, <4>1 DEF NextRowOK
      <4> QED
        BY <1>3, <4>1, <4>2
    <3>2. CASE p # r
      <4>1. IsRow(m) => home[m.batch] = r
        BY <1>3, <1>4 DEF NextRowOK
      <4>2. home[z[i].batch] = p
        BY <2>1 DEF NextRowOK
      <4> QED
        BY <3>2, <4>1, <4>2
    <3> QED
      BY <3>1, <3>2
  <2>5. \A o \in Issued' \ Issued : IsRow(o) => o.batch # z[i].batch
    BY <1>5, <2>4
  <2> QED
    BY <1>2, <1>3, <2>1, <2>2, <2>3, <2>5, NextStays
<1>9. ASSUME NEW p \in Replica, NEW i \in 1 .. Len(outbox'[p]), IsRow(outbox'[p][i])
      PROVE  NextRowOK(p, outbox[p], i)'
  <2>1. PICK w : w = outbox'[p]
    OBVIOUS
  <2>2. NextRowOK(p, w, i)'
    <3>1. CASE p = r
      <4>1. w = rest /\ i \in 1 .. Len(rest)
        BY <1>3, <1>9, <2>1, <3>1
      <4>2. PICK k : k = i + 1
        OBVIOUS
      <4>3. k \in 1 .. Len(q) /\ k # 1 /\ rest[i] = q[k] /\ IsRow(q[k]) /\ i \in Int
        BY <1>3, <1>9, <2>1, <4>1, <4>2
      <4>4. NextRowOK(r, q, k)'
        BY <1>3, <1>8, <4>3
      <4>5. \A j \in 1 .. Len(rest) : IsRow(rest[j]) /\ rest[j].batch = rest[i].batch => i = j
        <5> SUFFICES ASSUME NEW j \in 1 .. Len(rest), IsRow(rest[j]), rest[j].batch = rest[i].batch PROVE i = j
          OBVIOUS
        <5>1. PICK l : l = j + 1
          OBVIOUS
        <5>2. l \in 1 .. Len(q) /\ rest[j] = q[l] /\ j \in Int
          BY <1>3, <5>1
        <5>3. k = l
          BY <4>3, <4>4, <5>2 DEF NextRowOK
        <5> QED
          BY <4>2, <4>3, <5>1, <5>2, <5>3
      <4>6. NextRowOK(r, rest, i)'
        BY <4>3, <4>4, <4>5 DEF NextRowOK
      <4> QED
        BY <3>1, <4>1, <4>6
    <3>2. CASE p # r
      <4>1. w = outbox[p]
        BY <1>3, <2>1, <3>2
      <4> QED
        BY <1>8, <1>9, <2>1, <3>2, <4>1
    <3> QED
      BY <3>1, <3>2
  <2> QED
    BY <2>1, <2>2 DEF NextRowOK
<1>10. ASSUME NEW o \in Issued', IsRow(o) PROVE RowOK(o)'
  <2>1. CASE o \in Issued
    BY <1>1, <1>2, <1>10, <2>1, RowStays DEF RowsInv
  <2>2. CASE o \notin Issued
    <3>1. o = m /\ IsRow(m)
      BY <1>5, <1>10, <2>2
    <3>2. /\ home[m.batch] = r /\ m.seq > 0 /\ m.sender = r
          /\ AfterDrain(r) \/ FromFile(r, m)
      BY <1>3, <1>4, <3>1 DEF NextRowOK
    <3>3. file' = file /\ Saved(r)' = Saved(r) /\ (AfterDrain(r) => AfterDrain(r)')
      BY <1>1, <1>4, <3>1, PublishSteady DEF Published, Steady
    <3>4. AfterDrain(r)' \/ FromFile(r, m)'
      BY <3>2, <3>3, FromFileStays
    <3>5. ~(m.seq = 0)
      BY <3>2
    <3> QED
      BY <3>1, <3>2, <3>4, <3>5 DEF RowOK
  <2> QED
    BY <2>1, <2>2
<1> QED
  BY <1>7, <1>9, <1>10 DEF RowsInv

LEMMA PublishOnce ==
  ASSUME OnceInv, NEW r \in Replica, Publish(r)
  PROVE  OnceInv'
<1>1. PICK q : q = outbox[r]
  OBVIOUS
<1>2. PICK m : m = Head(q)
  OBVIOUS
<1>3. PICK rest : rest = Tail(q)
  OBVIOUS
<1>4. EndInv /\ EndInv'
  BY PublishEnd DEF OnceInv
<1>5. Published(r, m, q, rest)
  BY <1>1, <1>2, <1>3, <1>4, PublishIs
<1>6. RoundInv' /\ ClosedInv'
  BY <1>5, PublishRounds DEF RoundInv, ClosedInv
<1> QED
  BY <1>4, <1>5, <1>6, PublishMarks, PublishCloses, PublishRows DEF OnceInv

-----------------------------------------------------------------------------
(* From the first state on *)

LEMMA InitOnce == Init => OnceInv
<1> SUFFICES ASSUME Init PROVE OnceInv
  OBVIOUS
<1>1. EndInv /\ IndInv
  BY InitEnd DEF EndInv
<1>2. ASSUME NEW r \in Replica
      PROVE  /\ inbox[r] = Arriving(r) /\ pending[r] = {} /\ mem[r] = Fresh /\ Saved(r) = Fresh /\ phase[r] = "idle"
             /\ outbox[r] = <<>> /\ tomb = {} /\ Drained(r) = {} /\ out = {} /\ Coming(r) = Arriving(r)
  BY DEF Init, Saved, NoCheckpoint, Drained, Coming
<1>3. \A s \in Sender : Fresh.coord[s] = 0
  BY DEF Fresh
<1>4. ~Fresh.p2EOF /\ ~Fresh.averagesEOF
  BY DEF Fresh
<1>5. ASSUME NEW r \in Replica, NEW m \in Arriving(r)
      PROVE  ~IsClosing(m) /\ (IsOpen(m) => r = 0 /\ m = EOFMsg(Transactions, 1))
  <2>1. \/ \E b \in Batch : m = BatchMsg(b)
        \/ m = Averages \/ m = EOFMsg(Aggregator, 1)
        \/ r = 0 /\ m = EOFMsg(Transactions, 1)
    BY <1>5 DEF Arriving
  <2>2. \A b : BatchMsg(b).type = "batch"
    BY DEF BatchMsg
  <2>3. /\ Averages.type = "averages" /\ EOFMsg(Aggregator, 1).type = "eof" /\ EOFMsg(Aggregator, 1).sender = Aggregator
        /\ EOFMsg(Transactions, 1).type = "eof"
    BY DEF Averages, EOFMsg
  <2>4. /\ (\E b \in Batch : m = BatchMsg(b)) => m.type = "batch"
        /\ m = Averages => m.type = "averages"
        /\ m = EOFMsg(Aggregator, 1) => m.type = "eof" /\ m.sender = Aggregator
        /\ m = EOFMsg(Transactions, 1) => m.type = "eof"
    BY <2>2, <2>3
  <2>5. ~IsClosing(m)
    BY <2>1, <2>4 DEF IsClosing
  <2>6. IsOpen(m) => m.type # "batch" /\ m.type # "averages" /\ (m.type = "eof" => m.sender # Aggregator)
    BY DEF IsOpen
  <2> QED
    BY <2>1, <2>4, <2>5, <2>6
<1>6. ASSUME NEW r \in Replica PROVE MarksOK(r)
  <2>1. Transactions \in Sender
    BY ConstantsAssumption DEF Transactions, Sender
  <2>2. r = 0 => EOFMsg(Transactions, 1) \in inbox[r]
    BY <1>2 DEF Arriving
  <2> QED
    BY <1>2, <1>3, <1>4, <2>1, <2>2 DEF MarksOK
<1>7. \A r \in Replica : \A i : i \notin 1 .. Len(outbox[r])
  BY <1>2, EmptySeq
<1>8. \A r \in Replica : \A m \in Waiting(r) : r = 0 /\ m = EOFMsg(Transactions, 1)
  BY <1>2, <1>5 DEF Waiting
<1>9. \A r \in Replica : Sending(r) = {}
  BY <1>7 DEF Sending
<1>10. RoundInv
  BY <1>8, <1>9 DEF RoundInv
<1>11. ~Ending
  BY <1>2, <1>4, <1>5, <1>7 DEF Ending, Ends
<1>12. ClosedInv
  BY <1>11 DEF ClosedInv
<1>13. CloseInv
  BY <1>6, <1>11, ClosedEnds DEF CloseInv
<1>14. RowsInv
  <2>1. \A o : o \notin Issued
    BY DEF Init, Issued
  <2> QED
    BY <1>7, <2>1 DEF RowsInv
<1> QED
  BY <1>1, <1>6, <1>10, <1>12, <1>13, <1>14 DEF OnceInv

LEMMA NextOnce == Windows = {} /\ OnceInv /\ [Next]_vars => OnceInv'
<1> SUFFICES ASSUME Windows = {}, OnceInv, [Next]_vars PROVE OnceInv'
  OBVIOUS
<1>0. Unharmed
  BY DEF Unharmed
<1>1. CASE UNCHANGED vars
  <2>1. EndInv /\ EndInv' /\ RowsInv
    BY NextEnd DEF OnceInv
  <2>2. UNCHANGED <<inbox, pending, mem, disk, file, tomb, unconfirmed, outbox, phase, out>>
    BY <1>1 DEF vars
  <2>3. \A s \in Replica : Quiet(s)
    BY <2>2, OtherQuiet DEF Drained
  <2>4. RowsInv'
    BY <2>1, <2>2, <2>3, IssuedStays, RowsStay DEF Quiet
  <2> QED
    BY <2>1, <2>3, <2>4, QuietSteps
<1>2. ASSUME NEW r \in Replica, Consume(r) PROVE OnceInv'
  BY <1>0, <1>2, DiscardOnce, BufferBatchOnce, FilterBatchOnce, StoreAveragesOnce, HandleEOFOnce, HandleTokenOnce DEF Consume
<1>3. ASSUME NEW r \in Replica, Finish(r) PROVE OnceInv'
  BY <1>3, ConfirmOnce, PublishOnce, CheckpointOnce, CompleteOnce DEF Finish
<1>4. ASSUME NEW r \in Replica, Crash(r) PROVE OnceInv'
  BY <1>4, CrashOnce
<1>5. ASSUME NEW r \in Replica, NEW m \in Arriving(r), Redeliver(r, m) PROVE OnceInv'
  BY <1>5, RedeliverOnce
<1> QED
  BY <1>1, <1>2, <1>3, <1>4, <1>5 DEF Next

(* A row reaches the result once: final_joiner knows a row by its sender and *)
(* SeqID, and a batch that was killed, redelivered, recovered from the file  *)
(* (UnmarshalClientState, filter_q3.go:505-538), drained again or filtered   *)
(* live (ProcessRawBatch, filter_q3.go) is published under one of them only. *)
(* Kills in the three moments that nothing protects (before the first        *)
(* checkpoint, after the drain, between a token and its checkpoint) are left *)
(* out.                                                                      *)
THEOREM RowsStayUnique ==
  ASSUME Windows = {}
  PROVE  Spec => []RowsOnce
<1>1. OnceInv /\ [Next]_vars => OnceInv'
  BY NextOnce
<1>2. OnceInv => RowsOnce
  <2> SUFFICES ASSUME OnceInv, NEW b \in Batch PROVE Cardinality(RowsOf(b)) <= 1
    BY DEF RowsOnce
  <2>1. \A o, p \in RowsOf(b) : o = p
    BY DEF OnceInv, RowsInv, RowsOf, IsRow, Issued
  <2>2. CASE RowsOf(b) = {}
    <3>1. Cardinality({}) = 0
      BY FS_EmptySet
    <3> QED
      BY <2>2, <3>1
  <2>3. CASE RowsOf(b) # {}
    <3>1. PICK o : o \in RowsOf(b)
      BY <2>3
    <3>2. RowsOf(b) = {o}
      BY <2>1, <3>1
    <3>3. Cardinality({o}) = 1
      BY FS_Singleton
    <3> QED
      BY <3>2, <3>3
  <2> QED
    BY <2>2, <2>3
<1> QED
  BY <1>1, <1>2, InitOnce, PTL DEF Spec
===============================================================================
