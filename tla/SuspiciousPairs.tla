-------------------------- MODULE SuspiciousPairs --------------------------
(***************************************************************************)
(* What the four strategies of query 4 compute from what they are given,   *)
(* each as a function of sets: sharder_q4 doubles a transaction,           *)
(* suspicious_filter keeps the edges of accounts with many counterparts,   *)
(* pathfinder joins them into paths of three accounts, counter keeps the   *)
(* pairs with many intermediaries.  ScatterGather distributes them over    *)
(* workers; SuspiciousPairsProofs shows that their composition is the      *)
(* query.                                                                  *)
(*                                                                         *)
(* An edge is <<source, dest>>.  The order of the emissions is left to     *)
(* ScatterGather.                                                          *)
(***************************************************************************)
EXTENDS Integers, FiniteSets

CONSTANTS
  Account,
  Threshold,          \* SUSPICIOUS_THRESHOLD
  MinIntermediates    \* MIN_INTERMEDIATES

(* Both are 5 by default and in every scenario.  A higher threshold would    *)
(* drop edges of pairs that qualify.                                         *)
ASSUME ThresholdAssumption ==
  /\ Threshold \in Nat \ {0}
  /\ MinIntermediates \in Nat \ {0}
  /\ Threshold <= MinIntermediates

Edges == Account \X Account

(* ShardedTx and SuspiciousPath *)
ShardedTx(e, bySource) == [src |-> e[1], dst |-> e[2], bySource |-> bySource]
Path(a, m, b) == [src |-> a, mid |-> m, dst |-> b]

(* What a worker of the middle stages remembers of an account. *)
Fact(key, peer, in) == [key |-> key, peer |-> peer, in |-> in]

Facts == [key : Account, peer : Account, in : BOOLEAN]

-----------------------------------------------------------------------------
(* Sharder.ProcessMessage *)
Doubled(e) == {ShardedTx(e, TRUE), ShardedTx(e, FALSE)}

(* ProcessMessage and addEdge of the suspicious filter and of the pathfinder *)
FactOf(i) == IF i.bySource THEN Fact(i.src, i.dst, FALSE) ELSE Fact(i.dst, i.src, TRUE)

FactsOf(items) == {FactOf(i) : i \in items}

(* outAccounts and inAccounts, outSet and inSet *)
Peers(facts, k, in) == {f.peer : f \in {g \in facts : g.key = k /\ g.in = in}}

(* Mutation: an account at the threshold is not suspicious. *)
MutMany(facts, k, in) == Cardinality(Peers(facts, k, in)) > Threshold

Many(facts, k, in) == Cardinality(Peers(facts, k, in)) >= Threshold

(* buildSuspiciousOutputs: the edges of the suspicious accounts, with the    *)
(* sharding turned round.                                                    *)
SuspiciousOutputs(facts) ==
  {ShardedTx(<<f.key, f.peer>>, FALSE) : f \in {g \in facts : ~g.in /\ Many(facts, g.key, FALSE)}}
    \cup {ShardedTx(<<f.peer, f.key>>, TRUE) : f \in {g \in facts : g.in /\ Many(facts, g.key, TRUE)}}

(* crossProductIterator *)
CrossProduct(facts) ==
  {Path(p[1].peer, p[1].key, p[2].peer) :
     p \in {q \in facts \X facts : /\ q[1].key = q[2].key
                                   /\ q[1].in /\ ~q[2].in
                                   /\ q[1].peer # q[2].peer}}

Intermediaries(paths, pair) == {p.mid : p \in {q \in paths : <<q.src, q.dst>> = pair}}

(* buildPairOutputs: the pairs that were qualified. *)
QualifiedPairs(paths) ==
  {pair \in {<<p.src, p.dst>> : p \in paths} :
     Cardinality(Intermediaries(paths, pair)) >= MinIntermediates}

-----------------------------------------------------------------------------
(* The query: pairs of accounts that at least MinIntermediates different     *)
(* accounts connect (docs/TP_Escalabilidad.pdf, section 2, query 4).         *)
Between(edges, a, b) == {m \in Account : <<a, m>> \in edges /\ <<m, b>> \in edges}

ScatterGatherPairs(edges) ==
  {p \in Edges : p[1] # p[2] /\ Cardinality(Between(edges, p[1], p[2])) >= MinIntermediates}

(* The strategies one after the other, on one worker each. *)
Pipeline(edges) ==
  LET kept == SuspiciousOutputs(FactsOf(UNION {Doubled(e) : e \in edges}))
  IN QualifiedPairs(CrossProduct(FactsOf(kept)))
=============================================================================
