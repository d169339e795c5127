----------------------- MODULE SuspiciousPairsProofs -----------------------
(***************************************************************************)
(* The four strategies of query 4 compute the query, for every set of      *)
(* transactions and all thresholds that ThresholdAssumption allows, and    *)
(* distributing a stage over workers by the account or the pair its items  *)
(* are sharded by changes nothing of what the stage finds.                 *)
(***************************************************************************)
EXTENDS SuspiciousPairs, FiniteSetTheorems, FunctionTheorems, TLAPS

Item == [src : Account, dst : Account, bySource : BOOLEAN]
Paths == [src : Account, mid : Account, dst : Account]

Out(edges, a) == {p \in Account : <<a, p>> \in edges}
In(edges, b) == {p \in Account : <<p, b>> \in edges}

AllDoubled(edges) == UNION {Doubled(e) : e \in edges}
Kept(edges) == SuspiciousOutputs(FactsOf(AllDoubled(edges)))

-----------------------------------------------------------------------------
(* What a middle stage remembers of a set of items: the dest under the       *)
(* source of what was sharded by source, and the other way round.            *)
LEMMA FactsOfItems ==
  ASSUME NEW items \in SUBSET Item, NEW k \in Account, NEW p \in Account
  PROVE  /\ FactsOf(items) \in SUBSET Facts
         /\ Fact(k, p, FALSE) \in FactsOf(items) <=> ShardedTx(<<k, p>>, TRUE) \in items
         /\ Fact(k, p, TRUE) \in FactsOf(items) <=> ShardedTx(<<p, k>>, FALSE) \in items
<1>1. ASSUME NEW i \in Item
      PROVE  /\ FactOf(i) \in Facts
             /\ FactOf(i) = Fact(k, p, FALSE) <=> i = ShardedTx(<<k, p>>, TRUE)
             /\ FactOf(i) = Fact(k, p, TRUE) <=> i = ShardedTx(<<p, k>>, FALSE)
  <2>1. PICK x \in Account, y \in Account, t \in BOOLEAN : i = ShardedTx(<<x, y>>, t)
    BY DEF Item, ShardedTx
  <2>2. i.src = x /\ i.dst = y /\ i.bySource = t
    BY <2>1 DEF ShardedTx
  <2>3. CASE t = TRUE
    <3>1. FactOf(i) = Fact(x, y, FALSE)
      BY <2>2, <2>3 DEF FactOf
    <3>2. FactOf(i) \in Facts
      BY <3>1 DEF Fact, Facts
    <3>3. Fact(x, y, FALSE) = Fact(k, p, FALSE) <=> x = k /\ y = p
      BY DEF Fact
    <3>4. ASSUME FactOf(i) = Fact(k, p, TRUE) PROVE FALSE
      BY <3>1, <3>4 DEF Fact
    <3>5. i = ShardedTx(<<k, p>>, TRUE) <=> x = k /\ y = p
      BY <2>1, <2>3 DEF ShardedTx
    <3>6. ASSUME ShardedTx(<<x, y>>, TRUE) = ShardedTx(<<p, k>>, FALSE) PROVE FALSE
      BY <3>6 DEF ShardedTx
    <3> QED BY <2>1, <2>3, <3>1, <3>2, <3>3, <3>4, <3>5, <3>6
  <2>4. CASE t = FALSE
    <3>1. FactOf(i) = Fact(y, x, TRUE)
      BY <2>2, <2>4 DEF FactOf
    <3>2. FactOf(i) \in Facts
      BY <3>1 DEF Fact, Facts
    <3>3. Fact(y, x, TRUE) = Fact(k, p, TRUE) <=> x = p /\ y = k
      BY DEF Fact
    <3>4. ASSUME FactOf(i) = Fact(k, p, FALSE) PROVE FALSE
      BY <3>1, <3>4 DEF Fact
    <3>5. i = ShardedTx(<<p, k>>, FALSE) <=> x = p /\ y = k
      BY <2>1, <2>4 DEF ShardedTx
    <3>6. ASSUME ShardedTx(<<x, y>>, FALSE) = ShardedTx(<<k, p>>, TRUE) PROVE FALSE
      BY <3>6 DEF ShardedTx
    <3> QED BY <2>1, <2>4, <3>1, <3>2, <3>3, <3>4, <3>5, <3>6
  <2> QED BY <2>3, <2>4
<1>2. FactsOf(items) \in SUBSET Facts
  BY <1>1 DEF FactsOf
<1>3. \A f : f \in FactsOf(items) <=> \E i \in items : f = FactOf(i)
  BY DEF FactsOf
<1>4. \A i \in items : i \in Item
  OBVIOUS
<1>5. Fact(k, p, FALSE) \in FactsOf(items) <=> ShardedTx(<<k, p>>, TRUE) \in items
  <2>1. ShardedTx(<<k, p>>, TRUE) \in Item
    BY DEF ShardedTx, Item
  <2> QED BY <1>1, <1>3, <1>4, <2>1
<1>6. Fact(k, p, TRUE) \in FactsOf(items) <=> ShardedTx(<<p, k>>, FALSE) \in items
  <2>1. ShardedTx(<<p, k>>, FALSE) \in Item
    BY DEF ShardedTx, Item
  <2> QED BY <1>1, <1>3, <1>4, <2>1
<1> QED BY <1>2, <1>5, <1>6

(* The sharder sends every edge under its source and under its dest.         *)
LEMMA DoubledItems ==
  ASSUME NEW edges \in SUBSET Edges, NEW x \in Account, NEW y \in Account, NEW s \in BOOLEAN
  PROVE  /\ AllDoubled(edges) \in SUBSET Item
         /\ ShardedTx(<<x, y>>, s) \in AllDoubled(edges) <=> <<x, y>> \in edges
<1>1. ASSUME NEW e \in edges
      PROVE  /\ Doubled(e) \in SUBSET Item
             /\ ShardedTx(<<x, y>>, s) \in Doubled(e) <=> e = <<x, y>>
  <2>1. PICK u \in Account, v \in Account : e = <<u, v>>
    BY DEF Edges
  <2>2. Doubled(e) = {ShardedTx(<<u, v>>, TRUE), ShardedTx(<<u, v>>, FALSE)}
    BY <2>1 DEF Doubled
  <2>3. Doubled(e) \in SUBSET Item
    BY <2>2 DEF Item, ShardedTx
  <2>4. ShardedTx(<<x, y>>, s) \in Doubled(e) <=> x = u /\ y = v
    <3>1. CASE s = TRUE
      BY <2>2, <3>1 DEF ShardedTx
    <3>2. CASE s = FALSE
      BY <2>2, <3>2 DEF ShardedTx
    <3> QED BY <3>1, <3>2
  <2> QED BY <2>1, <2>3, <2>4
<1>2. AllDoubled(edges) \in SUBSET Item
  BY <1>1 DEF AllDoubled
<1>3. ShardedTx(<<x, y>>, s) \in AllDoubled(edges) <=> \E e \in edges : ShardedTx(<<x, y>>, s) \in Doubled(e)
  BY DEF AllDoubled
<1> QED BY <1>1, <1>2, <1>3

LEMMA FactsOfDoubled ==
  ASSUME NEW edges \in SUBSET Edges, NEW k \in Account, NEW p \in Account
  PROVE  /\ FactsOf(AllDoubled(edges)) \in SUBSET Facts
         /\ Fact(k, p, FALSE) \in FactsOf(AllDoubled(edges)) <=> <<k, p>> \in edges
         /\ Fact(k, p, TRUE) \in FactsOf(AllDoubled(edges)) <=> <<p, k>> \in edges
<1>1. /\ AllDoubled(edges) \in SUBSET Item
      /\ ShardedTx(<<k, p>>, TRUE) \in AllDoubled(edges) <=> <<k, p>> \in edges
      /\ ShardedTx(<<p, k>>, FALSE) \in AllDoubled(edges) <=> <<p, k>> \in edges
  BY DoubledItems
<1> QED BY <1>1, FactsOfItems

(* The sets a suspicious filter keeps for an account are its counterparts.   *)
LEMMA PeersOfDoubled ==
  ASSUME NEW edges \in SUBSET Edges, NEW k \in Account
  PROVE  /\ Peers(FactsOf(AllDoubled(edges)), k, FALSE) = Out(edges, k)
         /\ Peers(FactsOf(AllDoubled(edges)), k, TRUE) = In(edges, k)
<1> DEFINE facts == FactsOf(AllDoubled(edges))
<1>1. /\ facts \in SUBSET Facts
      /\ \A p \in Account : /\ Fact(k, p, FALSE) \in facts <=> <<k, p>> \in edges
                            /\ Fact(k, p, TRUE) \in facts <=> <<p, k>> \in edges
  <2>1. facts \in SUBSET Facts
    BY FactsOfDoubled
  <2>2. ASSUME NEW p \in Account
        PROVE  /\ Fact(k, p, FALSE) \in facts <=> <<k, p>> \in edges
               /\ Fact(k, p, TRUE) \in facts <=> <<p, k>> \in edges
    BY FactsOfDoubled
  <2> QED BY <2>1, <2>2
<1> HIDE DEF facts
<1>2. ASSUME NEW in \in BOOLEAN
      PROVE  Peers(facts, k, in) = {p \in Account : Fact(k, p, in) \in facts}
  <2>1. \A f \in facts : /\ f.peer \in Account
                         /\ f.key = k /\ f.in = in => f = Fact(k, f.peer, in)
    BY <1>1 DEF Fact, Facts
  <2>2. \A p : /\ Fact(k, p, in).key = k /\ Fact(k, p, in).in = in
               /\ Fact(k, p, in).peer = p
    BY DEF Fact
  <2>3. Peers(facts, k, in) \subseteq {p \in Account : Fact(k, p, in) \in facts}
    BY <2>1 DEF Peers
  <2>4. {p \in Account : Fact(k, p, in) \in facts} \subseteq Peers(facts, k, in)
    BY <2>2 DEF Peers
  <2> QED BY <2>3, <2>4
<1>3. Peers(facts, k, FALSE) = Out(edges, k)
  BY <1>1, <1>2 DEF Out
<1>4. Peers(facts, k, TRUE) = In(edges, k)
  BY <1>1, <1>2 DEF In
<1> QED BY <1>3, <1>4 DEF facts

-----------------------------------------------------------------------------
(* A suspicious filter passes the edges of the accounts at or above the      *)
(* threshold on, under the other account.                                    *)
LEMMA SuspiciousItems ==
  ASSUME NEW facts \in SUBSET Facts, NEW x \in Account, NEW y \in Account
  PROVE  /\ SuspiciousOutputs(facts) \in SUBSET Item
         /\ ShardedTx(<<x, y>>, FALSE) \in SuspiciousOutputs(facts)
              <=> Fact(x, y, FALSE) \in facts /\ Many(facts, x, FALSE)
         /\ ShardedTx(<<x, y>>, TRUE) \in SuspiciousOutputs(facts)
              <=> Fact(y, x, TRUE) \in facts /\ Many(facts, y, TRUE)
<1> DEFINE outs == {f \in facts : ~f.in /\ Many(facts, f.key, FALSE)}
           ins == {f \in facts : f.in /\ Many(facts, f.key, TRUE)}
<1>1. SuspiciousOutputs(facts) = {ShardedTx(<<f.key, f.peer>>, FALSE) : f \in outs}
                                   \cup {ShardedTx(<<f.peer, f.key>>, TRUE) : f \in ins}
  BY DEF SuspiciousOutputs
<1>2. SuspiciousOutputs(facts) \in SUBSET Item
  <2>1. \A f \in facts : f.key \in Account /\ f.peer \in Account
    BY DEF Facts
  <2>2. ASSUME NEW f \in facts
        PROVE  ShardedTx(<<f.key, f.peer>>, FALSE) \in Item /\ ShardedTx(<<f.peer, f.key>>, TRUE) \in Item
    BY <2>1 DEF ShardedTx, Item
  <2> QED BY <1>1, <2>2
<1>3. ASSUME NEW f \in facts
      PROVE  /\ ~f.in /\ f.key = x /\ f.peer = y <=> f = Fact(x, y, FALSE)
             /\ f.in /\ f.key = y /\ f.peer = x <=> f = Fact(y, x, TRUE)
  <2>1. /\ f.in \in BOOLEAN
        /\ f = [key |-> f.key, peer |-> f.peer, in |-> f.in]
    BY DEF Facts
  <2>2. /\ Fact(x, y, FALSE).key = x /\ Fact(x, y, FALSE).peer = y /\ ~Fact(x, y, FALSE).in
        /\ Fact(y, x, TRUE).key = y /\ Fact(y, x, TRUE).peer = x /\ Fact(y, x, TRUE).in
    BY DEF Fact
  <2>3. CASE f.in = TRUE
    BY <2>1, <2>2, <2>3 DEF Fact
  <2>4. CASE f.in = FALSE
    BY <2>1, <2>2, <2>4 DEF Fact
  <2> QED BY <2>1, <2>3, <2>4
<1>4. ShardedTx(<<x, y>>, FALSE) \in SuspiciousOutputs(facts) <=> Fact(x, y, FALSE) \in outs
  <2>1. ASSUME NEW f \in facts
        PROVE  ShardedTx(<<x, y>>, FALSE) = ShardedTx(<<f.key, f.peer>>, FALSE) <=> f.key = x /\ f.peer = y
    BY DEF ShardedTx
  <2>2. ASSUME NEW f \in facts, ShardedTx(<<x, y>>, FALSE) = ShardedTx(<<f.peer, f.key>>, TRUE)
        PROVE  FALSE
    BY <2>2 DEF ShardedTx
  <2> QED BY <1>1, <1>3, <2>1, <2>2
<1>5. ShardedTx(<<x, y>>, TRUE) \in SuspiciousOutputs(facts) <=> Fact(y, x, TRUE) \in ins
  <2>1. ASSUME NEW f \in facts
        PROVE  ShardedTx(<<x, y>>, TRUE) = ShardedTx(<<f.peer, f.key>>, TRUE) <=> f.key = y /\ f.peer = x
    BY DEF ShardedTx
  <2>2. ASSUME NEW f \in facts, ShardedTx(<<x, y>>, TRUE) = ShardedTx(<<f.key, f.peer>>, FALSE)
        PROVE  FALSE
    BY <2>2 DEF ShardedTx
  <2> QED BY <1>1, <1>3, <2>1, <2>2
<1>6. Fact(x, y, FALSE) \in outs <=> Fact(x, y, FALSE) \in facts /\ Many(facts, x, FALSE)
  <2>1. Fact(x, y, FALSE).key = x /\ ~Fact(x, y, FALSE).in
    BY DEF Fact
  <2> QED BY <2>1
<1>7. Fact(y, x, TRUE) \in ins <=> Fact(y, x, TRUE) \in facts /\ Many(facts, y, TRUE)
  <2>1. Fact(y, x, TRUE).key = y /\ Fact(y, x, TRUE).in
    BY DEF Fact
  <2> QED BY <2>1
<1> QED BY <1>2, <1>4, <1>5, <1>6, <1>7

(* Which edges reach the path finders, and what they remember of them.       *)
LEMMA KeptFacts ==
  ASSUME NEW edges \in SUBSET Edges, NEW m \in Account, NEW p \in Account
  PROVE  /\ FactsOf(Kept(edges)) \in SUBSET Facts
         /\ Fact(m, p, TRUE) \in FactsOf(Kept(edges))
              <=> <<p, m>> \in edges /\ Cardinality(Out(edges, p)) >= Threshold
         /\ Fact(m, p, FALSE) \in FactsOf(Kept(edges))
              <=> <<m, p>> \in edges /\ Cardinality(In(edges, p)) >= Threshold
<1> DEFINE facts == FactsOf(AllDoubled(edges))
<1>1. /\ facts \in SUBSET Facts
      /\ Fact(p, m, FALSE) \in facts <=> <<p, m>> \in edges
      /\ Fact(p, m, TRUE) \in facts <=> <<m, p>> \in edges
  BY FactsOfDoubled
<1>2. /\ Many(facts, p, FALSE) <=> Cardinality(Out(edges, p)) >= Threshold
      /\ Many(facts, p, TRUE) <=> Cardinality(In(edges, p)) >= Threshold
  BY PeersOfDoubled DEF Many
<1>3. Kept(edges) = SuspiciousOutputs(facts)
  BY DEF Kept
<1> HIDE DEF facts
<1>4. /\ Kept(edges) \in SUBSET Item
      /\ ShardedTx(<<p, m>>, FALSE) \in Kept(edges) <=> Fact(p, m, FALSE) \in facts /\ Many(facts, p, FALSE)
      /\ ShardedTx(<<m, p>>, TRUE) \in Kept(edges) <=> Fact(p, m, TRUE) \in facts /\ Many(facts, p, TRUE)
  BY <1>1, <1>3, SuspiciousItems
<1>5. /\ FactsOf(Kept(edges)) \in SUBSET Facts
      /\ Fact(m, p, FALSE) \in FactsOf(Kept(edges)) <=> ShardedTx(<<m, p>>, TRUE) \in Kept(edges)
      /\ Fact(m, p, TRUE) \in FactsOf(Kept(edges)) <=> ShardedTx(<<p, m>>, FALSE) \in Kept(edges)
  BY <1>4, FactsOfItems
<1> QED BY <1>1, <1>2, <1>4, <1>5

-----------------------------------------------------------------------------
(* The path finder that has an account m joins whoever sends to m with       *)
(* whomever m sends to.                                                      *)
LEMMA PathsOfFacts ==
  ASSUME NEW facts \in SUBSET Facts, NEW a \in Account, NEW m \in Account, NEW b \in Account
  PROVE  /\ CrossProduct(facts) \in SUBSET Paths
         /\ Path(a, m, b) \in CrossProduct(facts)
              <=> a # b /\ Fact(m, a, TRUE) \in facts /\ Fact(m, b, FALSE) \in facts
<1> DEFINE joined == {q \in facts \X facts : /\ q[1].key = q[2].key
                                             /\ q[1].in /\ ~q[2].in
                                             /\ q[1].peer # q[2].peer}
<1>1. CrossProduct(facts) = {Path(p[1].peer, p[1].key, p[2].peer) : p \in joined}
  BY DEF CrossProduct
<1>2. ASSUME NEW p \in joined
      PROVE  /\ p[1] \in facts /\ p[2] \in facts
             /\ p[1].key = p[2].key /\ p[1].in /\ ~p[2].in /\ p[1].peer # p[2].peer
  OBVIOUS
<1>3. CrossProduct(facts) \in SUBSET Paths
  <2>1. \A f \in facts : f.key \in Account /\ f.peer \in Account
    BY DEF Facts
  <2>2. ASSUME NEW p \in joined
        PROVE  Path(p[1].peer, p[1].key, p[2].peer) \in Paths
    BY <1>2, <2>1 DEF Path, Paths
  <2> QED BY <1>1, <2>2
<1>4. ASSUME NEW f \in facts
      PROVE  /\ f.in /\ f.key = m /\ f.peer = a <=> f = Fact(m, a, TRUE)
             /\ ~f.in /\ f.key = m /\ f.peer = b <=> f = Fact(m, b, FALSE)
  <2>1. /\ f.in \in BOOLEAN
        /\ f = [key |-> f.key, peer |-> f.peer, in |-> f.in]
    BY DEF Facts
  <2>2. /\ Fact(m, a, TRUE).key = m /\ Fact(m, a, TRUE).peer = a /\ Fact(m, a, TRUE).in
        /\ Fact(m, b, FALSE).key = m /\ Fact(m, b, FALSE).peer = b /\ ~Fact(m, b, FALSE).in
    BY DEF Fact
  <2>3. CASE f.in = TRUE
    BY <2>1, <2>2, <2>3 DEF Fact
  <2>4. CASE f.in = FALSE
    BY <2>1, <2>2, <2>4 DEF Fact
  <2> QED BY <2>1, <2>3, <2>4
<1>5. ASSUME Path(a, m, b) \in CrossProduct(facts)
      PROVE  a # b /\ Fact(m, a, TRUE) \in facts /\ Fact(m, b, FALSE) \in facts
  <2>1. PICK p \in joined : Path(a, m, b) = Path(p[1].peer, p[1].key, p[2].peer)
    BY <1>1, <1>5
  <2>2. p[1].peer = a /\ p[1].key = m /\ p[2].peer = b
    BY <2>1 DEF Path
  <2> QED BY <1>2, <1>4, <2>2
<1>6. ASSUME a # b, Fact(m, a, TRUE) \in facts, Fact(m, b, FALSE) \in facts
      PROVE  Path(a, m, b) \in CrossProduct(facts)
  <2> DEFINE p == <<Fact(m, a, TRUE), Fact(m, b, FALSE)>>
  <2>1. /\ p[1].key = m /\ p[1].peer = a /\ p[1].in
        /\ p[2].key = m /\ p[2].peer = b /\ ~p[2].in
    BY DEF Fact
  <2>2. p \in facts \X facts
    BY <1>6
  <2> HIDE DEF p
  <2>3. p \in joined
    BY <1>6, <2>1, <2>2
  <2> QED BY <1>1, <2>1, <2>3
<1> QED BY <1>3, <1>5, <1>6

LEMMA IntermediariesOfPaths ==
  ASSUME NEW paths \in SUBSET Paths, NEW a \in Account, NEW b \in Account
  PROVE  /\ Intermediaries(paths, <<a, b>>) = {m \in Account : Path(a, m, b) \in paths}
         /\ <<a, b>> \in {<<p.src, p.dst>> : p \in paths} <=> Intermediaries(paths, <<a, b>>) # {}
<1>1. ASSUME NEW p \in paths
      PROVE  /\ p.src \in Account /\ p.mid \in Account /\ p.dst \in Account
             /\ <<p.src, p.dst>> = <<a, b>> <=> p = Path(a, p.mid, b)
  BY DEF Path, Paths
<1>2. \A m : Path(a, m, b).src = a /\ Path(a, m, b).mid = m /\ Path(a, m, b).dst = b
  BY DEF Path
<1>3. Intermediaries(paths, <<a, b>>) \subseteq {m \in Account : Path(a, m, b) \in paths}
  BY <1>1 DEF Intermediaries
<1>4. {m \in Account : Path(a, m, b) \in paths} \subseteq Intermediaries(paths, <<a, b>>)
  BY <1>2 DEF Intermediaries
<1>5. <<a, b>> \in {<<p.src, p.dst>> : p \in paths} <=> Intermediaries(paths, <<a, b>>) # {}
  BY DEF Intermediaries
<1> QED BY <1>3, <1>4, <1>5

(* The intermediaries the counter sees of a pair: all of them or none, as    *)
(* the edges of a path are kept for the sake of its two ends.                *)
LEMMA PathsOfPair ==
  ASSUME NEW edges \in SUBSET Edges, NEW a \in Account, NEW b \in Account
  PROVE  Intermediaries(CrossProduct(FactsOf(Kept(edges))), <<a, b>>) =
           {m \in Between(edges, a, b) : /\ a # b
                                         /\ Cardinality(Out(edges, a)) >= Threshold
                                         /\ Cardinality(In(edges, b)) >= Threshold}
<1> DEFINE facts == FactsOf(Kept(edges))
<1>1. facts \in SUBSET Facts
  BY KeptFacts
<1>2. ASSUME NEW m \in Account
      PROVE  /\ Fact(m, a, TRUE) \in facts <=> <<a, m>> \in edges /\ Cardinality(Out(edges, a)) >= Threshold
             /\ Fact(m, b, FALSE) \in facts <=> <<m, b>> \in edges /\ Cardinality(In(edges, b)) >= Threshold
  BY KeptFacts
<1> HIDE DEF facts
<1>3. ASSUME NEW m \in Account
      PROVE  /\ CrossProduct(facts) \in SUBSET Paths
             /\ Path(a, m, b) \in CrossProduct(facts)
                  <=> a # b /\ Fact(m, a, TRUE) \in facts /\ Fact(m, b, FALSE) \in facts
  BY <1>1, PathsOfFacts
<1>4. CrossProduct(facts) \in SUBSET Paths
  BY <1>3
<1>5. Intermediaries(CrossProduct(facts), <<a, b>>) = {m \in Account : Path(a, m, b) \in CrossProduct(facts)}
  BY <1>4, IntermediariesOfPaths
<1> QED BY <1>2, <1>3, <1>5 DEF Between, facts

(* The edges a suspicious filter drops belong to no pair of the result: the  *)
(* intermediaries of a pair are counterparts of both its ends.               *)
LEMMA EndsAreSuspicious ==
  ASSUME NEW edges \in SUBSET Edges, IsFiniteSet(edges), NEW a \in Account, NEW b \in Account
  PROVE  /\ IsFiniteSet(Between(edges, a, b))
         /\ Cardinality(Between(edges, a, b)) \in Nat
         /\ Cardinality(Between(edges, a, b)) >= MinIntermediates =>
              /\ Cardinality(Out(edges, a)) >= Threshold
              /\ Cardinality(In(edges, b)) >= Threshold
<1>1. IsFiniteSet(Out(edges, a)) /\ IsFiniteSet(In(edges, b))
  <2>1. [p \in Out(edges, a) |-> <<a, p>>] \in Injection(Out(edges, a), edges)
    BY Fun_IsInj DEF Out
  <2>2. [p \in In(edges, b) |-> <<p, b>>] \in Injection(In(edges, b), edges)
    BY Fun_IsInj DEF In
  <2> QED BY <2>1, <2>2, FS_Injection
<1>2. Between(edges, a, b) \subseteq Out(edges, a) /\ Between(edges, a, b) \subseteq In(edges, b)
  BY DEF Between, Out, In
<1>3. /\ IsFiniteSet(Between(edges, a, b))
      /\ Cardinality(Between(edges, a, b)) <= Cardinality(Out(edges, a))
      /\ Cardinality(Between(edges, a, b)) <= Cardinality(In(edges, b))
  BY <1>1, <1>2, FS_Subset
<1>4. /\ Cardinality(Between(edges, a, b)) \in Nat
      /\ Cardinality(Out(edges, a)) \in Nat /\ Cardinality(In(edges, b)) \in Nat
  BY <1>1, <1>3, FS_CardinalityType
<1> QED BY <1>3, <1>4, ThresholdAssumption

(* Query 4 (docs/TP_Escalabilidad.pdf, section 2): what sharder_q4,          *)
(* suspicious_filter, pathfinder and counter compute one after the other is  *)
(* the pairs of accounts with enough intermediaries, for every set of        *)
(* transactions.                                                             *)
THEOREM PipelineIsTheQuery ==
  ASSUME NEW edges \in SUBSET Edges, IsFiniteSet(edges)
  PROVE  Pipeline(edges) = ScatterGatherPairs(edges)
<1> DEFINE paths == CrossProduct(FactsOf(Kept(edges)))
<1>1. Pipeline(edges) = QualifiedPairs(paths)
  BY DEF Pipeline, Kept, AllDoubled
<1>2. ASSUME NEW a \in Account, NEW b \in Account
      PROVE  <<a, b>> \in QualifiedPairs(paths) <=> <<a, b>> \in ScatterGatherPairs(edges)
  <2> DEFINE mids == Intermediaries(paths, <<a, b>>)
             ends == /\ a # b
                     /\ Cardinality(Out(edges, a)) >= Threshold
                     /\ Cardinality(In(edges, b)) >= Threshold
  <2>1. mids = {m \in Between(edges, a, b) : ends}
    BY PathsOfPair
  <2>2. paths \in SUBSET Paths
    BY KeptFacts, PathsOfFacts
  <2>3. <<a, b>> \in {<<p.src, p.dst>> : p \in paths} <=> mids # {}
    BY <2>2, IntermediariesOfPaths
  <2>4. <<a, b>> \in QualifiedPairs(paths) <=> mids # {} /\ Cardinality(mids) >= MinIntermediates
    BY <2>3 DEF QualifiedPairs
  <2>5. <<a, b>> \in ScatterGatherPairs(edges)
          <=> a # b /\ Cardinality(Between(edges, a, b)) >= MinIntermediates
    BY DEF ScatterGatherPairs, Edges
  <2> HIDE DEF mids, paths
  <2>6. CASE ends
    <3>1. mids = Between(edges, a, b)
      BY <2>1, <2>6
    <3>2. Cardinality(mids) >= MinIntermediates => mids # {}
      BY FS_EmptySet, ThresholdAssumption
    <3> QED BY <2>4, <2>5, <2>6, <3>1, <3>2
  <2>7. CASE ~ends
    <3>1. mids = {}
      BY <2>1, <2>7
    <3>2. ~(a # b /\ Cardinality(Between(edges, a, b)) >= MinIntermediates)
      BY <2>7, EndsAreSuspicious
    <3> QED BY <2>4, <2>5, <3>1, <3>2
  <2> QED BY <2>6, <2>7
<1>3. QualifiedPairs(paths) \subseteq Account \X Account
  <2>1. paths \in SUBSET Paths
    <3>1. CASE Account = {}
      <4>1. edges = {}
        BY <3>1 DEF Edges
      <4>2. FactsOf(AllDoubled(edges)) = {}
        BY <4>1 DEF AllDoubled, FactsOf
      <4>3. FactsOf(Kept(edges)) = {}
        BY <4>2 DEF Kept, SuspiciousOutputs, FactsOf
      <4> QED BY <4>3 DEF CrossProduct
    <3>2. CASE Account # {}
      BY <3>2, KeptFacts, PathsOfFacts
    <3> QED BY <3>1, <3>2
  <2>2. \A p \in paths : <<p.src, p.dst>> \in Account \X Account
    BY <2>1 DEF Paths
  <2> QED BY <2>2 DEF QualifiedPairs
<1>4. ScatterGatherPairs(edges) \subseteq Account \X Account
  BY DEF ScatterGatherPairs, Edges
<1> QED BY <1>1, <1>2, <1>3, <1>4

-----------------------------------------------------------------------------
(* Distribution: facts are sharded by account, paths by pair.  A worker      *)
(* finds what it would find if it had everything, for the accounts or pairs  *)
(* that are its own (hashing.Shard).                                         *)
Shard(facts, shard, i) == {f \in facts : shard[f.key] = i}

(* suspicious_filter, suspicious_filter.go:153-200 *)
THEOREM FiltersShareTheWork ==
  ASSUME NEW facts \in SUBSET Facts, NEW K, NEW shard \in [Account -> K]
  PROVE  SuspiciousOutputs(facts) = UNION {SuspiciousOutputs(Shard(facts, shard, i)) : i \in K}
<1>1. ASSUME NEW f \in facts, NEW in
      PROVE  Peers(Shard(facts, shard, shard[f.key]), f.key, in) = Peers(facts, f.key, in)
  BY DEF Peers, Shard
<1>2. ASSUME NEW f \in facts, NEW in
      PROVE  Many(Shard(facts, shard, shard[f.key]), f.key, in) <=> Many(facts, f.key, in)
  BY <1>1 DEF Many
<1>3. ASSUME NEW f \in facts
      PROVE  /\ shard[f.key] \in K
             /\ f \in Shard(facts, shard, shard[f.key])
             /\ \A i \in K : f \in Shard(facts, shard, i) => i = shard[f.key]
  BY DEF Shard, Facts
<1>4. ASSUME NEW i \in K
      PROVE  Shard(facts, shard, i) \subseteq facts
  BY DEF Shard
<1>5. ASSUME NEW o \in SuspiciousOutputs(facts)
      PROVE  \E i \in K : o \in SuspiciousOutputs(Shard(facts, shard, i))
  <2>1. PICK f \in facts : \/ o = ShardedTx(<<f.key, f.peer>>, FALSE) /\ ~f.in /\ Many(facts, f.key, FALSE)
                           \/ o = ShardedTx(<<f.peer, f.key>>, TRUE) /\ f.in /\ Many(facts, f.key, TRUE)
    BY DEF SuspiciousOutputs
  <2> DEFINE mine == Shard(facts, shard, shard[f.key])
  <2>2. f \in mine /\ (Many(mine, f.key, FALSE) <=> Many(facts, f.key, FALSE))
                   /\ (Many(mine, f.key, TRUE) <=> Many(facts, f.key, TRUE))
    BY <1>2, <1>3
  <2> HIDE DEF mine
  <2>3. o \in SuspiciousOutputs(mine)
    BY <2>1, <2>2 DEF SuspiciousOutputs
  <2> QED BY <1>3, <2>3 DEF mine
<1>6. ASSUME NEW i \in K
      PROVE  SuspiciousOutputs(Shard(facts, shard, i)) \subseteq SuspiciousOutputs(facts)
  BY <1>2, <1>3, <1>4 DEF SuspiciousOutputs
<1> QED BY <1>5, <1>6

(* pathfinder, pathfinder.go:187-216 *)
THEOREM FindersShareTheWork ==
  ASSUME NEW facts \in SUBSET Facts, NEW K, NEW shard \in [Account -> K]
  PROVE  CrossProduct(facts) = UNION {CrossProduct(Shard(facts, shard, i)) : i \in K}
<1>1. ASSUME NEW f \in facts
      PROVE  /\ shard[f.key] \in K
             /\ f \in Shard(facts, shard, shard[f.key])
  BY DEF Shard, Facts
<1>2. ASSUME NEW i \in K
      PROVE  Shard(facts, shard, i) \subseteq facts
  BY DEF Shard
<1>3. CrossProduct(facts) \subseteq UNION {CrossProduct(Shard(facts, shard, i)) : i \in K}
  BY <1>1 DEF CrossProduct
<1>4. ASSUME NEW i \in K
      PROVE  CrossProduct(Shard(facts, shard, i)) \subseteq CrossProduct(facts)
  BY <1>2 DEF CrossProduct
<1> QED BY <1>3, <1>4

PairShard(paths, shard, i) == {p \in paths : shard[<<p.src, p.dst>>] = i}

(* counter, counter.go:203-242: no pair is counted in parts.                 *)
THEOREM CountersShareTheWork ==
  ASSUME NEW paths \in SUBSET Paths, NEW K, NEW shard \in [Edges -> K]
  PROVE  QualifiedPairs(paths) = UNION {QualifiedPairs(PairShard(paths, shard, i)) : i \in K}
<1>1. ASSUME NEW p \in paths
      PROVE  <<p.src, p.dst>> \in Edges /\ shard[<<p.src, p.dst>>] \in K
  BY DEF Paths, Edges
<1>2. ASSUME NEW pair
      PROVE  Intermediaries(PairShard(paths, shard, shard[pair]), pair) = Intermediaries(paths, pair)
  BY DEF Intermediaries, PairShard
<1>3. ASSUME NEW pair \in QualifiedPairs(paths)
      PROVE  \E i \in K : pair \in QualifiedPairs(PairShard(paths, shard, i))
  <2>1. PICK p \in paths : pair = <<p.src, p.dst>>
    BY DEF QualifiedPairs
  <2>2. /\ shard[pair] \in K
        /\ p \in PairShard(paths, shard, shard[pair])
    BY <1>1, <2>1 DEF PairShard
  <2>3. Cardinality(Intermediaries(paths, pair)) >= MinIntermediates
    BY DEF QualifiedPairs
  <2>4. pair \in QualifiedPairs(PairShard(paths, shard, shard[pair]))
    BY <1>2, <2>1, <2>2, <2>3 DEF QualifiedPairs
  <2> QED BY <2>2, <2>4
<1>4. ASSUME NEW i \in K, NEW pair \in QualifiedPairs(PairShard(paths, shard, i))
      PROVE  pair \in QualifiedPairs(paths)
  <2>1. PICK p \in PairShard(paths, shard, i) : pair = <<p.src, p.dst>>
    BY DEF QualifiedPairs
  <2>2. p \in paths /\ shard[pair] = i
    BY <2>1 DEF PairShard
  <2>3. Cardinality(Intermediaries(paths, pair)) >= MinIntermediates
    BY <1>2, <2>2 DEF QualifiedPairs
  <2> QED BY <2>1, <2>2, <2>3 DEF QualifiedPairs
<1> QED BY <1>3, <1>4
=============================================================================
