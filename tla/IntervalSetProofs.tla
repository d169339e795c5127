------------------------- MODULE IntervalSetProofs -------------------------
(***************************************************************************)
(* The intervals kept by common/dedup/intervalset.go are the set of the    *)
(* values that were added, for every number of intervals and every size of *)
(* an integer.                                                             *)
(***************************************************************************)
EXTENDS IntervalSet, TLAPS, WellFoundedInduction

(* A set of naturals that is not empty has a least element. *)
LEMMA LeastElement ==
  ASSUME NEW T, T \subseteq Nat, T # {}
  PROVE  \E i \in T : \A k \in T : i <= k
<1>1. PICK i \in T : \A k \in T : ~ (<<k, i>> \in OpToRel(<, Nat))
  BY NatLessThanWellFounded, WFMin, Zenon
<1>2. \A k, n \in Nat : k < n => <<k, n>> \in OpToRel(<, Nat)
  BY Zenon DEF OpToRel
<1>3. \A k \in T : ~ (k < i)
  BY <1>1, <1>2, Zenon
<1>4. i \in Nat /\ \A k \in T : i <= k
  BY <1>3
<1> QED BY <1>4

(* What a canonical sequence consists of. *)
LEMMA CanonicalTypes ==
  ASSUME MaxID \in Nat, NEW ranges, Canonical(ranges)
  PROVE  /\ ranges \in Seq(Interval) /\ Len(ranges) \in Nat
         /\ \A i \in 1 .. Len(ranges) : /\ ranges[i] = [lo |-> ranges[i].lo, hi |-> ranges[i].hi]
                                        /\ ranges[i].lo \in ID /\ ranges[i].hi \in ID
                                        /\ ranges[i].lo \in Int /\ ranges[i].hi \in Int
<1>1. ranges \in Seq(Interval) /\ Len(ranges) \in Nat
  BY DEF Canonical
<1>2. ASSUME NEW i \in 1 .. Len(ranges) PROVE ranges[i] \in Interval
  BY <1>1
<1> QED BY <1>1, <1>2 DEF Interval, ID

(* sort.Search finds an index with the property it is defined by. *)
LEMMA SearchFinds ==
  ASSUME MaxID \in Nat, NEW ranges, Canonical(ranges), NEW id \in ID
  PROVE  LET i == Search(ranges, id)
         IN /\ i \in 1 .. Len(ranges) + 1
            /\ \A j \in 1 .. i - 1 : ranges[j].hi < id
            /\ i <= Len(ranges) => ranges[i].hi >= id
<1> DEFINE T == {i \in 1 .. Len(ranges) + 1 : i <= Len(ranges) => ranges[i].hi >= id}
<1>1. Len(ranges) \in Nat /\ id \in Int
  BY CanonicalTypes DEF ID
<1>2. T \subseteq Nat /\ Len(ranges) + 1 \in T
  BY <1>1
<1>3. PICK i \in T : \A k \in T : i <= k
  <2> HIDE DEF T
  <2> QED BY <1>2, LeastElement
<1>4. ASSUME NEW j \in 1 .. i - 1 PROVE ranges[j].hi < id
  <2>1. i \in Nat /\ i <= Len(ranges) + 1
    BY <1>1
  <2>2. j \in 1 .. Len(ranges) /\ j \in Nat /\ j < i
    BY <1>1, <2>1
  <2>3. j \notin T /\ j \in 1 .. Len(ranges) + 1
    BY <1>1, <1>3, <2>1, <2>2
  <2>4. ranges[j].hi \in Int
    BY <2>2, CanonicalTypes
  <2> QED BY <1>1, <2>3, <2>4
<1>5. /\ i \in 1 .. Len(ranges) + 1 /\ \A j \in 1 .. i - 1 : ranges[j].hi < id
      /\ i <= Len(ranges) => ranges[i].hi >= id
  BY <1>4
<1> QED BY <1>5 DEF Search

(* Contains(id) is membership in the set that the intervals stand for. *)
THEOREM ContainsIsMembership ==
  ASSUME MaxID \in Nat, NEW ranges, Canonical(ranges), NEW id \in ID
  PROVE  Contains(ranges, id) <=> id \in Values(ranges)
<1> DEFINE i == Search(ranges, id)
<1>1. /\ i \in 1 .. Len(ranges) + 1 /\ Len(ranges) \in Nat /\ id \in Int
      /\ \A j \in 1 .. i - 1 : ranges[j].hi < id
      /\ i <= Len(ranges) => ranges[i].hi >= id
  BY SearchFinds, CanonicalTypes DEF ID
<1>2. \A j \in 1 .. Len(ranges) : ranges[j].lo \in Int /\ ranges[j].hi \in Int
  BY CanonicalTypes
<1>3. \A j, k \in 1 .. Len(ranges) : j < k => ranges[j].hi + 1 < ranges[k].lo
  BY DEF Canonical
<1>4. \A j \in 1 .. Len(ranges) : ranges[j].lo <= ranges[j].hi
  BY DEF Canonical
<1>5. Contains(ranges, id) <=> i <= Len(ranges) /\ ranges[i].lo <= id
  BY DEF Contains
<1> HIDE DEF i
<1>6. ASSUME NEW j \in 1 .. Len(ranges), ranges[j].lo <= id, id <= ranges[j].hi
      PROVE  i <= Len(ranges) /\ ranges[i].lo <= id
  <2>1. j \in Int /\ i \in Int /\ ~(j \in 1 .. i - 1)
    BY <1>1, <1>2, <1>6
  <2>2. i <= j /\ i \in 1 .. Len(ranges)
    BY <1>1, <2>1
  <2>3. CASE i = j
    BY <1>6, <2>2, <2>3
  <2>4. CASE i < j
    BY <1>1, <1>2, <1>3, <1>4, <1>6, <2>2, <2>4
  <2> QED BY <2>1, <2>2, <2>3, <2>4
<1>7. ASSUME i <= Len(ranges), ranges[i].lo <= id
      PROVE  \E j \in 1 .. Len(ranges) : ranges[j].lo <= id /\ id <= ranges[j].hi
  <2>1. i \in 1 .. Len(ranges)
    BY <1>1, <1>7
  <2> QED BY <1>1, <1>2, <1>7, <2>1
<1> QED BY <1>5, <1>6, <1>7 DEF Values

(* Elements of a sequence in which those from f up to l - 1 make room for x. *)
Spliced(ranges, f, x, l) == Before(ranges, f) \o <<x>> \o From(ranges, l)

LEMMA Splice ==
  ASSUME NEW ranges \in Seq(Interval), NEW x \in Interval,
         NEW f \in 1 .. Len(ranges) + 1, NEW l \in f .. Len(ranges) + 1
  PROVE  /\ Spliced(ranges, f, x, l) \in Seq(Interval)
         /\ Len(Spliced(ranges, f, x, l)) = f + (Len(ranges) - l) + 1
         /\ \A j \in 1 .. f + (Len(ranges) - l) + 1 :
              /\ j < f => Spliced(ranges, f, x, l)[j] = ranges[j]
              /\ j = f => Spliced(ranges, f, x, l)[j] = x
              /\ j > f => Spliced(ranges, f, x, l)[j] = ranges[(j - f - 1) + l]
<1> DEFINE left == Before(ranges, f)
           right == From(ranges, l)
           mid == left \o <<x>>
           new == mid \o right
<1>1. Len(ranges) \in Nat /\ f \in Nat /\ l \in Nat /\ f <= l /\ l <= Len(ranges) + 1 /\ 1 <= f
  OBVIOUS
<1>2. /\ left \in Seq(Interval) /\ Len(left) = f - 1
      /\ \A j \in 1 .. f - 1 : left[j] = ranges[j]
  BY <1>1 DEF Before
<1>3. /\ right \in Seq(Interval) /\ Len(right) = Len(ranges) - l + 1
      /\ \A j \in 1 .. Len(ranges) - l + 1 : right[j] = ranges[(j - 1) + l]
  BY <1>1 DEF From
<1> HIDE DEF left, right
<1>4. /\ mid \in Seq(Interval) /\ Len(mid) = f
      /\ \A j \in 1 .. f : mid[j] = IF j < f THEN ranges[j] ELSE x
  BY <1>1, <1>2
<1> HIDE DEF mid
<1>5. new \in Seq(Interval) /\ Len(new) = f + (Len(ranges) - l) + 1
  <2>1. mid \in Seq(Interval) /\ right \in Seq(Interval)
    BY <1>3, <1>4
  <2>2. new \in Seq(Interval) /\ Len(new) = Len(mid) + Len(right)
    BY <2>1
  <2> QED BY <1>1, <1>3, <1>4, <2>2
<1>6. ASSUME NEW j \in 1 .. Len(new)
      PROVE  /\ j < f => new[j] = ranges[j]
             /\ j = f => new[j] = x
             /\ j > f => new[j] = ranges[(j - f - 1) + l]
  <2>1. CASE j <= f
    BY <1>1, <1>3, <1>4, <1>5, <2>1
  <2>2. CASE j > f
    <3>1. j - f \in 1 .. Len(ranges) - l + 1
      BY <1>1, <1>5, <2>2
    <3>2. new[j] = right[j - f]
      BY <1>1, <1>3, <1>4, <1>5, <2>2, <3>1
    <3> QED BY <1>1, <1>3, <2>2, <3>1, <3>2
  <2> QED BY <1>1, <1>5, <2>1, <2>2
<1>7. Spliced(ranges, f, x, l) = new
  BY DEF Spliced, left, mid, right
<1> QED BY <1>5, <1>6, <1>7

(* Add(id) adds id and nothing else to the set, and keeps it in its form     *)
(* (IntervalSet.Add): merged with a neighbour, with both, or with none.      *)
THEOREM AddIsUnion ==
  ASSUME MaxID \in Nat, NEW ranges, Canonical(ranges), NEW id \in ID
  PROVE  Canonical(Add(ranges, id)) /\ Values(Add(ranges, id)) = Values(ranges) \cup {id}
<1>1. CASE Contains(ranges, id)
  BY <1>1, ContainsIsMembership DEF Add
<1>2. CASE ~Contains(ranges, id)
  <2> DEFINE n == Len(ranges)
             i == Search(ranges, id)
             prev == MergePrev(ranges, i, id)
             next == MergeNext(ranges, i, id)
             f == IF prev THEN i - 1 ELSE i
             l == IF next THEN i + 1 ELSE i
             x == [lo |-> IF prev THEN ranges[i - 1].lo ELSE id,
                   hi |-> IF next THEN ranges[i].hi ELSE id]
             new == Spliced(ranges, f, x, l)
  <2>1. Add(ranges, id) = new
    BY <1>2 DEF Add, Merged, Spliced
  <2>2. /\ i \in 1 .. n + 1 /\ n \in Nat /\ id \in Int /\ MaxID \in Nat /\ 0 <= id /\ id <= MaxID
        /\ \A j \in 1 .. i - 1 : ranges[j].hi < id
    BY SearchFinds, CanonicalTypes DEF ID
  <2>3. \A j \in 1 .. n : /\ ranges[j].lo \in Int /\ ranges[j].hi \in Int
                          /\ 0 <= ranges[j].lo /\ ranges[j].lo <= ranges[j].hi /\ ranges[j].hi <= MaxID
    <3> TAKE j \in 1 .. n
    <3>1. ranges[j].lo \in ID /\ ranges[j].hi \in ID /\ ranges[j].lo <= ranges[j].hi
      BY CanonicalTypes DEF Canonical
    <3> QED BY <2>2, <3>1 DEF ID
  <2>4. \A j, k \in 1 .. n : j < k => ranges[j].hi + 1 < ranges[k].lo
    BY DEF Canonical
  <2>5. i <= n => id < ranges[i].lo
    BY <1>2, <2>2, <2>3 DEF Contains
  <2> HIDE DEF i
  <2>6. \A j \in i .. n : id < ranges[j].lo
    <3> TAKE j \in i .. n
    <3>1. i \in 1 .. n /\ j \in 1 .. n /\ i <= n
      BY <2>2
    <3>2. CASE j = i
      BY <2>5, <3>1, <3>2
    <3>3. CASE i < j
      BY <2>2, <2>3, <2>4, <2>5, <3>1, <3>3
    <3> QED BY <2>2, <3>2, <3>3
  <2>7. prev <=> i > 1 /\ ranges[i - 1].hi + 1 = id
    <3>1. ASSUME i > 1
          PROVE  ranges[i - 1].hi # MaxID /\ Succ(ranges[i - 1].hi) = ranges[i - 1].hi + 1
      <4>1. i - 1 \in 1 .. i - 1 /\ i - 1 \in 1 .. n
        BY <2>2, <3>1
      <4> QED BY <2>2, <2>3, <4>1 DEF Succ
    <3> QED BY <3>1 DEF MergePrev
  <2>8. next <=> i <= n /\ ranges[i].lo = id + 1
    <3>1. ASSUME i <= n, ranges[i].lo = id + 1
          PROVE  id # MaxID
      <4>1. i \in 1 .. n
        BY <2>2, <3>1
      <4>2. ranges[i].lo <= MaxID
        BY <2>2, <2>3, <4>1
      <4> QED BY <2>2, <3>1, <4>2
    <3> QED BY <3>1 DEF MergeNext, Succ
  (* How the new interval begins and ends. *)
  <2>9. /\ f \in Nat
        /\ \/ f = i /\ x.lo = id /\ (i > 1 => ranges[i - 1].hi + 1 # id)
           \/ /\ f = i - 1 /\ f \in 1 .. n /\ f \in 1 .. i - 1
              /\ x.lo = ranges[f].lo /\ ranges[f].hi + 1 = id
    <3>1. CASE prev
      BY <2>2, <2>7, <3>1
    <3>2. CASE ~prev
      BY <2>2, <2>7, <3>2
    <3> QED BY <3>1, <3>2
  <2>10. /\ l \in Nat
         /\ \/ l = i /\ x.hi = id /\ (i <= n => ranges[i].lo # id + 1)
            \/ l = i + 1 /\ i \in 1 .. n /\ x.hi = ranges[i].hi /\ ranges[i].lo = id + 1
    <3>1. CASE next
      BY <2>2, <2>8, <3>1
    <3>2. CASE ~next
      BY <2>2, <2>8, <3>2
    <3> QED BY <3>1, <3>2
  <2>11. x = [lo |-> x.lo, hi |-> x.hi]
    OBVIOUS
  <2> HIDE DEF prev, next, f, l, x
  <2>12. x \in Interval /\ x.lo \in Int /\ x.hi \in Int /\ x.lo <= id /\ id <= x.hi
    <3>1. x.lo \in Int /\ 0 <= x.lo /\ x.lo <= id
      BY <2>2, <2>3, <2>9
    <3>2. x.hi \in Int /\ id <= x.hi /\ x.hi <= MaxID
      BY <2>2, <2>3, <2>10
    <3>3. x.lo \in ID /\ x.hi \in ID
      BY <2>2, <3>1, <3>2 DEF ID
    <3> QED BY <2>11, <3>1, <3>2, <3>3 DEF Interval
  <2>13. f \in 1 .. n + 1 /\ l \in f .. n + 1
    BY <2>2, <2>9, <2>10
  <2>14. ASSUME NEW j \in 1 .. n, j < f PROVE ranges[j].hi + 1 < x.lo
    <3>1. j \in 1 .. i - 1 /\ ranges[j].hi < id
      BY <2>2, <2>9, <2>14
    <3>2. CASE f = i /\ j = i - 1
      BY <2>2, <2>3, <2>9, <3>1, <3>2
    <3>3. CASE f = i /\ j < i - 1
      <4>1. i - 1 \in 1 .. n /\ i - 1 \in 1 .. i - 1
        BY <2>2, <3>1
      <4>2. ranges[j].hi + 1 < ranges[i - 1].lo
        BY <2>4, <3>3, <4>1
      <4>3. ranges[i - 1].lo < id
        BY <2>2, <2>3, <4>1
      <4> QED BY <2>2, <2>3, <2>9, <3>3, <4>1, <4>2, <4>3
    <3>4. CASE f # i
      BY <2>4, <2>9, <2>14, <3>4
    <3> QED BY <2>2, <3>1, <3>2, <3>3, <3>4
  <2>15. ASSUME NEW j \in 1 .. n, l <= j PROVE x.hi + 1 < ranges[j].lo
    <3>1. i \in 1 .. n /\ i <= j /\ id < ranges[i].lo
      BY <2>2, <2>5, <2>10, <2>15
    <3>2. CASE l = i /\ j = i
      BY <2>2, <2>3, <2>10, <3>1, <3>2
    <3>3. CASE l = i /\ i < j
      <4>1. ranges[i].hi + 1 < ranges[j].lo
        BY <2>4, <3>1, <3>3
      <4> QED BY <2>2, <2>3, <2>10, <3>1, <3>3, <4>1
    <3>4. CASE l # i
      BY <2>2, <2>4, <2>10, <2>15, <3>1, <3>4
    <3> QED BY <2>2, <3>1, <3>2, <3>3, <3>4
  <2> DEFINE m == Len(new)
  <2>16. /\ new \in Seq(Interval) /\ m \in Nat /\ m = f + (n - l) + 1
         /\ \A j \in 1 .. m : /\ j < f => new[j] = ranges[j]
                              /\ j = f => new[j] = x
                              /\ j > f => new[j] = ranges[(j - f - 1) + l]
    <3>1. ranges \in Seq(Interval)
      BY DEF Canonical
    <3>2. n = Len(ranges) /\ f \in 1 .. Len(ranges) + 1 /\ l \in f .. Len(ranges) + 1
      BY <2>2, <2>13
    <3>3. x \in Interval
      BY <2>12
    <3> HIDE DEF n, m, new
    <3>4. /\ Spliced(ranges, f, x, l) \in Seq(Interval)
          /\ Len(Spliced(ranges, f, x, l)) = f + (Len(ranges) - l) + 1
      BY <3>1, <3>2, <3>3, Splice
    <3>5. new = Spliced(ranges, f, x, l) /\ m = Len(new)
      BY DEF new, m
    <3>6. m = f + (n - l) + 1 /\ m = f + (Len(ranges) - l) + 1 /\ m \in Nat
      BY <3>1, <3>2, <3>4, <3>5
    <3>7. ASSUME NEW j \in 1 .. f + (Len(ranges) - l) + 1
          PROVE  /\ j < f => new[j] = ranges[j]
                 /\ j = f => new[j] = x
                 /\ j > f => new[j] = ranges[(j - f - 1) + l]
      BY <3>1, <3>2, <3>3, <3>5, Splice
    <3>8. \A j \in 1 .. m : /\ j < f => new[j] = ranges[j]
                            /\ j = f => new[j] = x
                            /\ j > f => new[j] = ranges[(j - f - 1) + l]
      BY <3>6, <3>7
    <3>9. new \in Seq(Interval)
      BY <3>4, <3>5
    <3> QED BY <3>6, <3>8, <3>9
  <2> HIDE DEF new, m, n
  (* The old intervals left of x, x, and the old intervals right of it. *)
  <2>17. f \in 1 .. m /\ new[f] = x
    <3>1. f \in Nat /\ l \in Nat /\ 1 <= f /\ f <= l /\ l <= n + 1
      BY <2>2, <2>13
    <3>2. f \in 1 .. m
      BY <2>2, <2>16, <3>1
    <3> QED BY <2>16, <3>1, <3>2
  <2>18. ASSUME NEW j \in 1 .. m, j < f PROVE j \in 1 .. n /\ new[j] = ranges[j]
    BY <2>2, <2>13, <2>16, <2>18
  <2>19. ASSUME NEW j \in 1 .. m, f < j
         PROVE  /\ (j - f - 1) + l \in 1 .. n /\ l <= (j - f - 1) + l
                /\ new[j] = ranges[(j - f - 1) + l]
    BY <2>2, <2>13, <2>16, <2>19
  <2>20. Canonical(new)
    <3>1. ASSUME NEW j \in 1 .. m PROVE new[j].lo <= new[j].hi
      <4>1. CASE j < f
        BY <2>3, <2>18, <4>1
      <4>2. CASE j = f
        BY <2>2, <2>12, <2>17, <4>2
      <4>3. CASE f < j
        BY <2>3, <2>19, <4>3
      <4> QED BY <2>13, <4>1, <4>2, <4>3
    <3>2. ASSUME NEW j \in 1 .. m, NEW k \in 1 .. m, j < k
          PROVE  new[j].hi + 1 < new[k].lo
      <4>1. CASE k < f
        <5>1. j < f
          BY <2>13, <3>2, <4>1
        <5> QED BY <2>4, <2>18, <3>2, <4>1, <5>1
      <4>2. CASE k = f
        BY <2>14, <2>17, <2>18, <3>2, <4>2
      <4>3. CASE f < k /\ j = f
        BY <2>15, <2>17, <2>19, <4>3
      <4>4. CASE f < k /\ f < j
        <5>1. (j - f - 1) + l < (k - f - 1) + l
          BY <2>13, <3>2
        <5> QED BY <2>4, <2>19, <4>4, <5>1
      <4>5. CASE f < k /\ j < f
        <5>1. j < (k - f - 1) + l
          BY <2>13, <4>5
        <5> QED BY <2>4, <2>18, <2>19, <4>5, <5>1
      <4> QED BY <2>13, <4>1, <4>2, <4>3, <4>4, <4>5
    <3> QED BY <2>16, <3>1, <3>2 DEF Canonical, m
  <2>21. ASSUME NEW v \in ID, NEW j \in 1 .. m, new[j].lo <= v, v <= new[j].hi, v # id
         PROVE  \E k \in 1 .. n : ranges[k].lo <= v /\ v <= ranges[k].hi
    <3>1. v \in Int
      BY <2>2 DEF ID
    <3>2. CASE j < f
      BY <2>18, <2>21, <3>2
    <3>3. CASE f < j
      BY <2>19, <2>21, <3>3
    <3>4. CASE j = f /\ v < id
      <4>1. x.lo <= v /\ f = i - 1 /\ f \in 1 .. n /\ x.lo = ranges[f].lo /\ ranges[f].hi + 1 = id
        BY <2>2, <2>9, <2>12, <2>17, <2>21, <3>1, <3>4
      <4> QED BY <2>2, <2>3, <3>1, <3>4, <4>1
    <3>5. CASE j = f /\ id < v
      <4>1. v <= x.hi /\ i \in 1 .. n /\ x.hi = ranges[i].hi /\ ranges[i].lo = id + 1
        BY <2>2, <2>10, <2>12, <2>17, <2>21, <3>1, <3>5
      <4> QED BY <2>2, <2>3, <3>1, <3>5, <4>1
    <3> QED BY <2>2, <2>13, <2>21, <3>1, <3>2, <3>3, <3>4, <3>5
  <2>22. ASSUME NEW v \in ID, NEW j \in 1 .. n, ranges[j].lo <= v, v <= ranges[j].hi
         PROVE  \E k \in 1 .. m : new[k].lo <= v /\ v <= new[k].hi
    <3>1. v \in Int
      BY <2>2 DEF ID
    <3>2. CASE j < f
      <4>1. j \in 1 .. m
        BY <2>2, <2>13, <2>16, <3>2
      <4> QED BY <2>18, <2>22, <3>2, <4>1
    <3>3. CASE l <= j
      <4> DEFINE k == (j - l) + f + 1
      <4>1. k \in 1 .. m /\ f < k /\ (k - f - 1) + l = j
        BY <2>2, <2>13, <2>16, <3>3
      <4> HIDE DEF k
      <4> QED BY <2>19, <2>22, <4>1
    <3>4. CASE f <= j /\ j < l
      <4>1. j = i - 1 \/ j = i
        BY <2>2, <2>9, <2>10, <3>4
      <4>2. CASE j = i
        BY <2>2, <2>3, <2>10, <2>12, <2>17, <2>22, <3>1, <3>4, <4>2
      <4>3. CASE j = i - 1
        BY <2>2, <2>3, <2>9, <2>12, <2>17, <2>22, <3>1, <3>4, <4>3
      <4> QED BY <4>1, <4>2, <4>3
    <3> QED BY <2>13, <3>2, <3>3, <3>4
  <2>23. Values(new) = Values(ranges) \cup {id}
    <3>1. \E k \in 1 .. m : new[k].lo <= id /\ id <= new[k].hi
      BY <2>12, <2>17
    <3> QED BY <2>21, <2>22, <3>1 DEF Values, m, n
  <2> QED BY <2>1, <2>20, <2>23 DEF new
<1> QED BY <1>1, <1>2
=============================================================================
