---------------------------- MODULE IntervalSet ----------------------------
(***************************************************************************)
(* common/dedup/intervalset.go: the set of the SeqIDs that were seen, kept *)
(* as a sorted sequence of intervals.                                      *)
(***************************************************************************)
EXTENDS Integers, Sequences

CONSTANT MaxID   \* ^uint64(0)

ID == 0 .. MaxID
Interval == [lo : ID, hi : ID]

Succ(id) == IF id = MaxID THEN 0 ELSE id + 1   \* id + 1 in 64 bits

(* sort.Search with s.ranges[i].Hi >= id: the first such index, or the one   *)
(* after the last.                                                           *)
Search(ranges, id) ==
  CHOOSE i \in 1 .. Len(ranges) + 1 : /\ \A j \in 1 .. i - 1 : ranges[j].hi < id
                                      /\ i <= Len(ranges) => ranges[i].hi >= id

Contains(ranges, id) ==
  LET i == Search(ranges, id)
  IN i <= Len(ranges) /\ ranges[i].lo <= id

MergePrev(ranges, i, id) == i > 1 /\ ranges[i - 1].hi # MaxID /\ Succ(ranges[i - 1].hi) = id
MergeNext(ranges, i, id) == i <= Len(ranges) /\ id # MaxID /\ ranges[i].lo = Succ(id)

(* What is left of index i, and what is right of it. *)
Before(ranges, i) == SubSeq(ranges, 1, i - 1)
From(ranges, i) == SubSeq(ranges, i, Len(ranges))

(* The new interval takes the place of its neighbours from index first up to *)
(* and not including index last.                                             *)
Merged(ranges, id) ==
  LET i     == Search(ranges, id)
      prev  == MergePrev(ranges, i, id)
      next  == MergeNext(ranges, i, id)
      first == IF prev THEN i - 1 ELSE i
      last  == IF next THEN i + 1 ELSE i
  IN Before(ranges, first)
       \o << [lo |-> IF prev THEN ranges[i - 1].lo ELSE id,
              hi |-> IF next THEN ranges[i].hi ELSE id] >>
       \o From(ranges, last)

Add(ranges, id) == IF Contains(ranges, id) THEN ranges ELSE Merged(ranges, id)

-----------------------------------------------------------------------------
(* The set that ranges stands for, and the form in which it is kept: sorted, *)
(* and with a gap between neighbours.                                        *)
Values(ranges) == {id \in ID : \E i \in 1 .. Len(ranges) : ranges[i].lo <= id /\ id <= ranges[i].hi}

Canonical(ranges) ==
  /\ ranges \in Seq(Interval)
  /\ \A i \in 1 .. Len(ranges) : ranges[i].lo <= ranges[i].hi
  /\ \A i, j \in 1 .. Len(ranges) : i < j => ranges[i].hi + 1 < ranges[j].lo
=============================================================================
