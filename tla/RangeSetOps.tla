------------------------------ MODULE RangeSetOps ------------------------------
(***************************************************************************)
(* What reads a RangeSet or compares it (src/rangeset/src/set.rs and        *)
(* ops/cover.rs), as operators.  What makes it, changes it in place or      *)
(* measures it is in Ranges, the lazy operations are in RangeIter.          *)
(***************************************************************************)
EXTENDS RangeIter

(* The RangeSet of a set of integers. *)
Canonical(S) == NewFromIter(SetToSeq({Rg(v, v + 1) : v \in S}))

DifferenceInto(rs, o) == DifferenceWith(rs, Collect(o))

Holds(rs, v) == Seek(Iter(rs), v) # None

(* ValueIter: the values of every range, in order. *)
IterValues(rs) ==
  FoldLeft(LAMBDA vs, r : vs \o [k \in 1 .. r.end - r.start |-> r.start + k - 1], <<>>, rs)
-----------------------------------------------------------------------------
(* Set::is_subset as each pair of types implements it. *)
SetInSet(rs, qs) ==
  \/ rs = <<>>
  \/ /\ qs # <<>>
     /\ RsMin(rs) >= RsMin(qs) /\ RsEnd(rs) <= RsEnd(qs)
     /\ IsSubset(Iter(rs), Iter(qs))
-----------------------------------------------------------------------------
(* Cover: the greedy choice.  Sets that are no part of the query are        *)
(* dropped; the first of those that cover most goes, the last takes its     *)
(* place in the vector, and so on until nothing more can be covered.        *)
Gain(rs, uncovered) == RsLen(Collect(Intersection(Iter(rs), Iter(uncovered))))

Best(gains) ==
  CHOOSE i \in DOMAIN gains :
    /\ \A j \in DOMAIN gains : gains[j] <= gains[i]
    /\ \A j \in 1 .. i - 1 : gains[j] < gains[i]

SwapRemove(s, i) == SubSeq([s EXCEPT ![i] = Last(s)], 1, Len(s) - 1)

RECURSIVE Choose(_, _, _, _)
ChooseFrom(others, sets, uncovered, covered, gains) ==
  LET i == Best(gains)
  IN  IF uncovered = <<>> \/ others = <<>> \/ gains[i] = 0
        THEN [covered |-> covered, uncovered |-> uncovered]
      ELSE Choose(SwapRemove(others, i), sets,
                  DifferenceInto(uncovered, Iter(sets[others[i]])),
                  Append(covered, others[i]))

Choose(others, sets, uncovered, covered) ==
  ChooseFrom(others, sets, uncovered, covered,
             [k \in DOMAIN others |-> Gain(sets[others[k]], uncovered)])

FaultyFindCover(query, sets) ==
  Choose([k \in DOMAIN sets |-> k], sets, query, <<>>)

FindCover(query, sets) ==
  IF query = <<>> THEN [covered |-> <<>>, uncovered |-> <<>>]
  ELSE Choose(SelectSeq([k \in DOMAIN sets |-> k], LAMBDA k : SetInSet(sets[k], query)),
              sets, query, <<>>)
=============================================================================
