-------------------------------- MODULE RangeSet -------------------------------
(***************************************************************************)
(* A RangeSet (src/rangeset/src/set.rs) under a program that changes it in  *)
(* place, and one lazy iterator over it and an operand, advanced by next    *)
(* and seek_end_ge in any order.                                            *)
(*                                                                         *)
(* An operand is what implements IntoRangeIterator: a borrowed set, a set   *)
(* by value, a range, or an iterator over two of these.                     *)
(***************************************************************************)
EXTENDS RangeSetOps, RangeVector

CONSTANTS
  Borrowed,      (* integer sets that operands passed by reference hold     *)
  Owned,         (* those of operands by value that are only read in order  *)
  OwnedSought,   (* those of operands by value that calls seek in           *)
  Pieces,        (* ranges as operands, empty and reversed ones too         *)
  Inner          (* integer sets of the operands of nested iterators        *)

ASSUME RangeSetAssumption ==
  /\ Bound \in Nat
  /\ Borrowed \cup Owned \cup OwnedSought \cup Inner \subseteq SUBSET (0 .. Bound - 1)

VARIABLES
  it,      (* the iterator in use, None if there is none                    *)
  owed,    (* the integers of the iterator's result not yet passed          *)
  sought,  (* the argument of its last seek, 0 for a call of next           *)
  last     (* the range it yielded last                                     *)

vars == <<ranges, model, it, owed, sought, last>>
Points == 0 .. Bound
-----------------------------------------------------------------------------
BorrowedSets == {Iter(Canonical(S)) : S \in Borrowed}
OwnedSets == {IntoIter(Canonical(S)) : S \in Owned}
InnerSets == {Iter(Canonical(S)) : S \in Inner}
Ranges == {Once(r) : r \in Pieces}

Combined(X, Y) ==
  UNION {{Union(x, y), Difference(x, y), Intersection(x, y), SymmetricDifference(x, y)} :
           x \in X, y \in Y}

(* The operations of Set, and the operators, by the types of their sides.   *)
(* An empty range is not taken out of another one (see README).             *)
RangeWithRange ==
  {RangeUnion(r, q) : r \in Pieces, q \in Pieces}
    \cup {RangeIntersection(r, q) : r \in Pieces, q \in Pieces}
    \cup {RangeDiff(r, q) : r \in Pieces, q \in {q \in Pieces : ~Empty(q)}}
    \cup {SymmetricDifference(x, y) : x \in Ranges, y \in Ranges}

Nested == Combined(InnerSets, InnerSets)
Operands == BorrowedSets \cup Ranges \cup RangeWithRange \cup Nested

SetWithSet(rs) == Combined({Iter(rs)}, BorrowedSets)
SetWithRange(rs) == Combined({Iter(rs)}, Ranges)
SetWithIterator(rs) ==
  Combined({Iter(rs)}, Nested) \cup Combined(Combined({Iter(rs)}, InnerSets), InnerSets)
RangeWithSet(rs) == Combined(Ranges, {Iter(rs)})

SoughtSets == {IntoIter(Canonical(S)) : S \in OwnedSought}
SetWithOwnedSet(rs) == Combined({Iter(rs)}, SoughtSets)
RangeWithOwnedSet == Combined(Ranges, SoughtSets)
OwnedOperators == Combined(SoughtSets, BorrowedSets \cup SoughtSets)

(* The integers an unused iterator stands for. *)
RECURSIVE Denotes(_)
Denotes(x) ==
  CASE x.type \in {"RangeIter", "IntoRangeIter"} -> Values(x.ranges)
    [] x.type = "Once" -> IF x.range = None THEN {} ELSE ValuesOf(x.range)
    [] x.type = "RangeUnionIter" ->
         UNION {ValuesOf(r) : r \in {x.a, x.b} \ {None}}
    [] x.type = "RangeDiffIter" ->
         IF x.this = None THEN {} ELSE ValuesOf(x.this) \ ValuesOf(x.other)
    [] x.type = "UnionIter" -> Denotes(x.a_iter) \cup Denotes(x.b_iter)
    [] x.type = "DifferenceIter" -> Denotes(x.a_iter) \ Denotes(x.b_iter)
    [] x.type = "IntersectionIter" -> Denotes(x.a_iter) \cap Denotes(x.b_iter)
    [] x.type = "SymmetricDifferenceIter" ->
         (Denotes(x.a_iter) \ Denotes(x.b_iter)) \cup (Denotes(x.b_iter) \ Denotes(x.a_iter))

Init ==
  /\ VectorInit
  /\ it = None /\ owed = {} /\ sought = 0 /\ last = None

NoIterator == it = None /\ UNCHANGED <<it, owed, sought, last>>

(* In place: union_mut, difference_mut and the operators |= and -=. *)
UnionMut(o) == NoIterator /\ VectorUnion(Collect(o), Denotes(o))

DifferenceMut(o) == NoIterator /\ VectorDifference(Collect(o), Denotes(o))

IntersectionMut(o) ==
  NoIterator /\ VectorReplace(Collect(Intersection(Iter(ranges), o)), model \cap Denotes(o))

SymmetricDifferenceMut(o) ==
  /\ NoIterator
  /\ VectorReplace(Collect(SymmetricDifference(Iter(ranges), o)),
                   (model \ Denotes(o)) \cup (Denotes(o) \ model))

KeepLeft(at) == NoIterator /\ VectorKeepLeft(at)

KeepRight(at) == NoIterator /\ VectorKeepRight(at)

FaultyShiftBy(d) ==
  /\ NoIterator
  /\ ranges' = Shift(ranges, d)
  /\ model' = {v + d : v \in model}

(* By one: a longer shift is a sequence of these. *)
ShiftBy(d) == NoIterator /\ VectorShift(d)

Clear == NoIterator /\ VectorClear

(* A lazy iterator: of the set alone, or of an operation on it. *)
Start(x) ==
  /\ it = None
  /\ it' = x /\ owed' = Denotes(x) /\ sought' = 0 /\ last' = None
  /\ UNCHANGED <<ranges, model>>

Pass(res, floor) ==
  LET r == res.out
  IN  /\ IF r \in {None, Hang}
           THEN it' = r /\ owed' = {}
           ELSE it' = res.it /\ owed' = {v \in owed : v >= r.end}
      /\ sought' = floor /\ last' = r
      /\ UNCHANGED <<ranges, model>>

NextCall == it \notin {None, Hang} /\ Pass(Next(it), 0)

SeekCall(n) == it \notin {None, Hang} /\ Pass(SeekEndGe(it, n), n)

Begin ==
  \E x \in {Iter(ranges)} \cup RangeWithRange
            \cup SetWithSet(ranges) \cup SetWithRange(ranges) \cup SetWithIterator(ranges)
            \cup RangeWithSet(ranges) \cup SetWithOwnedSet(ranges)
            \cup RangeWithOwnedSet \cup OwnedOperators : Start(x)

Mutate ==
  \/ \E o \in Operands \cup OwnedSets : UnionMut(o) \/ DifferenceMut(o)
  \/ \E o \in Operands : IntersectionMut(o) \/ SymmetricDifferenceMut(o)

Step ==
  \/ Mutate \/ Begin \/ NextCall \/ Clear
  \/ \E n \in Points : SeekCall(n) \/ KeepLeft(n) \/ KeepRight(n)
  \/ ShiftBy(1) \/ ShiftBy(-1)

Spec == Init /\ [][Step]_vars
-----------------------------------------------------------------------------
TypeOK ==
  /\ \A k \in DOMAIN ranges : {ranges[k].start, ranges[k].end} \subseteq Points
  /\ model \subseteq 0 .. Bound - 1 /\ owed \subseteq 0 .. Bound - 1
  /\ sought \in Points

(* iter.rs:10: what an iterator yields, by next and by seeks, is non-empty, *)
(* sorted and non-adjacent.                                                 *)
YieldsInOrder ==
  [][last' \notin {None, Hang} /\ it # None =>
       ~Empty(last') /\ (last # None => last.end < last'.start)]_vars

(* Nothing is yielded that is not in the result, no call fails to return,   *)
(* and no value is passed over but the ones below the point sought.         *)
YieldsExactly ==
  [][it # None =>
       /\ last' # Hang
       /\ last' = None => \A v \in owed : v < sought'
       /\ last' # None => /\ ValuesOf(last') \subseteq owed
                          /\ last'.end >= sought'
                          /\ \A v \in owed : sought' <= v /\ v < last'.end
                                               => v \in ValuesOf(last')]_vars

(* The predicates, with every operand, and the readers answer for the set   *)
(* of integers.                                                             *)
QueriesAgree ==
  it = None =>
    /\ \A o \in Operands :
         LET O == Denotes(o)
         IN  /\ IsSubset(Iter(ranges), o) = (model \subseteq O)
             /\ IsSuperset(Iter(ranges), o) = (O \subseteq model)
             /\ IsDisjoint(Iter(ranges), o) = (model \cap O = {})
    /\ \A S \in Borrowed : SetInSet(ranges, Canonical(S)) = (model \subseteq S)
    /\ \A r \in Pieces : RangeInSet(r, ranges) = (ValuesOf(r) \subseteq model)
    /\ \A v \in Points : Holds(ranges, v) = (v \in model)
    /\ RsLen(ranges) = Cardinality(model)
    /\ Range(IterValues(ranges)) = model /\ Len(IterValues(ranges)) = RsLen(ranges)
    /\ model # {} => /\ RsMin(ranges) = Min(model) /\ RsMax(ranges) = Max(model)

Covers(sets, res) ==
  LET chosen == {sets[k] : k \in Range(res.covered)}
  IN  /\ IsInjective(res.covered)
      /\ UNION chosen \subseteq model
      /\ Values(res.uncovered) = model \ UNION chosen /\ Normal(res.uncovered)
      /\ \A k \in 1 .. 3 : sets[k] \subseteq model
                            => sets[k] \cap Values(res.uncovered) = {}

(* cover: what is chosen lies in the query, what is reported uncovered is   *)
(* the rest of the query, and no set offered could still cover part of it.  *)
CoverExact ==
  it = None =>
    \A sets \in [1 .. 3 -> Inner] :
      Covers(sets, FindCover(ranges, [k \in 1 .. 3 |-> Canonical(sets[k])]))

(* iter.rs:36, "This advances the iterator until it yields a range where    *)
(* range.end >= n": so a call that seeks comes to an end.                   *)
CallsReturn == it # Hang
=============================================================================
