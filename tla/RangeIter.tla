------------------------------- MODULE RangeIter -------------------------------
(***************************************************************************)
(* The lazy range iterators of rangeset (src/rangeset/src/iter.rs) over the *)
(* cursors of module Ranges, and what running one to its end computes.      *)
(*                                                                         *)
(* The loops are deterministic: one whose body leaves its state as it was   *)
(* never ends, and the call is said to yield Hang.                          *)
(*                                                                         *)
(* The definitions named Faulty... are plausible bugs that PROJECT.json     *)
(* lists as mutants; each breaks a property the runs check.                 *)
(***************************************************************************)
EXTENDS Ranges

CONSTANT Hang   (* the call never returns *)
-----------------------------------------------------------------------------
(* Combinators.  Each merges two iterators and keeps at most one range of   *)
(* either aside.  Advance is a call of either method: next if n is None,    *)
(* seek_end_ge(n) else.                                                     *)
RECURSIVE Advance(_, _)
Next(it) == Advance(it, None)
SeekEndGe(it, n) == Advance(it, n)

Combine(type, x, y) ==
  [type |-> type, a_iter |-> x, b_iter |-> y, a |-> None, b |-> None, current |-> None]
Union(x, y) == Combine("UnionIter", x, y)
Difference(x, y) == Combine("DifferenceIter", x, y)
Intersection(x, y) == Combine("IntersectionIter", x, y)
SymmetricDifference(x, y) == Combine("SymmetricDifferenceIter", x, y)

Put(it, pa, pb) ==
  [it EXCEPT !.a = pa.out, !.a_iter = pa.it, !.b = pb.out, !.b_iter = pb.it]

(* buffer.take().or_else(..): the range kept aside, or one from the call. *)
TakeOr(buffer, iter, n) == IF buffer # None THEN Yield(buffer, iter) ELSE Advance(iter, n)

(* Another round of a loop of next. *)
Again(it, left) == IF left = it THEN Yield(Hang, it) ELSE Next(left)

(* The start of seek_end_ge: both sides brought to a range that ends at n   *)
(* or later.                                                                *)
Refill(buffer, iter, n) ==
  IF buffer # None /\ buffer.end >= n THEN Yield(buffer, iter) ELSE SeekEndGe(iter, n)

FaultySeekBoth(it, n) == Put(it, SeekEndGe(it.a_iter, n), SeekEndGe(it.b_iter, n))

SeekBoth(it, n) == Put(it, Refill(it.a, it.a_iter, n), Refill(it.b, it.b_iter, n))

Touches(r, current) == r # None /\ r.start <= current.end
Absorb(r, current) ==
  IF Touches(r, current) THEN Rg(current.start, Larger(current.end, r.end)) ELSE current
Unless(touched, p) == IF touched THEN Yield(None, p.it) ELSE p

(* UnionIter: extend current with either side until neither touches it. *)
RECURSIVE Extend(_, _)
ExtendBoth(it, current, pa, grown, pb) ==
  LET a == Touches(pa.out, current)
      b == Touches(pb.out, grown)
      more == Absorb(pb.out, grown)
      left == Put(it, Unless(a, pa), Unless(b, pb))
  IN  IF ~a /\ ~b THEN Yield(current, left)
      ELSE IF left = it /\ more = current THEN Yield(Hang, it)
      ELSE Extend(left, more)

ExtendA(it, current, pa) ==
  LET grown == Absorb(pa.out, current)
  IN  ExtendBoth(it, current, pa, grown, TakeOr(it.b, it.b_iter, grown.end))

Extend(it, current) == ExtendA(it, current, TakeOr(it.a, it.a_iter, current.end))

FaultyUnite(it, pa, pb) ==
  LET left == Put(it, Yield(None, pa.it), Yield(None, pb.it))
      a == pa.out
      b == pb.out
  IN  IF a = None THEN Yield(b, left)
      ELSE IF b = None THEN Yield(a, left)
      ELSE IF a.end <= b.start THEN Yield(a, [left EXCEPT !.b = b])
      ELSE IF b.end <= a.start THEN Yield(b, [left EXCEPT !.a = a])
      ELSE Extend(left, Rg(Smaller(a.start, b.start), Larger(a.end, b.end)))

Unite(it, pa, pb) ==
  LET left == Put(it, Yield(None, pa.it), Yield(None, pb.it))
      a == pa.out
      b == pb.out
  IN  IF a = None THEN Yield(b, left)
      ELSE IF b = None THEN Yield(a, left)
      ELSE IF a.end < b.start THEN Yield(a, [left EXCEPT !.b = b])
      ELSE IF b.end < a.start THEN Yield(b, [left EXCEPT !.a = a])
      ELSE Extend(left, Rg(Smaller(a.start, b.start), Larger(a.end, b.end)))

UnionNext(it) == Unite(it, TakeOr(it.a, it.a_iter, None), TakeOr(it.b, it.b_iter, None))

(* DifferenceIter: a_iter and a are `this`, b_iter and b are `other`. *)
Subtract(it, pa, pb) ==
  LET this == pa.out
      other == pb.out
      rest == IF other.end < this.end THEN Rg(other.end, this.end) ELSE None
  IN  IF other = None \/ this.end <= other.start
        THEN Yield(this, Put(it, Yield(None, pa.it), pb))
      ELSE IF this.start >= other.end
        THEN Again(it, Put(it, pa, SeekEndGe(pb.it, this.start)))
      ELSE IF this.start < other.start
        THEN Yield(Rg(this.start, other.start), Put(it, Yield(rest, pa.it), pb))
      ELSE Again(it, Put(it, Yield(rest, pa.it), pb))

DifferenceOf(it, pa) ==
  IF pa.out = None THEN Yield(None, [it EXCEPT !.a_iter = pa.it])
  ELSE Subtract(it, pa, TakeOr(it.b, it.b_iter, pa.out.start))

DifferenceNext(it) == DifferenceOf(it, TakeOr(it.a, it.a_iter, None))

(* Results are passed over until one ends at n or later: find in the        *)
(* difference, and seek_end_ge where it is not overridden.                  *)
RECURSIVE Find(_, _)
Find(res, n) ==
  IF n = None \/ res.out \in {None, Hang} THEN res
  ELSE IF res.out.end >= n THEN res
  ELSE Find(Next(res.it), n)

DifferenceFrom(it, pa, n) ==
  LET left == [it EXCEPT !.a = pa.out, !.a_iter = pa.it]
  IN  IF pa.out = None THEN Yield(None, left) ELSE Find(DifferenceNext(left), n)

DifferenceSeek(it, n) == DifferenceFrom(it, Refill(it.a, it.a_iter, n), n)

Intersect(it, pa, pb) ==
  LET a == pa.out
      b == pb.out
      left == Put(it, Yield(None, pa.it), Yield(None, pb.it))
  IN  IF a = None THEN Yield(None, [it EXCEPT !.a_iter = pa.it])
      ELSE IF b = None THEN Yield(None, left)
      ELSE IF a.end <= b.start THEN Again(it, Put(it, SeekEndGe(pa.it, b.start), pb))
      ELSE IF b.end <= a.start THEN Again(it, Put(it, pa, SeekEndGe(pb.it, a.start)))
      ELSE Yield(Rg(Larger(a.start, b.start), Smaller(a.end, b.end)),
                 IF a.end <= b.end THEN [left EXCEPT !.b = b] ELSE [left EXCEPT !.a = a])

IntersectionNext(it) ==
  Intersect(it, TakeOr(it.a, it.a_iter, None), TakeOr(it.b, it.b_iter, None))

(* SymmetricDifferenceIter: chunks of either side, joined where they touch. *)
NextChunks(it) ==
  LET n == IF it.current # None THEN it.current.end ELSE None
  IN  Put(it, TakeOr(it.a, it.a_iter, n), TakeOr(it.b, it.b_iter, n))

(* The first chunk of a pair of ranges and what is left of either; two that *)
(* start together cancel out as far as the shorter one goes.                *)
Split(a, b) ==
  IF a = None THEN [chunk |-> b, a |-> None, b |-> None]
  ELSE IF b = None THEN [chunk |-> a, a |-> None, b |-> None]
  ELSE IF a.end <= b.start THEN [chunk |-> a, a |-> None, b |-> b]
  ELSE IF b.end <= a.start THEN [chunk |-> b, a |-> a, b |-> None]
  ELSE IF a.start < b.start
    THEN [chunk |-> Rg(a.start, b.start), a |-> Rg(b.start, a.end), b |-> b]
  ELSE IF b.start < a.start
    THEN [chunk |-> Rg(b.start, a.start), a |-> a, b |-> Rg(a.start, b.end)]
  ELSE [chunk |-> None, a |-> NonEmpty(Rg(b.end, a.end)), b |-> NonEmpty(Rg(a.end, b.end))]

(* emit_or_coalesce: the chunk waits in current for one that touches it. *)
Coalesce(it, both, cut) ==
  LET left == [both EXCEPT !.a = cut.a, !.b = cut.b]
  IN  IF both.a = None /\ both.b = None
        THEN Yield(it.current, [both EXCEPT !.current = None])
      ELSE IF cut.chunk = None THEN Again(it, left)
      ELSE IF it.current = None THEN Again(it, [left EXCEPT !.current = cut.chunk])
      ELSE IF it.current.end = cut.chunk.start
        THEN Again(it, [left EXCEPT !.current.end = cut.chunk.end])
      ELSE Yield(it.current, [left EXCEPT !.current = cut.chunk])

SplitChunks(it, both) == Coalesce(it, both, Split(both.a, both.b))

SymmetricDifferenceNext(it) == SplitChunks(it, NextChunks(it))

Advance(it, n) ==
  LET next == n = None
  IN  CASE it.type = "RangeIter" -> IF next THEN RangeIterNext(it) ELSE RangeIterSeek(it, n)
        [] it.type = "IntoRangeIter" ->
             IF next THEN IntoRangeIterNext(it) ELSE IntoRangeIterSeek(it, n)
        [] it.type = "Once" -> IF next THEN OnceNext(it) ELSE OnceSeek(it, n)
        [] it.type = "RangeUnionIter" ->
             IF next THEN RangeUnionNext(it) ELSE RangeUnionSeek(it, n)
        [] it.type = "RangeDiffIter" ->
             IF next THEN RangeDiffNext(it) ELSE RangeDiffSeek(it, n)
        [] it.type = "UnionIter" -> UnionNext(IF next THEN it ELSE SeekBoth(it, n))
        [] it.type = "DifferenceIter" ->
             IF next THEN DifferenceNext(it) ELSE DifferenceSeek(it, n)
        [] it.type = "IntersectionIter" ->
             IntersectionNext(IF next THEN it ELSE SeekBoth(it, n))
        [] it.type = "SymmetricDifferenceIter" -> Find(SymmetricDifferenceNext(it), n)
-----------------------------------------------------------------------------
(* Consumers. *)
RECURSIVE Collect(_)
Gather(res) == IF res.out = None THEN <<>> ELSE <<res.out>> \o Collect(res.it)
Collect(it) == Gather(Next(it))

(* seek: the range that holds n, if any. *)
Holding(r, n) == IF r # None /\ n \in ValuesOf(r) THEN r ELSE None
Seek(it, n) == Holding(SeekEndGe(it, n).out, n)

(* is_subset, and is_superset with the sides exchanged: every range of x    *)
(* within one range of y, which is sought only when x has passed it.        *)
RECURSIVE Within(_, _)
Fits(a, sought) ==
  LET b == sought.out
  IN  /\ b # None
      /\ b.start <= a.out.start /\ b.end >= a.out.end
      /\ Within(Next(a.it), sought)

FaultyWithin(a, b) ==
  \/ a.out = None
  \/ Fits(a, IF b.out = None THEN SeekEndGe(b.it, a.out.start) ELSE b)

Within(a, b) ==
  \/ a.out = None
  \/ Fits(a, IF b.out = None \/ b.out.end < a.out.start
               THEN SeekEndGe(b.it, a.out.start) ELSE b)

IsSubset(x, y) == Within(Next(x), Yield(None, y))
IsSuperset(x, y) == Within(Next(y), Yield(None, x))

(* is_disjoint.  What is kept of either side for the next round comes with  *)
(* its iterator.                                                            *)
RECURSIVE Apart(_, _)
ApartAgain(a, b, aa, bb) == IF aa = a /\ bb = b THEN Hang ELSE Apart(aa, bb)

Compare(a, b, aa, bb) ==
  IF aa.out = None \/ bb.out = None THEN TRUE
  ELSE IF aa.out.end <= bb.out.start
    THEN ApartAgain(a, b, SeekEndGe(aa.it, bb.out.start), bb)
  ELSE IF bb.out.end <= aa.out.start
    THEN ApartAgain(a, b, aa, SeekEndGe(bb.it, aa.out.start))
  ELSE FALSE

Apart(a, b) == Compare(a, b, TakeOr(a.out, a.it, None), TakeOr(b.out, b.it, None))

IsDisjoint(x, y) == Apart(Yield(None, x), Yield(None, y))
=============================================================================
