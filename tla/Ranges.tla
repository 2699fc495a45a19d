---------------------------------- MODULE Ranges ---------------------------------
(***************************************************************************)
(* Ranges and vectors of ranges: the iterators that hold ranges already     *)
(* there (src/rangeset/src/range.rs and the cursors of set.rs), and the     *)
(* operations of RangeSet on its vector.  A range is a record [start, end], *)
(* half open.  An iterator is a record that names its type; a call returns  *)
(* the range it yields and the iterator it leaves: [out, it].               *)
(*                                                                         *)
(* The definitions named Faulty... are plausible bugs that PROJECT.json     *)
(* lists as mutants; each breaks a property the runs check.                 *)
(***************************************************************************)
EXTENDS Integers, Sequences, FiniteSets, SequencesExt

CONSTANT None   (* Option::None *)

Rg(s, e) == [start |-> s, end |-> e]
Smaller(m, n) == IF m < n THEN m ELSE n
Larger(m, n) == IF m > n THEN m ELSE n
Empty(r) == r.start >= r.end
ValuesOf(r) == r.start .. (r.end - 1)
Values(rs) == UNION {ValuesOf(rs[k]) : k \in DOMAIN rs}

(* The four invariants the trait RangeIterator and RangeSet::ranges demand. *)
Normal(rs) ==
  /\ \A k \in DOMAIN rs : ~Empty(rs[k])
  /\ \A k \in 1 .. Len(rs) - 1 : rs[k].end < rs[k + 1].start

Yield(out, it) == [out |-> out, it |-> it]
NonEmpty(r) == IF Empty(r) THEN None ELSE r
-----------------------------------------------------------------------------
(* Cursors over ranges that are there already.  RangeIter borrows the set   *)
(* and seeks in what is left of it.                                         *)
Iter(rs) == [type |-> "RangeIter", ranges |-> rs]

RangeIterNext(it) ==
  IF it.ranges = <<>> THEN Yield(None, it)
  ELSE Yield(Head(it.ranges), Iter(Tail(it.ranges)))

EndsBefore(rs, n) == Cardinality({k \in DOMAIN rs : rs[k].end < n})

RangeIterSeek(it, n) ==
  RangeIterNext(Iter(SubSeq(it.ranges, EndsBefore(it.ranges, n) + 1, Len(it.ranges))))

(* IntoRangeIter owns the vector and seeks in the whole of it, whatever it  *)
(* has yielded.                                                             *)
IntoIter(rs) == [type |-> "IntoRangeIter", pos |-> 0, ranges |-> rs]

IntoRangeIterNext(it) ==
  Yield(IF it.pos < Len(it.ranges) THEN it.ranges[it.pos + 1] ELSE None,
        [it EXCEPT !.pos = @ + 1])

IntoRangeIterSeek(it, n) ==
  IntoRangeIterNext([it EXCEPT !.pos = EndsBefore(it.ranges, n)])

(* Once, and the intersection of two ranges, hold one range at most.        *)
Once(r) == [type |-> "Once", range |-> NonEmpty(r)]

RangeIntersection(a, b) ==
  [type |-> "Once",
   range |-> NonEmpty(Rg(Larger(a.start, b.start), Smaller(a.end, b.end)))]

OnceNext(it) == Yield(it.range, [it EXCEPT !.range = None])

OnceSeek(it, n) ==
  Yield(IF it.range # None /\ it.range.end >= n THEN it.range ELSE None,
        [it EXCEPT !.range = None])

RangeUnion(a, b) == [type |-> "RangeUnionIter", a |-> NonEmpty(a), b |-> NonEmpty(b)]

RangeUnionNext(it) ==
  IF it.a = None \/ it.b = None
    THEN Yield(IF it.a # None THEN it.a ELSE it.b, [it EXCEPT !.a = None, !.b = None])
  ELSE LET left == IF it.a.start < it.b.start THEN it.a ELSE it.b
           right == IF it.a.start < it.b.start THEN it.b ELSE it.a
       IN  IF left.end < right.start
             THEN Yield(left, [it EXCEPT !.a = right, !.b = None])
             ELSE Yield(Rg(left.start, Larger(left.end, right.end)),
                        [it EXCEPT !.a = None, !.b = None])

RangeUnionSeek(it, n) ==
  LET first == RangeUnionNext(it)
      rest == first.it.a
  IN  IF first.out = None \/ first.out.end >= n THEN first
      ELSE Yield(IF rest # None /\ rest.end >= n THEN rest ELSE None,
                 [first.it EXCEPT !.a = None])

(* Set::is_disjoint of two ranges, the form the difference uses. *)
RangesDisjoint(r, other) == r.start >= other.end \/ r.end <= other.start

RangeDiff(this, other) ==
  [type |-> "RangeDiffIter", this |-> NonEmpty(this),
   other |-> IF other.start > other.end THEN Rg(other.start, other.start) ELSE other]

RangeDiffNext(it) ==
  LET this == it.this
      other == it.other
      spent == [it EXCEPT !.this = None]
  IN  IF this = None THEN Yield(None, it)
      ELSE IF RangesDisjoint(this, other) THEN Yield(this, spent)
      ELSE IF this.start < other.start
        THEN Yield(Rg(this.start, other.start),
                   IF other.end < this.end
                     THEN [it EXCEPT !.this = Rg(other.end, this.end),
                                     !.other.end = other.start]
                     ELSE spent)
      ELSE Yield(NonEmpty(Rg(other.end, this.end)), spent)

RangeDiffSeek(it, n) ==
  LET first == RangeDiffNext(it)
      rest == first.it.this
  IN  IF first.out = None \/ first.out.end >= n THEN first
      ELSE Yield(IF rest # None /\ rest.end >= n THEN rest ELSE None,
                 [first.it EXCEPT !.this = None])
-----------------------------------------------------------------------------
(* RangeSet on its vector of ranges.  An operation with an operand takes the *)
(* sequence of ranges that the operand yields.                              *)
(* The last range grown or cut to end at e. *)
LastEndingAt(rs, e) == [rs EXCEPT ![Len(rs)] = Rg(@.start, e)]

(* sort_merge: sort by start and end, join what overlaps or touches. *)
Join(rs, r) ==
  IF rs = <<>> \/ r.start > Last(rs).end THEN Append(rs, r)
  ELSE LastEndingAt(rs, Larger(Last(rs).end, r.end))

Before(r, q) == r.start < q.start \/ (r.start = q.start /\ r.end < q.end)
Rank(rs, i) ==
  Cardinality({j \in DOMAIN rs : Before(rs[j], rs[i]) \/ (rs[j] = rs[i] /\ j <= i)})
Sorted(rs) == [n \in DOMAIN rs |-> rs[CHOOSE i \in DOMAIN rs : Rank(rs, i) = n]]

SortMerge(rs) == FoldLeft(Join, <<>>, Sorted(rs))

(* new_from_iter: From<Vec>, FromIterator and the slices come here. *)
Keep(rs, r) == IF r.start < r.end THEN Append(rs, r) ELSE rs
NewFromIter(rs) == SortMerge(FoldLeft(Keep, <<>>, rs))

FaultyPushRange(acc, r) ==
  IF Empty(r) THEN acc
  ELSE IF acc.ranges # <<>> /\ r.start = Last(acc.ranges).end
    THEN [acc EXCEPT !.ranges = LastEndingAt(@, r.end)]
  ELSE [ranges |-> Append(acc.ranges, r), sort |-> acc.sort]

(* push_range: join the tail, or append and say whether a sort is due. *)
PushRange(acc, r) ==
  IF Empty(r) THEN acc
  ELSE IF acc.ranges # <<>> /\ r.start = Last(acc.ranges).end
    THEN [acc EXCEPT !.ranges = LastEndingAt(@, r.end)]
  ELSE [ranges |-> Append(acc.ranges, r),
        sort |-> acc.sort \/ (acc.ranges # <<>> /\ r.start < Last(acc.ranges).end)]

Settle(acc) == IF acc.sort THEN SortMerge(acc.ranges) ELSE acc.ranges

UnionWith(rs, xs) == Settle(FoldLeft(PushRange, [ranges |-> rs, sort |-> FALSE], xs))

(* remove_range: splice the window of ranges that r meets. *)
RemoveRange(rs, r) ==
  LET lo == Cardinality({k \in DOMAIN rs : rs[k].end <= r.start})
      hi == Cardinality({k \in DOMAIN rs : rs[k].start < r.end})
      head == IF rs[lo + 1].start < r.start THEN <<Rg(rs[lo + 1].start, r.start)>> ELSE <<>>
      tail == IF rs[hi].end > r.end THEN <<Rg(r.end, rs[hi].end)>> ELSE <<>>
  IN  IF Empty(r) \/ hi <= lo THEN rs
      ELSE SubSeq(rs, 1, lo) \o head \o tail \o SubSeq(rs, hi + 1, Len(rs))

DifferenceWith(rs, xs) == FoldLeft(RemoveRange, rs, xs)

(* split_off: what stays below `at`, and the set of the rest. *)
SplitOff(rs, at) ==
  LET idx == Cardinality({k \in DOMAIN rs : rs[k].start < at})
      cut == idx > 0 /\ at < rs[idx].end
      rest == SubSeq(rs, idx + 1, Len(rs))
  IN  IF cut
        THEN [left |-> SubSeq(rs, 1, idx - 1) \o <<Rg(rs[idx].start, at)>>,
              right |-> <<Rg(at, rs[idx].end)>> \o rest]
        ELSE [left |-> SubSeq(rs, 1, idx), right |-> rest]

Shift(rs, d) == [k \in DOMAIN rs |-> Rg(rs[k].start + d, rs[k].end + d)]

RsMin(rs) == IF rs = <<>> THEN None ELSE Head(rs).start
RsEnd(rs) == IF rs = <<>> THEN None ELSE Last(rs).end
RsMax(rs) == IF rs = <<>> THEN None ELSE Last(rs).end - 1
RsLen(rs) == FoldLeft(LAMBDA n, r : n + (r.end - r.start), 0, rs)

RangeInRange(r, q) == r.start >= q.start /\ r.end <= q.end

RangeInSet(r, qs) ==
  LET next == Cardinality({k \in DOMAIN qs : r.start >= qs[k].end}) + 1
  IN  \/ Empty(r)
      \/ /\ qs # <<>>
         /\ r.start >= RsMin(qs) /\ r.end <= RsEnd(qs)
         /\ next <= Len(qs) /\ RangeInRange(r, qs[next])
=============================================================================
