--------------------------------- MODULE View ---------------------------------
(***************************************************************************)
(* A View of spansy (src/spansy/src/lib.rs): the bytes of a store at the    *)
(* indices of a RangeSet.  The store is shared and never changes, so a view *)
(* is written as its indices; the store is passed where bytes are read.     *)
(***************************************************************************)
EXTENDS RangeSetOps

CONSTANT Panic   (* an assertion of the code fails                          *)

Bytes(store, view) ==
  LET at == IterValues(view) IN [k \in DOMAIN at |-> store[at[k] + 1]]

(* What of the k-th range falls in the range s..e of the concatenation.     *)
Overlap(view, k, s, e) ==
  LET concat_pos == RsLen(SubSeq(view, 1, k - 1))
      concat_end == RsLen(SubSeq(view, 1, k))
      shift == view[k].start - concat_pos
  IN  Rg(shift + Larger(s, concat_pos), shift + Smaller(e, concat_end))

(* select_indices: the range s..e of the concatenation, in the store.       *)
SelectIndices(view, s, e) ==
  IF s > RsLen(view) \/ e > RsLen(view) THEN None
  ELSE NewFromIter([k \in DOMAIN view |-> Overlap(view, k, s, e)])

Subview(view, indices) == IF SetInSet(indices, view) THEN indices ELSE Panic

(* select, and the expect() that every use of it has.                       *)
Selected(view, indices) == IF indices = None THEN Panic ELSE Subview(view, indices)

Expect(view, r) == Selected(view, SelectIndices(view, r.start, r.end))

Without(view, other) == Collect(Difference(Iter(view), Iter(other)))
=============================================================================
