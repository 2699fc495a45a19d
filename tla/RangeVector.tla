------------------------------ MODULE RangeVector ------------------------------
(***************************************************************************)
(* The vector of a RangeSet (src/rangeset/src/set.rs) under the operations  *)
(* that change it in place, each with the ranges that its operand yields.   *)
(* `model` is the set of integers the RangeSet stands for, kept by the      *)
(* mathematical operations; each action is told the integers that its       *)
(* operand stands for.  RangeSet gives the actions the iterators that the   *)
(* operands are; here they may yield whatever ranges there are.             *)
(***************************************************************************)
EXTENDS Ranges

CONSTANT Bound   (* bound: the index type goes from 0 to Bound *)

VARIABLES
  ranges,  (* RangeSet::ranges     *)
  model    (* the integers it holds *)

Span == [start : Int, end : Int]

VectorInit == ranges = <<>> /\ model = {}

(* union_mut and difference_mut take the ranges in any order, overlapping,  *)
(* empty or reversed.                                                       *)
VectorUnion(xs, S) == ranges' = UnionWith(ranges, xs) /\ model' = model \cup S

VectorDifference(xs, S) == ranges' = DifferenceWith(ranges, xs) /\ model' = model \ S

(* intersection_mut and symmetric_difference_mut replace the vector by what *)
(* an iterator yields, as it comes.                                         *)
VectorReplace(xs, S) == ranges' = xs /\ model' = S

(* split_off leaves one part in the set and returns the other: the program  *)
(* goes on with either.                                                     *)
VectorKeepLeft(at) ==
  /\ ranges' = SplitOff(ranges, at).left
  /\ model' = {v \in model : v < at}

VectorKeepRight(at) ==
  /\ ranges' = SplitOff(ranges, at).right
  /\ model' = {v \in model : v >= at}

(* shift_left and shift_right, within the bounds of the index type.  Beyond  *)
(* them the code panics with overflow checks and wraps without: no such      *)
(* shift is taken.                                                           *)
VectorShift(d) ==
  /\ \A v \in model : v + d \in 0 .. Bound - 1
  /\ ranges' = Shift(ranges, d)
  /\ model' = {v + d : v \in model}

VectorClear == ranges' = <<>> /\ model' = {}

VectorStep ==
  \/ \E xs \in Seq(Span) : \/ VectorUnion(xs, Values(xs))
                           \/ VectorDifference(xs, Values(xs))
                           \/ Normal(xs) /\ VectorReplace(xs, Values(xs))
  \/ \E n \in Int : VectorKeepLeft(n) \/ VectorKeepRight(n) \/ VectorShift(n)
  \/ VectorClear

VectorSpec == VectorInit /\ [][VectorStep]_<<ranges, model>>
-----------------------------------------------------------------------------
(* set.rs:84, "The ranges *MUST* be sorted, non-adjacent, non-intersecting, *)
(* and non-empty", after any sequence of mutations; and the set is what the *)
(* operations of sets make it.                                              *)
SetInvariant == Normal(ranges) /\ Values(ranges) = model
=============================================================================
