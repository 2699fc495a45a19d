------------------------------ MODULE MCRangeSet ------------------------------
(* Five values, so that a set has up to three ranges; every set of them as  *)
(* an operand; ranges that touch, overlap, enclose each other, are empty or *)
(* reversed.                                                                *)
EXTENDS RangeSet

AllSets == SUBSET (0 .. 4)
NoSets == {}
SomeRanges == {Rg(0, 2), Rg(1, 4), Rg(2, 5), Rg(3, 3), Rg(4, 1)}
SomeSets == {{0, 1}, {2}, {0, 3, 4}}

FewSets == {{0, 1}, {1, 2}, {2, 3}, {0, 2}}
=============================================================================
