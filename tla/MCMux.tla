------------------------------- MODULE MCMux -------------------------------
(***************************************************************************)
(* Instances of Mux: handles, slot limits and the frames each handle       *)
(* writes.  A and B are the two peers, x and y two stream ids.             *)
(***************************************************************************)
EXTENDS Mux

CONSTANTS A, B, x, y

On(p, i, n) == [peer |-> p, id |-> i, n |-> n]

(* One stream, a handle at each end. *)
OneStream == {On(A, x, 1), On(B, x, 1)}
OneSlot == [p \in Peer |-> 1]
BeyondCredit == [h \in Handle |-> IF h.peer = A THEN 3 ELSE 1]
ThreeByA == [h \in Handle |-> IF h.peer = A THEN 3 ELSE 0]

(* Two streams of A compete for the one slot of A; B follows one of them. *)
TwoStreams == {On(A, x, 1), On(A, y, 1), On(B, x, 1)}
OnlyA == [h \in Handle |-> IF h.peer = A THEN 1 ELSE 0]
=============================================================================
