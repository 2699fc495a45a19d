---------------------------- MODULE ClosablePipe ----------------------------
(***************************************************************************)
(* What a pipe of futures-plex promises, without a ring, a lock or a       *)
(* waker: bytes come out in the order they went in, at most Cap are under  *)
(* way, nothing is accepted after a close, and the reader sees the end     *)
(* only when everything accepted has been read.  Plex implements this.     *)
(***************************************************************************)
EXTENDS Naturals, Sequences

CONSTANTS
  Pipe,   (* names of pipes *)
  Cap     (* bytes a pipe holds *)

VARIABLES
  queue,      (* queue[d]: bytes accepted and not yet read; a byte is its number *)
  delivered,  (* delivered[d]: bytes read *)
  closed,     (* closed[d]: nothing more is accepted *)
  ended       (* the pipes whose reader has seen the end *)

vars == <<queue, delivered, closed, ended>>

Init ==
  /\ queue = [d \in Pipe |-> <<>>]
  /\ delivered = [d \in Pipe |-> <<>>]
  /\ closed = [d \in Pipe |-> FALSE]
  /\ ended = {}

Accept(d) ==
  \E n \in 1 .. Cap - Len(queue[d]) :
    LET last == Len(delivered[d]) + Len(queue[d])
    IN  /\ ~closed[d]
        /\ queue' = [queue EXCEPT ![d] = @ \o [k \in 1 .. n |-> last + k]]
        /\ UNCHANGED <<delivered, closed, ended>>

Deliver(d) ==
  \E n \in 1 .. Len(queue[d]) :
    /\ delivered' = [delivered EXCEPT ![d] = @ \o SubSeq(queue[d], 1, n)]
    /\ queue' = [queue EXCEPT ![d] = SubSeq(@, n + 1, Len(@))]
    /\ UNCHANGED <<closed, ended>>

Close(d) ==
  /\ closed' = [closed EXCEPT ![d] = TRUE]
  /\ UNCHANGED <<queue, delivered, ended>>

ReachEnd(d) ==
  /\ closed[d] /\ queue[d] = <<>>
  /\ ended' = ended \cup {d}
  /\ UNCHANGED <<queue, delivered, closed>>

Next == \E d \in Pipe : Accept(d) \/ Deliver(d) \/ Close(d) \/ ReachEnd(d)

Spec == Init /\ [][Next]_vars
=============================================================================
