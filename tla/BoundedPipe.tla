----------------------------- MODULE BoundedPipe -----------------------------
(***************************************************************************)
(* What flow control promises, without windows or frames: every open pipe  *)
(* holds at most `limit` bytes between the peer's writer and the local     *)
(* reader, and the limits never exceed the connection's budget by more     *)
(* than the default every pipe starts with.  WindowFlow implements this.   *)
(***************************************************************************)
EXTENDS Naturals

CONSTANTS
  Pipe,     (* names of pipes                                      *)
  Default,  (* limit of a new pipe                                 *)
  Extra     (* what all limits together may grow beyond Default    *)

VARIABLES
  held,     (* held[p]: bytes accepted from the writer and not yet read  *)
  limit,    (* limit[p]: what held[p] may grow to; 0 when not open       *)
  spent     (* how much of Extra is in use                               *)

vars == <<held, limit, spent>>

Init ==
  /\ held = [p \in Pipe |-> 0]
  /\ limit = [p \in Pipe |-> 0]
  /\ spent = 0

Open(p) ==
  /\ limit[p] = 0
  /\ limit' = [limit EXCEPT ![p] = Default]
  /\ UNCHANGED <<held, spent>>

Accept(p) ==
  \E h \in held[p] .. limit[p] :
    /\ held' = [held EXCEPT ![p] = h]
    /\ UNCHANGED <<limit, spent>>

Consume(p) ==
  \E h \in 0 .. held[p], d \in 0 .. (Extra - spent) :
    /\ limit[p] # 0
    /\ held' = [held EXCEPT ![p] = h]
    /\ limit' = [limit EXCEPT ![p] = @ + d]
    /\ spent' = spent + d

Close(p) ==
  /\ limit[p] # 0
  /\ held' = [held EXCEPT ![p] = 0]
  /\ limit' = [limit EXCEPT ![p] = 0]
  /\ spent' = spent - (limit[p] - Default)

Next == \E p \in Pipe : Open(p) \/ Accept(p) \/ Consume(p) \/ Close(p)

Spec == Init /\ [][Next]_vars
=============================================================================
