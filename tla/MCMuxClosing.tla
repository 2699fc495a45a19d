----------------------------- MODULE MCMuxClosing -----------------------------
(***************************************************************************)
(* Instances of MuxClosing.                                                *)
(***************************************************************************)
EXTENDS MuxClosing

CONSTANTS A, B

Both(sync, keep) == [p \in Peer |-> [close_sync |-> sync, keep_alive |-> keep]]
OnlyASync == [p \in Peer |-> [close_sync |-> p = A, keep_alive |-> FALSE]]
SomeConfigs == {Both(TRUE, FALSE), Both(TRUE, TRUE), Both(FALSE, FALSE), OnlyASync}
Synchronized == {Both(TRUE, FALSE)}

(* The socket takes one piece from A, and all that B may have to flush. *)
OneFromA == [p \in Peer |-> IF p = A THEN 1 ELSE 8]
OneFromEach == [p \in Peer |-> 1]
OneEach == [p \in Peer |-> 1]
OnlyA == [p \in Peer |-> IF p = A THEN 1 ELSE 0]
=============================================================================
