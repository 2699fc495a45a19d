--------------------------- MODULE FlowController ---------------------------
(***************************************************************************)
(* The arithmetic of mux/src/connection/stream/flow_control.rs: one        *)
(* controller per stream and side, as operators on a record                *)
(*                                                                         *)
(*   receive_window      bytes the peer may still send us                  *)
(*   max_receive_window  the size receive_window is topped up to           *)
(*   send_window         bytes we may still send the peer                  *)
(*                                                                         *)
(* Integers are naturals; the widths the code relies on are the constants  *)
(* U32_MAX and USIZE_MAX, so that an overflow is a fact about values.      *)
(***************************************************************************)
EXTENDS Naturals

CONSTANTS
  DEFAULT_CREDIT,                 (* initial window of a stream, in bytes      *)
  max_num_streams,                (* Config::max_num_streams                   *)
  max_connection_receive_window,  (* Config: USIZE_MAX stands for None         *)
  U32_MAX,                        (* largest u32                               *)
  USIZE_MAX                       (* largest usize                             *)

Least(a, b) == IF a <= b THEN a ELSE b
SaturatingSub(a, b) == IF a >= b THEN a - b ELSE 0

(* ConfigBuilder clamps max_num_streams to at least one and refuses a       *)
(* connection window that does not give every stream the default credit;    *)
(* what all streams need is computed with a multiplication that saturates.  *)
ASSUME FlowAssumption ==
  /\ DEFAULT_CREDIT \in Nat \ {0}
  /\ max_num_streams \in Nat \ {0}
  /\ U32_MAX \in Nat /\ USIZE_MAX \in Nat
  /\ DEFAULT_CREDIT <= U32_MAX /\ U32_MAX <= USIZE_MAX
  /\ max_connection_receive_window \in Nat
  /\ max_connection_receive_window <= USIZE_MAX
  /\ Least(max_num_streams * DEFAULT_CREDIT, USIZE_MAX) <= max_connection_receive_window

(* What the connection may hand out beyond the default credit of each stream. *)
Budget == SaturatingSub(max_connection_receive_window,
                        Least(max_num_streams * DEFAULT_CREDIT, USIZE_MAX))

Controller ==
  [receive_window : Nat, max_receive_window : Nat, send_window : Nat]

NewController ==
  [receive_window     |-> DEFAULT_CREDIT,
   max_receive_window |-> DEFAULT_CREDIT,
   send_window        |-> DEFAULT_CREDIT]

(* The definitions named Faulty... are plausible bugs: PROJECT.json lists    *)
(* them as mutants, and each breaks a property the runs check.               *)
FaultyUngranted(fc, buffer_len) == fc.max_receive_window - fc.receive_window

(* Bytes read by the application whose credit has not gone back yet. *)
Ungranted(fc, buffer_len) ==
  SaturatingSub(fc.max_receive_window - fc.receive_window, buffer_len)

(* An update is worth a frame once half of the window waits to be granted. *)
UpdateDue(fc, buffer_len) ==
  Ungranted(fc, buffer_len) >= fc.max_receive_window \div 2

ConnectionLimit(fc, accumulated) ==
  fc.max_receive_window + SaturatingSub(Budget, accumulated)

FaultyTunedMax(fc, accumulated) ==
  Least(2 * fc.max_receive_window, ConnectionLimit(fc, accumulated))

(* Auto-tuning: double the maximum, within what the connection has left. *)
TunedMax(fc, accumulated) ==
  Least(Least(2 * fc.max_receive_window, U32_MAX),
        Least(ConnectionLimit(fc, accumulated), U32_MAX))

(* next_window_update once an update is due. `fast` says that a round-trip *)
(* time is known and less than two of them passed since the last update.   *)
NextMax(fc, accumulated, fast) ==
  IF fast THEN TunedMax(fc, accumulated) ELSE fc.max_receive_window

FaultyNextWindowUpdate(fc, buffer_len, accumulated, fast) ==
  LET grown == [fc EXCEPT !.max_receive_window = NextMax(fc, accumulated, fast)]
  IN  [fc          |-> [grown EXCEPT !.receive_window = @ + Ungranted(fc, buffer_len)],
       accumulated |-> accumulated
                       + (grown.max_receive_window - fc.max_receive_window),
       credit      |-> Ungranted(grown, buffer_len)]

UnaccountedWindowUpdate(fc, buffer_len, accumulated, fast) ==
  LET grown  == [fc EXCEPT !.max_receive_window = NextMax(fc, accumulated, fast)]
      credit == Ungranted(grown, buffer_len)
  IN  [fc |-> [grown EXCEPT !.receive_window = @ + credit],
       accumulated |-> accumulated, credit |-> credit]

NextWindowUpdate(fc, buffer_len, accumulated, fast) ==
  LET grown  == [fc EXCEPT !.max_receive_window = NextMax(fc, accumulated, fast)]
      credit == Ungranted(grown, buffer_len)
  IN  [fc          |-> [grown EXCEPT !.receive_window = @ + credit],
       accumulated |-> accumulated
                       + (grown.max_receive_window - fc.max_receive_window),
       credit      |-> credit]

ConsumeSend(fc, k) == [fc EXCEPT !.send_window = @ - k]
IncreaseSend(fc, k) == [fc EXCEPT !.send_window = @ + k]
ConsumeReceive(fc, k) == [fc EXCEPT !.receive_window = @ - k]

FaultyReleased(fc, accumulated) == accumulated

(* Drop for FlowController: hand the extra window back to the connection. *)
Released(fc, accumulated) ==
  accumulated - (fc.max_receive_window - DEFAULT_CREDIT)
=============================================================================
