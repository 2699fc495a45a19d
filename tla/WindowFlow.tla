----------------------------- MODULE WindowFlow -----------------------------
(***************************************************************************)
(* Credit-based flow control of the streams of one connection, seen from   *)
(* the receiving side: the peer's poll_write spends send_window, frames    *)
(* travel, on_data spends receive_window, the local poll_read drains the   *)
(* buffer and grants credit back, on_window_update restores send_window.   *)
(*                                                                         *)
(* fc[s] pairs the receiving half of the local controller of stream s with *)
(* the sending half of the peer's controller.  A byte is like any other,   *)
(* so frames in flight are counted, not queued: any split of the bytes in  *)
(* flight into frames is allowed, the one the sender chose included.       *)
(***************************************************************************)
EXTENDS FlowController, FiniteSetsExt

CONSTANT Stream      (* names of streams; a name is reused for a later id *)

VARIABLES
  fc,                (* the controllers, see above                             *)
  inflight,          (* data bytes sent by the peer and not yet dispatched     *)
  buffer,            (* Shared::buffer: bytes dispatched and not yet read      *)
  granted,           (* window-update credit not yet at the peer               *)
  accumulated,       (* accumulated_max_stream_windows                         *)
  rtt_known,         (* Rtt::get() is Some                                     *)
  open,              (* streams that hold a Shared here                        *)
  terminated         (* on_data answered Action::Terminate                     *)

vars == <<fc, inflight, buffer, granted, accumulated, rtt_known, open, terminated>>

Init ==
  /\ fc = [s \in Stream |-> NewController]
  /\ inflight = [s \in Stream |-> 0]
  /\ buffer = [s \in Stream |-> 0]
  /\ granted = [s \in Stream |-> 0]
  /\ accumulated = 0
  /\ rtt_known = FALSE
  /\ open = {}
  /\ terminated = FALSE

(* make_shared: a stream is admitted while fewer than max_num_streams exist. *)
OpenStream(s) ==
  /\ s \notin open /\ inflight[s] = 0 /\ granted[s] = 0
  /\ Cardinality(open) < max_num_streams
  /\ open' = open \cup {s}
  /\ fc' = [fc EXCEPT ![s] = NewController]
  /\ buffer' = [buffer EXCEPT ![s] = 0]
  /\ UNCHANGED <<inflight, granted, accumulated, rtt_known, terminated>>

FaultyWrite(s) ==
  /\ s \in open
  /\ fc[s].send_window > 0
  /\ \E k \in 1 .. DEFAULT_CREDIT :
       /\ fc' = [fc EXCEPT ![s] = ConsumeSend(@, k)]
       /\ inflight' = [inflight EXCEPT ![s] = @ + k]
  /\ UNCHANGED <<buffer, granted, accumulated, rtt_known, open, terminated>>

(* The peer's poll_write: at most send_window bytes leave in one frame.  A  *)
(* writer without credit parks, which changes nothing here.                 *)
Write(s) ==
  /\ s \in open
  /\ \E k \in 1 .. fc[s].send_window :
       /\ fc' = [fc EXCEPT ![s] = ConsumeSend(@, k)]
       /\ inflight' = [inflight EXCEPT ![s] = @ + k]
  /\ UNCHANGED <<buffer, granted, accumulated, rtt_known, open, terminated>>

(* on_data for a stream we hold: a body larger than the window terminates    *)
(* the connection, and frames are ignored from then on.                      *)
Admitted(s, k) == k <= fc[s].receive_window

OnData(s) ==
  /\ s \in open /\ ~terminated
  /\ \E k \in 1 .. inflight[s] :
       /\ inflight' = [inflight EXCEPT ![s] = @ - k]
       /\ IF Admitted(s, k)
            THEN /\ fc' = [fc EXCEPT ![s] = ConsumeReceive(@, k)]
                 /\ buffer' = [buffer EXCEPT ![s] = @ + k]
                 /\ UNCHANGED terminated
            ELSE /\ terminated' = TRUE
                 /\ UNCHANGED <<fc, buffer>>
  /\ UNCHANGED <<granted, accumulated, rtt_known, open>>

(* Frames for a stream already released are leftovers and are dropped. *)
IgnoreLeftovers(s) ==
  /\ s \notin open
  /\ inflight[s] + granted[s] > 0
  /\ inflight' = [inflight EXCEPT ![s] = 0]
  /\ granted' = [granted EXCEPT ![s] = 0]
  /\ UNCHANGED <<fc, buffer, accumulated, rtt_known, open, terminated>>

(* poll_read: first grant credit if an update is due and the command channel *)
(* has room, then copy out between one byte and everything buffered.         *)
Grant(s) ==
  \E fast \in (IF rtt_known THEN BOOLEAN ELSE {FALSE}) :
    LET update == NextWindowUpdate(fc[s], buffer[s], accumulated, fast)
    IN  /\ fc' = [fc EXCEPT ![s] = update.fc]
        /\ accumulated' = update.accumulated
        /\ granted' = [granted EXCEPT ![s] = @ + update.credit]

PollRead(s, channel_ready) ==
  /\ s \in open
  /\ IF channel_ready /\ UpdateDue(fc[s], buffer[s])
       THEN Grant(s)
       ELSE UNCHANGED <<fc, accumulated, granted>>
  /\ \E n \in (IF buffer[s] = 0 THEN {0} ELSE 1 .. buffer[s]) :
       buffer' = [buffer EXCEPT ![s] = @ - n]
  /\ UNCHANGED <<inflight, rtt_known, open, terminated>>

(* The peer's on_window_update. *)
OnWindowUpdate(s) ==
  /\ s \in open
  /\ \E k \in 1 .. granted[s] :
       /\ granted' = [granted EXCEPT ![s] = @ - k]
       /\ fc' = [fc EXCEPT ![s] = IncreaseSend(@, k)]
  /\ UNCHANGED <<inflight, buffer, accumulated, rtt_known, open, terminated>>

(* handle_pong measures a round-trip time; it stays known. *)
HandlePong ==
  /\ ~rtt_known
  /\ rtt_known' = TRUE
  /\ UNCHANGED <<fc, inflight, buffer, granted, accumulated, open, terminated>>

(* The last reference to the Shared goes away, and its controller with it. *)
DropStream(s) ==
  /\ s \in open
  /\ open' = open \ {s}
  /\ accumulated' = Released(fc[s], accumulated)
  /\ buffer' = [buffer EXCEPT ![s] = 0]
  /\ fc' = [fc EXCEPT ![s] = NewController]
  /\ UNCHANGED <<inflight, granted, rtt_known, terminated>>

Next ==
  \/ HandlePong
  \/ \E s \in Stream :
       \/ OpenStream(s)
       \/ Write(s)
       \/ OnData(s)
       \/ IgnoreLeftovers(s)
       \/ \E channel_ready \in BOOLEAN : PollRead(s, channel_ready)
       \/ OnWindowUpdate(s)
       \/ DropStream(s)

Spec == Init /\ [][Next]_vars
-----------------------------------------------------------------------------
TypeOK ==
  /\ fc \in [Stream -> Controller]
  /\ inflight \in [Stream -> Nat]
  /\ buffer \in [Stream -> Nat]
  /\ granted \in [Stream -> Nat]
  /\ accumulated \in Nat
  /\ rtt_known \in BOOLEAN
  /\ open \subseteq Stream
  /\ terminated \in BOOLEAN

(* No credit is created or lost: what the receiver believes the peer may    *)
(* still send is what the peer may send, has sent, or is about to be told.  *)
CreditConserved ==
  \A s \in open :
    fc[s].receive_window = fc[s].send_window + inflight[s] + granted[s]

(* Two endpoints of this code never accuse each other: no interleaving of   *)
(* writes, reads and window updates makes on_data see a body larger than    *)
(* the stream's window (active.rs, "frame body larger than window").        *)
NeverAccused == ~terminated

(* The assertions of assert_invariants, which the code evaluates around     *)
(* every window update in debug builds only.                                *)
ControllerInvariants ==
  \A s \in open :
    /\ buffer[s] <= fc[s].max_receive_window
    /\ fc[s].receive_window <= fc[s].max_receive_window
    /\ fc[s].max_receive_window - DEFAULT_CREDIT <= Budget
    /\ fc[s].max_receive_window - DEFAULT_CREDIT <= accumulated
    /\ ~rtt_known => fc[s].max_receive_window = DEFAULT_CREDIT

(* The checked additions and the usize sum never overflow: increasing the   *)
(* send window by everything on its way stays a u32, and the connection     *)
(* limit next_window_update computes stays a usize.                         *)
NoOverflow ==
  \A s \in open :
    /\ fc[s].send_window + granted[s] <= U32_MAX
    /\ ConnectionLimit(fc[s], accumulated) <= USIZE_MAX

(* The counter the controllers share is exactly what the windows of the     *)
(* streams have grown by, so the windows of all streams together fit the    *)
(* configured connection window, across drops and reopenings.  (Where the   *)
(* default credits of max_num_streams do not fit a usize there is no budget *)
(* and no window grows; so many streams cannot exist.)                      *)
ConnectionWindowBound ==
  LET Window(s) == fc[s].max_receive_window
  IN  /\ MapThenSumSet(Window, open) = accumulated + Cardinality(open) * DEFAULT_CREDIT
      /\ max_num_streams * DEFAULT_CREDIT <= USIZE_MAX =>
           MapThenSumSet(Window, open) <= max_connection_receive_window

PipeHeld ==
  [s \in Stream |-> IF s \in open THEN inflight[s] + buffer[s] ELSE 0]

PipeLimit ==
  [s \in Stream |-> IF s \in open THEN fc[s].max_receive_window ELSE 0]

Pipe == INSTANCE BoundedPipe WITH
  Pipe <- Stream, Default <- DEFAULT_CREDIT, Extra <- Budget,
  held <- PipeHeld, limit <- PipeLimit, spent <- accumulated

(* Windows, grants and auto-tuning implement the bounded pipe: the bytes    *)
(* between a writer and its reader never exceed the window last promised,   *)
(* and what the windows grew by stays within the connection's budget.       *)
ImplementsBoundedPipe == Pipe!Spec
=============================================================================
