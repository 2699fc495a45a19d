--------------------------------- MODULE Mux ---------------------------------
(***************************************************************************)
(* Two endpoints of the stream multiplexer (mux/src/connection), each with *)
(* a registry of streams, a driver (Active::poll) and application tasks    *)
(* that hold Stream handles, joined by a pair of FIFO wires.               *)
(*                                                                         *)
(* A handle is a record [peer, id, n] and is used once; several handles of *)
(* one peer and id are siblings that share one Shared.  A Shared is named  *)
(* after the handle that created it, or Implicit(p, i) when the peer's SYN *)
(* did.  Payload is counted in units of one byte, one per data frame.      *)
(*                                                                         *)
(* Not here: pings, auto-tuning (WindowFlow), read_after_close = false and *)
(* the closing handshake of Connection::close.  A connection ends by a     *)
(* GoAway for cause, by the socket, or by being dropped.                   *)
(***************************************************************************)
EXTENDS Naturals, Sequences, FiniteSets

CONSTANTS
  Peer,            (* the two endpoints                                     *)
  Id,              (* stream ids                                            *)
  Handle,          (* records [peer, id, n], n > 0                          *)
  None,            (* absence of a Shared, a frame or a waker               *)
  max_num_streams, (* Config::max_num_streams of each peer                  *)
  DEFAULT_CREDIT,  (* initial window of a stream                            *)
  FailingPeers,    (* peers whose connection may fail or be dropped         *)
  MaxWrites,       (* bound: data frames each handle writes                 *)
  ChannelCap,      (* bound: commands queued per handle                     *)
  WireCap          (* bound: frames in one direction of the socket          *)

Implicit(p, i) == [peer |-> p, id |-> i, n |-> 0]
Obj == Handle \cup {Implicit(p, i) : p \in Peer, i \in Id}

ASSUME MuxAssumption ==
  /\ IsFiniteSet(Id)
  /\ \A h \in Handle : h.peer \in Peer /\ h.id \in Id /\ h.n # 0
  /\ None \notin Obj
  /\ max_num_streams \in [Peer -> Nat \ {0}]
  /\ DEFAULT_CREDIT \in Nat \ {0}

(* Windows keep their default size here: auto-tuning is WindowFlow's. *)
Flow == INSTANCE FlowController WITH
  max_num_streams <- 1, max_connection_receive_window <- DEFAULT_CREDIT,
  U32_MAX <- DEFAULT_CREDIT, USIZE_MAX <- DEFAULT_CREDIT

VARIABLES
  streams,             (* StreamRegistry::streams, [Peer -> [Id -> Obj]]    *)
  inactive,            (* StreamRegistry::inactive                          *)
  owed_close,          (* StreamRegistry::owed_close                        *)
  slot_wakers,         (* handles whose writer waits for a slot             *)
  shared,              (* the Shared objects                                *)
  task,                (* life of a handle, see TypeOK                      *)
  object,              (* Stream::shared of a handle                        *)
  channel,             (* commands between a handle and its driver          *)
  sender_task,         (* the half to wake when its channel has room        *)
  rd, wr,              (* what the handle's reader and writer wait for      *)
  written, taken,      (* bytes accepted by poll_write, handed by poll_read *)
  conn,                (* state of the connection, see TypeOK               *)
  pending_write_frame, (* the frame the driver holds for the socket         *)
  wire                 (* wire[p]: frames on their way to p                 *)

registry == <<streams, inactive, owed_close, slot_wakers>>
handles  == <<task, object, channel, sender_task, rd, wr, written, taken>>
driver   == <<conn, pending_write_frame, wire>>
vars     == <<registry, shared, handles, driver>>

Other(p) == CHOOSE q \in Peer : q # p
HandlesOf(p, i) == {h \in Handle : h.peer = p /\ h.id = i}

(* The driver runs; its end of every command channel is open. *)
Up(p) == conn[p] \in {"active", "terminating", "terminated"}

(* Frames: CloseStream is queued as the FIN frame the driver makes of it. *)
Frame(kind, i, syn, len) == [kind |-> kind, id |-> i, syn |-> syn, len |-> len]
Fin(i) == Frame("fin", i, FALSE, 0)
Rst(i) == Frame("rst", i, FALSE, 0)
GoAway == Frame("go_away", None, FALSE, 0)

(* claimed is history only: a handle has held this Shared. *)
NewShared ==
  [state |-> "Open", fc |-> Flow!NewController, buffer |-> 0,
   activated |-> FALSE, syn_pending |-> FALSE, reader |-> None, writer |-> None,
   claimed |-> FALSE]

CanRead(state) == state \in {"Open", "SendClosed"}
CanWrite(state) == state \in {"Open", "RecvClosed"}

(* Shared::update_state: the closed halves add up, Closed is terminal. *)
UpdateState(current, next) ==
  IF current = "Open" THEN next
  ELSE IF next \in {"Open", current} THEN current
  ELSE "Closed"

Held(p) == {i \in Id : streams[p][i] # None}
Owed(p) == {i \in Id : owed_close[p][i] # None}
ActiveSlots(p) == Cardinality(Held(p)) + Cardinality(Owed(p))

FaultyHasLiveHandle(o) == o # None

(* strong_count > 1 for the Shared a map holds: some handle holds it too. *)
HasLiveHandle(o) == o # None /\ \E h \in Handle : object[h] = o

(* A woken task polls again.  Room in a channel wakes one half: an mpsc     *)
(* sender remembers the last task that found it full, and only that one.    *)
Awake(f, hs) ==
  [h \in Handle |-> IF h \in hs /\ f[h] \in {"parked", "slot", "credit", "room"}
                      THEN "idle" ELSE f[h]]

Full(h) == Len(channel[h]) >= ChannelCap
AwaitingRoom(half) == {h \in Handle : sender_task[h] = half}

Init ==
  /\ streams = [p \in Peer |-> [i \in Id |-> None]]
  /\ inactive = [p \in Peer |-> [i \in Id |-> None]]
  /\ owed_close = [p \in Peer |-> [i \in Id |-> None]]
  /\ slot_wakers = [p \in Peer |-> {}]
  /\ shared = [o \in Obj |-> NewShared]
  /\ task = [h \in Handle |-> "new"]
  /\ object = [h \in Handle |-> None]
  /\ channel = [h \in Handle |-> <<>>]
  /\ sender_task = [h \in Handle |-> None]
  /\ rd = [h \in Handle |-> "idle"]
  /\ wr = [h \in Handle |-> "idle"]
  /\ written = [h \in Handle |-> 0]
  /\ taken = [h \in Handle |-> 0]
  /\ conn = [p \in Peer |-> "active"]
  /\ pending_write_frame = [p \in Peer |-> None]
  /\ wire = [p \in Peer |-> <<>>]
-----------------------------------------------------------------------------
(* Application tasks.  poll_read, poll_write and poll_close take &mut self, *)
(* so the calls of one handle never overlap; they do overlap with siblings  *)
(* and with the driver.                                                     *)

(* Handle::new_stream: merge with the Shared the registry holds for the id, *)
(* or create an inactive one.  Every handle gets a command channel.  No     *)
(* stream is opened after the teardown (the close contract prepare_close    *)
(* names): its reader would park with nobody left to wake it.               *)
NewStream(h) ==
  LET p == h.peer
      i == h.id
      existing == IF streams[p][i] # None THEN streams[p][i] ELSE inactive[p][i]
      o == IF existing # None THEN existing ELSE h
  IN  /\ task[h] = "new" /\ conn[p] # "cleanup"
      /\ task' = [task EXCEPT ![h] = "live"]
      /\ object' = [object EXCEPT ![h] = o]
      /\ IF existing # None
           THEN /\ shared' = [shared EXCEPT ![o].claimed = TRUE]
                /\ UNCHANGED inactive
           ELSE /\ shared' = [shared EXCEPT ![o] = [NewShared EXCEPT !.claimed = TRUE]]
                /\ inactive' = [inactive EXCEPT ![p][i] = o]
      /\ UNCHANGED <<streams, owed_close, slot_wakers,
                     channel, sender_task, rd, wr, written, taken, driver>>

(* The definitions named Faulty... are plausible bugs: PROJECT.json lists    *)
(* them as mutants, and each breaks a property the runs check.               *)
FaultySlotFree(p) == ActiveSlots(p) <= max_num_streams[p]

SlotFree(p) == ActiveSlots(p) < max_num_streams[p]

(* poll_activate, under the registry lock: adopt the peer's entry, claim a  *)
(* slot and owe the SYN, or wait for a slot.                                *)
Adopt(h) ==
  LET o == streams[h.peer][h.id]
  IN  /\ object' = [object EXCEPT ![h] = o]
      /\ shared' = [shared EXCEPT ![o].activated = TRUE, ![o].claimed = TRUE]
      /\ inactive' = [inactive EXCEPT ![h.peer][h.id] = None]
      /\ wr' = [wr EXCEPT ![h] = "mid"]
      /\ UNCHANGED <<streams, slot_wakers>>

FaultyClaimSlot(h) ==
  LET o == object[h]
  IN  /\ streams' = [streams EXCEPT ![h.peer][h.id] = o]
      /\ inactive' = [inactive EXCEPT ![h.peer][h.id] = None]
      /\ shared' = [shared EXCEPT ![o].activated = TRUE]
      /\ wr' = [wr EXCEPT ![h] = "mid"]
      /\ UNCHANGED <<slot_wakers, object>>

ClaimSlot(h) ==
  LET o == object[h]
  IN  /\ streams' = [streams EXCEPT ![h.peer][h.id] = o]
      /\ inactive' = [inactive EXCEPT ![h.peer][h.id] = None]
      /\ shared' = [shared EXCEPT ![o].activated = TRUE, ![o].syn_pending = TRUE]
      /\ wr' = [wr EXCEPT ![h] = "mid"]
      /\ UNCHANGED <<slot_wakers, object>>

AwaitSlot(h) ==
  /\ slot_wakers' = [slot_wakers EXCEPT ![h.peer] = @ \cup {h}]
  /\ wr' = [wr EXCEPT ![h] = "slot"]
  /\ UNCHANGED <<streams, inactive, object, shared>>

(* No slot, and the channel is closed: go on, to fail there. *)
Proceed(h) ==
  /\ wr' = [wr EXCEPT ![h] = "mid"]
  /\ UNCHANGED <<streams, inactive, slot_wakers, object, shared>>

PollActivate(h) ==
  /\ task[h] = "live"
  /\ wr[h] = "idle" /\ written[h] < MaxWrites[h]
  /\ ~shared[object[h]].activated
  /\ IF streams[h.peer][h.id] # None THEN Adopt(h)
     ELSE IF SlotFree(h.peer) THEN ClaimSlot(h)
     ELSE IF Up(h.peer) THEN AwaitSlot(h)
     ELSE Proceed(h)
  /\ UNCHANGED <<owed_close, task, channel, sender_task, rd, written, taken, driver>>

(* The rest of poll_write, once active: wait for room in the channel, fail  *)
(* on a closed stream, park until the peer grants credit, or send one data  *)
(* frame, the opener's first with SYN.                                      *)
FaultyOutOfCredit(s) == s.fc.receive_window = 0

OutOfCredit(s) == s.fc.send_window = 0

FailWrite(h) ==
  /\ wr' = [wr EXCEPT ![h] = "idle"]
  /\ UNCHANGED <<shared, channel, sender_task, written>>

AwaitRoom(h) ==
  /\ wr' = [wr EXCEPT ![h] = "room"]
  /\ sender_task' = [sender_task EXCEPT ![h] = "wr"]
  /\ UNCHANGED <<shared, channel, written>>

FaultyAwaitCredit(h) ==
  /\ shared' = [shared EXCEPT ![object[h]].reader = h]
  /\ wr' = [wr EXCEPT ![h] = "credit"]
  /\ UNCHANGED <<channel, sender_task, written>>

AwaitCredit(h) ==
  /\ shared' = [shared EXCEPT ![object[h]].writer = h]
  /\ wr' = [wr EXCEPT ![h] = "credit"]
  /\ UNCHANGED <<channel, sender_task, written>>

SendData(h) ==
  LET o == object[h]
  IN  /\ channel' = [channel EXCEPT ![h] =
                       Append(@, Frame("data", h.id, shared[o].syn_pending, 1))]
      /\ shared' = [shared EXCEPT ![o].fc = Flow!ConsumeSend(@, 1),
                                  ![o].syn_pending = FALSE]
      /\ written' = [written EXCEPT ![h] = @ + 1]
      /\ wr' = [wr EXCEPT ![h] = "idle"]
      /\ UNCHANGED sender_task

PollWrite(h) ==
  LET s == shared[object[h]]
  IN  /\ task[h] = "live" /\ written[h] < MaxWrites[h]
      /\ wr[h] = "mid" \/ (wr[h] = "idle" /\ s.activated)
      /\ IF ~Up(h.peer) THEN FailWrite(h)
         ELSE IF Full(h) THEN AwaitRoom(h)
         ELSE IF ~CanWrite(s.state) THEN FailWrite(h)
         ELSE IF OutOfCredit(s) THEN AwaitCredit(h)
         ELSE SendData(h)
      /\ UNCHANGED <<registry, task, object, rd, taken, driver>>

(* poll_read: grant credit when an update is due, or ask to be woken when   *)
(* the channel is full; then take from the buffer, report the end of the    *)
(* stream, or park.                                                         *)
MayGrant(h) == Up(h.peer) /\ CanRead(shared[object[h]].state)

PollRead(h) ==
  LET o == object[h]
      s == shared[o]
      update == Flow!NextWindowUpdate(s.fc, s.buffer, 0, FALSE)
      grants == MayGrant(h) /\ ~Full(h) /\ Flow!UpdateDue(s.fc, s.buffer)
      granted == IF grants THEN [s EXCEPT !.fc = update.fc] ELSE s
  IN  /\ task[h] \in {"live", "half"} /\ rd[h] = "idle" /\ wr[h] # "mid"
      /\ channel' = IF grants
                      THEN [channel EXCEPT ![h] =
                              Append(@, Frame("window", h.id, FALSE, update.credit))]
                      ELSE channel
      /\ sender_task' = IF MayGrant(h) /\ Full(h)
                          THEN [sender_task EXCEPT ![h] = "rd"] ELSE sender_task
      /\ IF s.buffer > 0
           THEN /\ shared' = [shared EXCEPT ![o] = [granted EXCEPT !.buffer = @ - 1]]
                /\ taken' = [taken EXCEPT ![h] = @ + 1]
                /\ UNCHANGED rd
         ELSE IF ~CanRead(s.state)
           THEN /\ rd' = [rd EXCEPT ![h] = "eof"]
                /\ UNCHANGED <<shared, taken>>
         ELSE /\ rd' = [rd EXCEPT ![h] = "parked"]
              /\ shared' = [shared EXCEPT ![o] = [granted EXCEPT !.reader = h]]
              /\ UNCHANGED taken
      /\ UNCHANGED <<registry, task, object, wr, written, driver>>

(* poll_flush, which waits for room like poll_write does: so does poll_close *)
(* of an active stream before it can queue its frame.  Whoever asks for room *)
(* in a full channel becomes the one task its sender remembers.              *)
PollFlush(h) ==
  /\ task[h] \in {"live", "half"} /\ wr[h] \notin {"mid", "room"}
  /\ Up(h.peer) /\ Full(h)
  /\ wr' = [wr EXCEPT ![h] = "room"]
  /\ sender_task' = [sender_task EXCEPT ![h] = "wr"]
  /\ UNCHANGED <<registry, shared, task, object, channel, rd, written, taken, driver>>

(* poll_close, which succeeds once per handle here.  Of a stream that was   *)
(* never active only the state changes.                                     *)
CloseInactive(h) ==
  LET o == object[h]
  IN  /\ task[h] = "live" /\ wr[h] # "mid"
      /\ shared[o].state # "Closed" /\ ~shared[o].activated
      /\ shared' = [shared EXCEPT ![o].state = UpdateState(@, "SendClosed")]
      /\ task' = [task EXCEPT ![h] = "half"]
      /\ UNCHANGED <<registry, object, channel, sender_task, rd, wr, written, taken, driver>>

(* Of an active stream, given room (see PollFlush): queue CloseStream, then, *)
(* with the driver free to act in between, mark the sending half closed.     *)
SendClose(h) ==
  LET o == object[h]
  IN  /\ task[h] = "live" /\ wr[h] # "mid" /\ Up(h.peer)
      /\ shared[o].state # "Closed" /\ shared[o].activated
      /\ ~Full(h)
      /\ channel' = [channel EXCEPT ![h] = Append(@, Fin(h.id))]
      /\ task' = [task EXCEPT ![h] = "closing"]
      /\ UNCHANGED <<registry, shared, object, sender_task, rd, wr, written, taken, driver>>

FinishClose(h) ==
  LET o == object[h]
  IN  /\ task[h] = "closing"
      /\ shared' = [shared EXCEPT ![o].state = UpdateState(@, "SendClosed")]
      /\ task' = [task EXCEPT ![h] = "half"]
      /\ UNCHANGED <<registry, object, channel, sender_task, rd, wr, written, taken, driver>>

FaultyDropShared(h) ==
  /\ \/ /\ task[h] \in {"live", "half"} /\ wr[h] # "mid"
        /\ task' = [task EXCEPT ![h] = "dropped"]
        /\ UNCHANGED object
     \/ /\ task[h] \in {"dropped", "reaped"}
        /\ object' = [object EXCEPT ![h] = None]
        /\ UNCHANGED task
  /\ rd' = [rd EXCEPT ![h] = "idle"]
  /\ wr' = [wr EXCEPT ![h] = "idle"]
  /\ sender_task' = [sender_task EXCEPT ![h] = None]
  /\ UNCHANGED <<registry, shared, channel, written, taken, driver>>

(* Dropping a Stream drops its fields in declaration order: first its share *)
(* of the Shared, then the sender, which ends the command channel.          *)
DropShared(h) ==
  /\ task[h] \in {"live", "half"} /\ wr[h] # "mid"
  /\ task' = [task EXCEPT ![h] = "dropping"]
  /\ object' = [object EXCEPT ![h] = None]
  /\ rd' = [rd EXCEPT ![h] = "idle"]
  /\ wr' = [wr EXCEPT ![h] = "idle"]
  /\ sender_task' = [sender_task EXCEPT ![h] = None]
  /\ UNCHANGED <<registry, shared, channel, written, taken, driver>>

DropSender(h) ==
  /\ task[h] = "dropping"
  /\ task' = [task EXCEPT ![h] = "dropped"]
  /\ UNCHANGED <<registry, shared, object, channel, sender_task, rd, wr, written, taken, driver>>
-----------------------------------------------------------------------------
(* The driver, Active::poll.  One step of its loop is one action.           *)

SocketReady(p) == Up(Other(p)) /\ Len(wire[Other(p)]) < WireCap
Send(p, frame) == wire' = [wire EXCEPT ![Other(p)] = Append(@, frame)]

(* pending_terminate goes out before any other frame. *)
SendGoAway(p) ==
  /\ conn[p] = "terminating" /\ SocketReady(p)
  /\ Send(p, GoAway)
  /\ conn' = [conn EXCEPT ![p] = "terminated"]
  /\ UNCHANGED <<registry, shared, handles, pending_write_frame>>

SendPending(p) ==
  /\ conn[p] \in {"active", "terminated"} /\ SocketReady(p)
  /\ pending_write_frame[p] # None
  /\ Send(p, pending_write_frame[p])
  /\ pending_write_frame' = [pending_write_frame EXCEPT ![p] = None]
  /\ UNCHANGED <<registry, shared, handles, conn>>

FaultyTakeOwed(p) ==
  /\ Up(p) /\ pending_write_frame[p] = None
  /\ \E i \in Owed(p) :
       /\ pending_write_frame' = [pending_write_frame EXCEPT ![p] = owed_close[p][i]]
       /\ owed_close' = [owed_close EXCEPT ![p][i] = None]
  /\ UNCHANGED <<streams, inactive, slot_wakers, shared, handles, conn, wire>>

(* An owed close leaves its slot when it becomes the pending frame. *)
TakeOwed(p) ==
  /\ Up(p) /\ pending_write_frame[p] = None
  /\ \E i \in Owed(p) :
       /\ pending_write_frame' = [pending_write_frame EXCEPT ![p] = owed_close[p][i]]
       /\ owed_close' = [owed_close EXCEPT ![p][i] = None]
  /\ slot_wakers' = [slot_wakers EXCEPT ![p] = {}]
  /\ wr' = Awake(wr, slot_wakers[p])
  /\ UNCHANGED <<streams, inactive, shared, task, object, channel, sender_task, rd,
                 written, taken, conn, wire>>

WakeForRoom(hs) ==
  /\ rd' = Awake(rd, hs \cap AwaitingRoom("rd"))
  /\ wr' = Awake(wr, hs \cap AwaitingRoom("wr"))
  /\ sender_task' = [h \in Handle |-> IF h \in hs THEN None ELSE sender_task[h]]

(* stream_receivers: the next command of some handle, *)
PollStream(h) ==
  LET p == h.peer
  IN  /\ Up(p) /\ pending_write_frame[p] = None /\ Owed(p) = {}
      /\ channel[h] # <<>>
      /\ pending_write_frame' = [pending_write_frame EXCEPT ![p] = Head(channel[h])]
      /\ channel' = [channel EXCEPT ![h] = Tail(@)]
      /\ WakeForRoom({h})
      /\ UNCHANGED <<registry, shared, task, object, written, taken, conn, wire>>

(* or the end of a channel, on_drop_stream: unless a sibling is alive the   *)
(* entry goes, and what the stream still owes the peer is staged.           *)
OwedClose(i, state) ==
  CASE state = "Open" -> Rst(i)
    [] state = "RecvClosed" -> Fin(i)
    [] OTHER -> None

Forget(p, i) ==
  /\ inactive' = [inactive EXCEPT ![p][i] = None]
  /\ UNCHANGED <<streams, owed_close, slot_wakers, shared, wr>>

Release(p, i) ==
  LET o == streams[p][i]
      frame == OwedClose(i, shared[o].state)
  IN  /\ streams' = [streams EXCEPT ![p][i] = None]
      /\ shared' = [shared EXCEPT ![o] = NewShared]
      /\ owed_close' = [owed_close EXCEPT ![p][i] = IF frame # None THEN frame ELSE @]
      /\ IF frame = None
           THEN /\ slot_wakers' = [slot_wakers EXCEPT ![p] = {}]
                /\ wr' = Awake(wr, slot_wakers[p])
           ELSE UNCHANGED <<slot_wakers, wr>>
      /\ UNCHANGED inactive

FaultyEnded(h) == task[h] = "dropped"

Ended(h) == task[h] = "dropped" /\ channel[h] = <<>>

ReapStream(h) ==
  LET p == h.peer
      i == h.id
  IN  /\ Up(p) /\ pending_write_frame[p] = None /\ Owed(p) = {}
      /\ Ended(h)
      /\ task' = [task EXCEPT ![h] = "reaped"]
      /\ IF HasLiveHandle(streams[p][i]) \/ HasLiveHandle(inactive[p][i])
           THEN UNCHANGED <<registry, shared, wr>>
         ELSE IF streams[p][i] = None THEN Forget(p, i)
         ELSE Release(p, i)
      /\ UNCHANGED <<object, channel, sender_task, rd, written, taken, driver>>

(* The read side.  It is polled after the write side had nothing to do, so  *)
(* never with an owed close that could have been taken; the channels may    *)
(* have filled again in between.  While a GoAway waits every frame is       *)
(* ignored, and so it stays after it was sent.                              *)
FaultyReadsNow(p) == pending_write_frame[p] = None /\ Owed(p) = {}

ReadsNow(p) == pending_write_frame[p] # None \/ Owed(p) = {}

Receives(p, kinds) ==
  /\ wire[p] # <<>> /\ Head(wire[p]).kind \in kinds
  /\ ReadsNow(p)
  /\ wire' = [wire EXCEPT ![p] = Tail(@)]
  /\ UNCHANGED <<owed_close, slot_wakers, task, object, channel, sender_task, written, taken,
                 pending_write_frame>>

IgnoreFrame(p) ==
  /\ conn[p] \in {"terminating", "terminated"}
  /\ Receives(p, {"data", "fin", "rst", "window", "go_away"})
  /\ UNCHANGED <<streams, inactive, shared, rd, wr, conn>>

Terminate(p) == conn' = [conn EXCEPT ![p] = "terminating"]

(* on_data of a frame for an entry we hold, or that its SYN creates out of  *)
(* an inactive stream or from nothing.                                      *)
Admits(p, f) ==
  \/ streams[p][f.id] # None
  \/ f.syn /\ Cardinality(Held(p)) < max_num_streams[p]

FaultyAddressee(p, i) ==
  IF streams[p][i] # None THEN streams[p][i] ELSE Implicit(p, i)

Addressee(p, i) ==
  IF streams[p][i] # None THEN streams[p][i]
  ELSE IF inactive[p][i] # None THEN inactive[p][i]
  ELSE Implicit(p, i)

Admitted(p, i) ==
  IF streams[p][i] # None THEN shared[streams[p][i]]
  ELSE IF inactive[p][i] # None
    THEN [shared[inactive[p][i]] EXCEPT !.activated = TRUE]
  ELSE [NewShared EXCEPT !.activated = TRUE]

Deliver(s, f) ==
  [s EXCEPT !.fc = Flow!ConsumeReceive(@, f.len),
            !.buffer = @ + f.len,
            !.state = IF f.kind = "fin" THEN UpdateState(@, "RecvClosed") ELSE @,
            !.reader = None]

OnData(p) ==
  LET f == Head(wire[p])
      o == Addressee(p, f.id)
      s == Admitted(p, f.id)
      overrun == f.len > s.fc.receive_window
  IN  /\ conn[p] = "active"
      /\ Receives(p, {"data", "fin"})
      /\ IF Admits(p, f)
           THEN /\ streams' = [streams EXCEPT ![p][f.id] = o]
                /\ inactive' = IF streams[p][f.id] # None THEN inactive
                               ELSE [inactive EXCEPT ![p][f.id] = None]
                /\ shared' = [shared EXCEPT ![o] = IF overrun THEN s ELSE Deliver(s, f)]
                /\ rd' = IF overrun THEN rd ELSE Awake(rd, {s.reader})
                /\ IF overrun THEN Terminate(p) ELSE UNCHANGED conn
           ELSE /\ IF f.syn THEN Terminate(p) ELSE UNCHANGED conn
                /\ UNCHANGED <<streams, inactive, shared, rd>>
      /\ UNCHANGED wr

FaultyOnReset(p) ==
  LET i == Head(wire[p]).id
      o == streams[p][i]
  IN  /\ conn[p] = "active"
      /\ Receives(p, {"rst"})
      /\ IF o # None
           THEN /\ shared' = [shared EXCEPT ![o].state = "Closed",
                                            ![o].reader = None, ![o].writer = None]
                /\ rd' = Awake(rd, {shared[o].reader})
                /\ wr' = Awake(wr, {shared[o].writer})
                /\ streams' = IF HasLiveHandle(o) THEN streams
                              ELSE [streams EXCEPT ![p][i] = None]
           ELSE UNCHANGED <<streams, shared, rd, wr>>
      /\ UNCHANGED <<inactive, conn>>

(* handle_peer_reset: the entry stays until a handle claims it and drops. *)
OnReset(p) ==
  LET o == streams[p][Head(wire[p]).id]
  IN  /\ conn[p] = "active"
      /\ Receives(p, {"rst"})
      /\ IF o # None
           THEN /\ shared' = [shared EXCEPT ![o].state = "Closed",
                                            ![o].reader = None, ![o].writer = None]
                /\ rd' = Awake(rd, {shared[o].reader})
                /\ wr' = Awake(wr, {shared[o].writer})
           ELSE UNCHANGED <<shared, rd, wr>>
      /\ UNCHANGED <<streams, inactive, conn>>

FaultyOnWindowUpdate(p) ==
  LET f == Head(wire[p])
      o == streams[p][f.id]
  IN  /\ conn[p] = "active"
      /\ Receives(p, {"window"})
      /\ shared' = IF o = None THEN shared
                   ELSE [shared EXCEPT ![o].fc = Flow!IncreaseSend(@, f.len)]
      /\ UNCHANGED <<streams, inactive, rd, wr, conn>>

OnWindowUpdate(p) ==
  LET f == Head(wire[p])
      o == streams[p][f.id]
  IN  /\ conn[p] = "active"
      /\ Receives(p, {"window"})
      /\ IF o # None
           THEN /\ shared' = [shared EXCEPT ![o].fc = Flow!IncreaseSend(@, f.len),
                                            ![o].writer = None]
                /\ wr' = Awake(wr, {shared[o].writer})
           ELSE UNCHANGED <<shared, wr>>
      /\ UNCHANGED <<streams, inactive, rd, conn>>

(* The end of a connection, drop_all_streams: close the command channels,   *)
(* which empties them, and only then release the streams and wake everyone. *)
CloseReceivers(p) ==
  /\ conn' = [conn EXCEPT ![p] = "failed"]
  /\ channel' = [h \in Handle |-> IF h.peer = p THEN <<>> ELSE channel[h]]
  /\ pending_write_frame' = [pending_write_frame EXCEPT ![p] = None]
  /\ wire' = [wire EXCEPT ![p] = <<>>]
  /\ WakeForRoom({h \in Handle : h.peer = p})
  /\ UNCHANGED <<registry, shared, task, object, written, taken>>

OnGoAway(p) ==
  /\ conn[p] = "active"
  /\ wire[p] # <<>> /\ Head(wire[p]).kind = "go_away"
  /\ ReadsNow(p)
  /\ CloseReceivers(p)

(* The peer let go of its end of the socket: everything it sent has been    *)
(* read, or a write fails.                                                  *)
SocketClosed(p) ==
  /\ Up(p) /\ conn[Other(p)] = "cleanup"
  /\ wire[p] = <<>> \/ pending_write_frame[p] # None \/ conn[p] = "terminating"
  /\ CloseReceivers(p)

(* The socket fails under one peer, or its Connection is dropped. *)
Fail(p) ==
  /\ p \in FailingPeers /\ Up(p)
  /\ CloseReceivers(p)

FaultyDrained(p) == {streams[p][i] : i \in Id}

Drained(p) == {streams[p][i] : i \in Id} \cup {inactive[p][i] : i \in Id}

DropAllStreams(p) ==
  LET drained == Drained(p)
      parked == {shared[o].reader : o \in drained \ {None}}
                  \cup {shared[o].writer : o \in drained \ {None}}
  IN  /\ conn[p] = "failed"
      /\ conn' = [conn EXCEPT ![p] = "cleanup"]
      /\ streams' = [streams EXCEPT ![p] = [i \in Id |-> None]]
      /\ inactive' = [inactive EXCEPT ![p] = [i \in Id |-> None]]
      /\ shared' = [o \in Obj |->
                      IF o \in drained
                        THEN [shared[o] EXCEPT !.state = "Closed",
                                               !.reader = None, !.writer = None]
                        ELSE shared[o]]
      /\ slot_wakers' = [slot_wakers EXCEPT ![p] = {}]
      /\ rd' = Awake(rd, parked)
      /\ wr' = Awake(wr, parked \cup slot_wakers[p])
      /\ UNCHANGED <<owed_close, task, object, channel, sender_task, written, taken,
                     pending_write_frame, wire>>
-----------------------------------------------------------------------------
Driver(p) ==
  \/ SendGoAway(p)
  \/ SendPending(p)
  \/ TakeOwed(p)
  \/ IgnoreFrame(p)
  \/ OnData(p)
  \/ OnReset(p)
  \/ OnWindowUpdate(p)
  \/ OnGoAway(p)
  \/ SocketClosed(p)
  \/ Fail(p)
  \/ DropAllStreams(p)

Next ==
  \/ \E p \in Peer : Driver(p)
  \/ \E h \in Handle :
       \/ NewStream(h) \/ PollActivate(h) \/ PollWrite(h) \/ PollRead(h)
       \/ PollFlush(h) \/ CloseInactive(h) \/ SendClose(h) \/ FinishClose(h)
       \/ DropShared(h) \/ DropSender(h)
       \/ PollStream(h) \/ ReapStream(h)

Spec == Init /\ [][Next]_vars

(* Both connections keep being polled, which serves the write side and the  *)
(* read side of the socket, and tears down what has failed; code without an *)
(* await runs to its end, and a reader that was woken polls again.  Nothing *)
(* makes an application open, write, close or drop.                         *)
WriteSide(p) ==
  \/ SendGoAway(p) \/ SendPending(p) \/ TakeOwed(p)
  \/ \E h \in Handle : h.peer = p /\ (PollStream(h) \/ ReapStream(h))

ReadSide(p) ==
  IgnoreFrame(p) \/ OnData(p) \/ OnReset(p) \/ OnWindowUpdate(p) \/ OnGoAway(p)

Continue(h) ==
  PollRead(h) \/ (wr[h] = "mid" /\ PollWrite(h)) \/ FinishClose(h) \/ DropSender(h)

Fairness ==
  /\ \A p \in Peer :
       /\ WF_vars(WriteSide(p)) /\ WF_vars(ReadSide(p))
       /\ WF_vars(SocketClosed(p) \/ DropAllStreams(p))
  /\ \A h \in Handle : WF_vars(Continue(h))

FairSpec == Spec /\ Fairness
-----------------------------------------------------------------------------
Shared ==
  [state : {"Open", "SendClosed", "RecvClosed", "Closed"},
   fc : Flow!Controller, buffer : Nat,
   activated : BOOLEAN, syn_pending : BOOLEAN, claimed : BOOLEAN,
   reader : Handle \cup {None}, writer : Handle \cup {None}]

FrameType ==
  [kind : {"data", "fin", "rst", "window", "go_away"}, id : Id \cup {None},
   syn : BOOLEAN, len : Nat]

(* What the ends of a wire take for granted: there are two of them, no      *)
(* frame is an absence, and a window is more than one unit of credit        *)
(* (DEFAULT_CREDIT is 256 KiB), so that no update is due of a full one.     *)
ASSUME WireAssumption ==
  /\ \E p, q \in Peer : p # q /\ Peer = {p, q}
  /\ None \notin FrameType
  /\ DEFAULT_CREDIT > 1

(* The values the state ranges over: a handle is new, live, closing (inside *)
(* poll_close), half (closed for writing), dropping (inside Drop), dropped  *)
(* or reaped; a connection is active, terminating (GoAway not yet sent),    *)
(* terminated (GoAway sent), failed (channels closed) or cleaned up.        *)
TypeOK ==
  /\ streams \in [Peer -> [Id -> Obj \cup {None}]]
  /\ inactive \in [Peer -> [Id -> Obj \cup {None}]]
  /\ owed_close \in [Peer -> [Id -> FrameType \cup {None}]]
  /\ slot_wakers \in [Peer -> SUBSET Handle]
  /\ shared \in [Obj -> Shared]
  /\ task \in [Handle -> {"new", "live", "closing", "half", "dropping", "dropped", "reaped"}]
  /\ object \in [Handle -> Obj \cup {None}]
  /\ channel \in [Handle -> Seq(FrameType)]
  /\ sender_task \in [Handle -> {None, "rd", "wr"}]
  /\ rd \in [Handle -> {"idle", "parked", "eof"}]
  /\ wr \in [Handle -> {"idle", "mid", "slot", "room", "credit"}]
  /\ written \in [Handle -> Nat] /\ taken \in [Handle -> Nat]
  /\ conn \in [Peer -> {"active", "terminating", "terminated", "failed", "cleanup"}]
  /\ pending_write_frame \in [Peer -> FrameType \cup {None}]
  /\ wire \in [Peer -> Seq(FrameType)]

(* What StreamRegistry::streams promises: the peer can make us buffer for   *)
(* at most max_num_streams streams, and at most one owed close holds a slot *)
(* on top, because the driver takes it before it reaps another stream.      *)
SlotBound ==
  \A p \in Peer :
    /\ Cardinality(Held(p)) <= max_num_streams[p]
    /\ Cardinality(Owed(p)) <= 1

(* An id has one Shared at a time: it is inactive or on the wire, never     *)
(* both, it is activated exactly when on the wire, and every live handle    *)
(* uses the one the registry names.  Otherwise a split brain: a handle that *)
(* reads from a buffer no frame is ever delivered to.                       *)
RegistryConsistent ==
  /\ \A p \in Peer, i \in Id :
       /\ streams[p][i] = None \/ inactive[p][i] = None
       /\ streams[p][i] # None => shared[streams[p][i]].activated
       /\ inactive[p][i] # None => ~shared[inactive[p][i]].activated
  /\ \A h \in Handle :
       object[h] # None /\ conn[h.peer] # "cleanup" =>
         object[h] \in {streams[h.peer][h.id], inactive[h.peer][h.id]}

(* A slot outlives its handles only until the driver sees their end: an     *)
(* entry some handle has held has a live handle, or one whose drop is still *)
(* to be reaped.                                                            *)
NoSlotLeak ==
  \A p \in Peer, i \in Id :
    streams[p][i] # None /\ shared[streams[p][i]].claimed =>
      \E h \in HandlesOf(p, i) :
        object[h] = streams[p][i] \/ task[h] \in {"dropping", "dropped"}

(* A writer waits for a slot only while none is free, and it is registered  *)
(* to be woken; if the peer has opened its stream in the meantime, an owed  *)
(* close is there to wake it.                                               *)
NoLostSlotWake ==
  \A h \in Handle :
    wr[h] = "slot" /\ Up(h.peer) =>
      /\ h \in slot_wakers[h.peer]
      /\ ActiveSlots(h.peer) >= max_num_streams[h.peer]
      /\ shared[object[h]].activated => Owed(h.peer) # {}

(* A parked reader has nothing to read and may still get something; a       *)
(* writer parked for credit has none and may still use some; and the Shared *)
(* holds the waker of each.                                                 *)
NoLostWake ==
  \A h \in Handle :
    LET s == shared[object[h]]
    IN  /\ rd[h] = "parked" =>
             s.buffer = 0 /\ CanRead(s.state) /\ s.reader = h
        /\ wr[h] = "credit" /\ task[h] = "live" =>
             s.fc.send_window = 0 /\ CanWrite(s.state) /\ s.writer = h

(* Once the driver is gone nobody waits for it: neither a reader nor a      *)
(* writer, parked before or during the teardown, for credit or for a slot.  *)
NobodyLeftParked ==
  \A h \in Handle :
    conn[h.peer] = "cleanup" => rd[h] # "parked" /\ wr[h] \notin {"slot", "credit"}

(* While both connections live, the end of a stream means the whole stream: *)
(* a reader sees it only after every byte the peer's writer was promised.   *)
EofMeansComplete ==
  \A h, g \in Handle :
    /\ h.id = g.id /\ g.peer = Other(h.peer)
    /\ rd[h] = "eof" /\ \A p \in Peer : conn[p] = "active"
    => taken[h] = written[g]

(* A frame that opens nothing and finds no stream is a leftover of a stream *)
(* already reaped here, as on_data assumes when it drops it.                *)
LeftoversOnlyAfterReap ==
  \A p \in Peer :
    wire[p] # <<>> /\ conn[p] = "active" =>
      LET f == Head(wire[p])
      IN  f.kind \in {"data", "fin"} /\ ~f.syn /\ streams[p][f.id] = None =>
            \E h \in HandlesOf(p, f.id) : task[h] = "reaped"

(* A stream the peer opened, and what it sent on it, stays until a handle   *)
(* has claimed it, whatever the peer does next.                             *)
UnclaimedKept ==
  \A p \in Peer, i \in Id :
    streams[p][i] # None /\ ~shared[streams[p][i]].claimed =>
      streams'[p][i] = streams[p][i] \/ ~Up(p)

UnclaimedStreamsKept == [][UnclaimedKept]_vars

(* A frame the driver holds goes out, though both sockets may be full: the  *)
(* read side is drained even then, so two peers never wait for each other.  *)
PendingIsSent ==
  \A p \in Peer :
    pending_write_frame[p] # None ~> pending_write_frame[p] = None

(* flow_control.rs:54: a writer that ran out of credit gets some again, as  *)
(* long as both ends keep their handles and the peer's application reads:   *)
(* neither batching by half windows nor a parked reader starves it.         *)
CreditReturns ==
  \A h, g \in Handle :
    h.id = g.id /\ g.peer = Other(h.peer) /\ MaxWrites[h] > 0 =>
      (wr[h] = "credit" /\ task[h] = "live" /\ task[g] \in {"live", "closing", "half"})
        ~> (wr[h] # "credit" \/ task[h] # "live" \/ task[g] \notin {"live", "closing", "half"})

(* When a handle that has written is dropped, the driver reaps it and the   *)
(* peer's reader learns that the stream has ended.                          *)
DropReachesPeer ==
  \A h, g \in Handle :
    h.id = g.id /\ g.peer = Other(h.peer) /\ MaxWrites[g] > 0 =>
      (task[g] = "dropped" /\ written[g] > 0 /\ task[h] \in {"live", "half"})
        ~> (rd[h] = "eof" \/ task[h] \notin {"live", "half"})

(* A writer that waits for room in its channel is woken once there is some  *)
(* (no writer stays parked for ever, as the stress test of poll_api.rs has  *)
(* it).  Both halves of a split stream wait with the same sender.           *)
RoomWakesWriter ==
  \A h \in Handle : wr[h] = "room" ~> wr[h] # "room"
=============================================================================
