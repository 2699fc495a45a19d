------------------------------ MODULE MuxClosing ------------------------------
(***************************************************************************)
(* How two connections of mux end (src/mux/mux/src/connection.rs, active.rs,*)
(* closing.rs, cleanup.rs), over frames that the codec writes and reads     *)
(* piece by piece (frame/io.rs), with the pings that measure the round-trip *)
(* time (rtt.rs).                                                          *)
(*                                                                         *)
(* The streams of a peer are reduced to one writer, whose frames are        *)
(* numbered in the order the channel accepts them; Mux models the rest.     *)
(* The clock that spaces the pings may show any time.  Writing to a socket  *)
(* that the peer has let go of fails; so does no other write.               *)
(*                                                                         *)
(* The definitions named Faulty... are plausible bugs that PROJECT.json     *)
(* lists as mutants; each breaks a property the run checks.                 *)
(***************************************************************************)
EXTENDS Naturals, Sequences

CONSTANTS
  Peer,        (* the two ends                                              *)
  None,        (* Option::None                                              *)
  Nonce,       (* what rand::random gives a ping                            *)
  Configs,     (* the pairs of Config the peers may have                    *)
  ChannelCap,  (* commands the channel of a stream takes                    *)
  WireCap,     (* WireCap[p]: pieces the socket takes from p                *)
  MaxSent,     (* bound: MaxSent[p], frames the writer of p sends           *)
  MaxPings,    (* bound: MaxPings[p], pings p sends                         *)
  Closers,     (* bound: the peers whose user calls close                   *)
  Violators,   (* bound: peers whose streams may report a violation         *)
  Droppers     (* bound: peers whose user may drop the connection           *)

ASSUME MuxClosingAssumption ==
  /\ \E p, q \in Peer : p # q /\ Peer = {p, q}
  /\ Configs \subseteq [Peer -> [close_sync : BOOLEAN, keep_alive : BOOLEAN]]
  /\ ChannelCap \in Nat \ {0} /\ WireCap \in [Peer -> Nat \ {0}]
  /\ MaxSent \in [Peer -> Nat] /\ MaxPings \in [Peer -> Nat]
  /\ Nonce \subseteq Nat /\ None \notin Nonce

VARIABLES
  config,   (* Config::close_sync and keep_alive                            *)
  conn,     (* ConnectionState, with the State of Closing                   *)
  result,   (* what Connection::poll returns in the end                     *)
  io,       (* io[p]: Closed(Some(io))                                      *)
  writing,  (* WriteState: the pieces of a frame still to be written        *)
  reading,  (* ReadState: the pieces of a frame read so far                 *)
  wire,     (* wire[p]: the pieces under way from p to its peer             *)
  shut,     (* shut[p]: p writes no more, the peer will see the end         *)
  gone,     (* gone[p]: p has let go of the socket                          *)
  awaited,  (* RttState: the nonce of the pong p awaits, or None            *)
  pings,    (* pings sent, for the bound                                    *)
  pending_terminate, terminating, pending_pong, pending_write_frame,
  owed_close,      (* the close frame of the stream, staged                 *)
  pending_frames,  (* Closing::pending_frames                               *)
  wait_for_reply,  (* Closing::wait_for_reply                               *)
  chan,      (* commands in the channel                                     *)
  sending,   (* a command the channel has counted but not yet linked        *)
  accepted,  (* frames whose send has returned                              *)
  at_close,  (* how many that were when the channel was closed              *)
  seen       (* seen[p]: the pieces p has read                              *)

app == <<chan, sending, accepted>>
socket == <<writing, reading, wire, shut, gone, seen>>
driver == <<awaited, pings, pending_terminate, terminating, pending_pong,
            pending_write_frame, owed_close>>
closing == <<pending_frames, wait_for_reply, at_close>>
vars == <<config, conn, result, io, app, socket, driver, closing>>

Other(p) == CHOOSE q \in Peer : q # p

(* Frames.  A data frame has a header and a body, the others a header only. *)
Frame(tag, n) == [tag |-> tag, n |-> n]
Term == Frame("GoAway", 0)
ProtocolError == Frame("GoAway", 1)
Size(f) == IF f.tag = "Data" THEN 2 ELSE 1
Pieces(f) == [k \in 1 .. Size(f) |-> [frame |-> f, k |-> k]]
Whole(piece) == piece.k = Size(piece.frame)

Init ==
  /\ config \in Configs
  /\ conn = [p \in Peer |-> "Active"]
  /\ result = [p \in Peer |-> None]
  /\ io = [p \in Peer |-> FALSE]
  /\ writing = [p \in Peer |-> <<>>]
  /\ reading = [p \in Peer |-> <<>>]
  /\ wire = [p \in Peer |-> <<>>]
  /\ shut = [p \in Peer |-> FALSE]
  /\ gone = [p \in Peer |-> FALSE]
  /\ awaited = [p \in Peer |-> None]
  /\ pings = [p \in Peer |-> 0]
  /\ pending_terminate = [p \in Peer |-> None]
  /\ terminating = [p \in Peer |-> FALSE]
  /\ pending_pong = [p \in Peer |-> None]
  /\ pending_write_frame = [p \in Peer |-> None]
  /\ owed_close = [p \in Peer |-> None]
  /\ pending_frames = [p \in Peer |-> <<>>]
  /\ wait_for_reply = [p \in Peer |-> FALSE]
  /\ chan = [p \in Peer |-> <<>>]
  /\ sending = [p \in Peer |-> None]
  /\ accepted = [p \in Peer |-> 0]
  /\ at_close = [p \in Peer |-> None]
  /\ seen = [p \in Peer |-> <<>>]
-----------------------------------------------------------------------------
(* The application.  A send is two steps of the channel: the command is     *)
(* counted while the channel is open, then linked; the driver may close the *)
(* channel in between.                                                      *)
BeginSend(p) ==
  /\ conn[p] = "Active" /\ sending[p] = None /\ owed_close[p] = None
  /\ accepted[p] < MaxSent[p] /\ Len(chan[p]) < ChannelCap
  /\ sending' = [sending EXCEPT ![p] = Frame("Data", accepted[p] + 1)]
  /\ UNCHANGED <<config, conn, result, io, chan, accepted, socket, driver, closing>>

EndSend(p) ==
  /\ sending[p] # None
  /\ chan' = [chan EXCEPT ![p] = Append(@, sending[p])]
  /\ accepted' = [accepted EXCEPT ![p] = @ + 1]
  /\ sending' = [sending EXCEPT ![p] = None]
  /\ UNCHANGED <<config, conn, result, io, socket, driver, closing>>

(* The last handle goes, after its last frame, and its channel is drained:  *)
(* a close frame is owed, and is numbered as the last frame of the stream.  *)
DropStream(p) ==
  /\ conn[p] = "Active" /\ sending[p] = None /\ chan[p] = <<>>
  /\ accepted[p] = MaxSent[p] /\ MaxSent[p] > 0
  /\ owed_close' = [owed_close EXCEPT ![p] = Frame("Close", accepted[p] + 1)]
  /\ accepted' = [accepted EXCEPT ![p] = @ + 1]
  /\ UNCHANGED <<config, conn, result, io, socket, closing, chan, sending, awaited, pings,
                 pending_terminate, terminating, pending_pong, pending_write_frame>>
-----------------------------------------------------------------------------
(* Leaving the active state. *)

(* take_pending_frames, in the order of their priority. *)
FaultyTakePendingFrames(p) ==
  LET Some(f) == IF f = None THEN <<>> ELSE <<f>>
      pong == IF pending_pong[p] = None THEN None ELSE Frame("Pong", pending_pong[p])
  IN  Some(pending_terminate[p]) \o Some(pong) \o Some(owed_close[p])
        \o Some(pending_write_frame[p])

TakePendingFrames(p) ==
  LET Some(f) == IF f = None THEN <<>> ELSE <<f>>
      pong == IF pending_pong[p] = None THEN None ELSE Frame("Pong", pending_pong[p])
  IN  Some(pending_terminate[p]) \o Some(pong) \o Some(pending_write_frame[p])
        \o Some(owed_close[p])

(* The fields of Active go with it. *)
LeaveActive(p) ==
  /\ awaited' = [awaited EXCEPT ![p] = None]
  /\ pending_terminate' = [pending_terminate EXCEPT ![p] = None]
  /\ pending_pong' = [pending_pong EXCEPT ![p] = None]
  /\ pending_write_frame' = [pending_write_frame EXCEPT ![p] = None]
  /\ owed_close' = [owed_close EXCEPT ![p] = None]
  /\ UNCHANGED <<terminating, pings>>

(* close and close_no_wait: the channels close and what is staged goes into  *)
(* Closing.  What prepare_close does to the streams is not part of it: they  *)
(* are reduced to the frames they have queued.                               *)
StartClosing(p, wait) ==
  /\ conn' = [conn EXCEPT ![p] = "DrainingStreamReceiver"]
  /\ pending_frames' = [pending_frames EXCEPT ![p] = TakePendingFrames(p)]
  /\ wait_for_reply' = [wait_for_reply EXCEPT ![p] = wait]
  /\ at_close' = [at_close EXCEPT ![p] = accepted[p]]
  /\ LeaveActive(p)
  /\ UNCHANGED <<result, shut, gone>>

(* cleanup: the socket goes with Active. *)
StartCleanup(p, r) ==
  /\ conn' = [conn EXCEPT ![p] = "Cleanup"]
  /\ result' = [result EXCEPT ![p] = r]
  /\ shut' = [shut EXCEPT ![p] = TRUE] /\ gone' = [gone EXCEPT ![p] = TRUE]
  /\ at_close' = [at_close EXCEPT ![p] = accepted[p]]
  /\ LeaveActive(p)
  /\ UNCHANGED <<pending_frames, wait_for_reply>>

(* Cleanup::poll: what the channel holds is thrown away. *)
FinishCleanup(p) ==
  /\ conn[p] = "Cleanup"
  /\ conn' = [conn EXCEPT ![p] = "Closed"]
  /\ chan' = [chan EXCEPT ![p] = <<>>]
  /\ UNCHANGED <<config, result, io, sending, accepted, socket, driver, closing>>

(* Err from Active::poll, or from Closing::poll, which drops the socket. *)
Fail(p) ==
  IF conn[p] = "Active" THEN StartCleanup(p, "error")
  ELSE /\ conn' = [conn EXCEPT ![p] = "Closed"]
       /\ result' = [result EXCEPT ![p] = "error"]
       /\ shut' = [shut EXCEPT ![p] = TRUE] /\ gone' = [gone EXCEPT ![p] = TRUE]
       /\ UNCHANGED <<driver, closing>>

(* ConnectionError::Closed in Connection::poll. *)
FaultyPeerClosed(p) == StartCleanup(p, "ok")

PeerClosed(p) ==
  IF config[p].close_sync THEN StartClosing(p, FALSE) ELSE StartCleanup(p, "ok")

(* Connection::close, by the user. *)
Close(p) ==
  /\ p \in Closers /\ conn[p] = "Active"
  /\ StartClosing(p, config[p].close_sync)
  /\ UNCHANGED <<config, io, app, writing, reading, wire, seen>>

(* A peer has reported a violation, or its user has dropped the connection. *)
(* (Bound: one such event in a run.)                                        *)
Disturbed == \E p \in Peer : terminating[p] \/ conn[p] = "Dropped"

(* The user drops the connection while or after it closes, or the io that   *)
(* was handed back.  The drop of an active one is part of Mux.              *)
DropConnection(p) ==
  /\ p \in Droppers /\ conn[p] \notin {"Active", "Dropped"} /\ ~gone[p] /\ ~Disturbed
  /\ conn' = [conn EXCEPT ![p] = "Dropped"]
  /\ shut' = [shut EXCEPT ![p] = TRUE] /\ gone' = [gone EXCEPT ![p] = TRUE]
  /\ LeaveActive(p)
  /\ UNCHANGED <<config, result, io, app, closing, writing, reading, wire, seen>>
-----------------------------------------------------------------------------
(* Writing. *)
Ready(p) == writing[p] = <<>>

(* poll_ready of the codec: one more piece into the socket, if it takes it. *)
(* The io is one that does not buffer: what it takes is on its way.         *)
WritePiece(p) ==
  /\ conn[p] \in {"Active", "FlushingPendingFrames"} /\ ~Ready(p)
  /\ ~gone[Other(p)] /\ Len(wire[p]) < WireCap[p]
  /\ wire' = [wire EXCEPT ![p] = Append(@, Head(writing[p]))]
  /\ writing' = [writing EXCEPT ![p] = Tail(@)]
  /\ UNCHANGED <<config, conn, result, io, app, driver, closing, reading, shut, gone, seen>>

WriteFails(p) ==
  /\ conn[p] \in {"Active", "FlushingPendingFrames"} /\ ~Ready(p)
  /\ gone[Other(p)]
  /\ Fail(p)
  /\ UNCHANGED <<config, io, app, writing, reading, wire, seen>>

StartSend(p, f) ==
  /\ writing' = [writing EXCEPT ![p] = Pieces(f)]
  /\ UNCHANGED <<reading, wire, shut, gone, seen>>

(* Rtt::next_ping. *)
SendPing(p) ==
  /\ conn[p] = "Active" /\ Ready(p)
  /\ awaited[p] = None /\ pings[p] < MaxPings[p]
  /\ \E n \in Nonce :
       /\ StartSend(p, Frame("Ping", n))
       /\ awaited' = [awaited EXCEPT ![p] = n]
  /\ pings' = [pings EXCEPT ![p] = @ + 1]
  /\ UNCHANGED <<config, conn, result, io, app, closing, pending_terminate, terminating,
                 pending_pong, pending_write_frame, owed_close>>

(* The writes of Active::poll: control frames before the streams' frames. *)
SendPending(p) ==
  /\ conn[p] = "Active" /\ Ready(p)
  /\ \/ /\ pending_terminate[p] # None
        /\ StartSend(p, pending_terminate[p])
        /\ pending_terminate' = [pending_terminate EXCEPT ![p] = None]
        /\ UNCHANGED <<pending_pong, pending_write_frame>>
     \/ /\ pending_terminate[p] = None /\ pending_pong[p] # None
        /\ StartSend(p, Frame("Pong", pending_pong[p]))
        /\ pending_pong' = [pending_pong EXCEPT ![p] = None]
        /\ UNCHANGED <<pending_terminate, pending_write_frame>>
     \/ /\ pending_terminate[p] = None /\ pending_pong[p] = None
        /\ pending_write_frame[p] # None
        /\ StartSend(p, pending_write_frame[p])
        /\ pending_write_frame' = [pending_write_frame EXCEPT ![p] = None]
        /\ UNCHANGED <<pending_terminate, pending_pong>>
  /\ UNCHANGED <<config, conn, result, io, app, closing, awaited, pings, terminating,
                 owed_close>>

(* The next frame of the streams: an owed close, else a command. *)
TakeFrame(p) ==
  /\ conn[p] = "Active" /\ pending_write_frame[p] = None
  /\ \/ /\ owed_close[p] # None
        /\ pending_write_frame' = [pending_write_frame EXCEPT ![p] = owed_close[p]]
        /\ owed_close' = [owed_close EXCEPT ![p] = None]
        /\ UNCHANGED chan
     \/ /\ owed_close[p] = None /\ chan[p] # <<>>
        /\ pending_write_frame' = [pending_write_frame EXCEPT ![p] = Head(chan[p])]
        /\ chan' = [chan EXCEPT ![p] = Tail(@)]
        /\ UNCHANGED owed_close
  /\ UNCHANGED <<config, conn, result, io, sending, accepted, socket, closing, awaited,
                 pings, pending_terminate, terminating, pending_pong>>
-----------------------------------------------------------------------------
(* Reading. *)

(* handle_pong: a pong must answer the ping that is out. *)
FaultyHandlePong(p, n) ==
  IF awaited[p] = n THEN UNCHANGED <<awaited, pending_terminate, terminating>>
  ELSE /\ terminating' = [terminating EXCEPT ![p] = TRUE]
       /\ pending_terminate' = [pending_terminate EXCEPT ![p] = ProtocolError]
       /\ UNCHANGED awaited

HandlePong(p, n) ==
  IF awaited[p] = n
    THEN /\ awaited' = [awaited EXCEPT ![p] = None]
         /\ UNCHANGED <<pending_terminate, terminating>>
  ELSE /\ terminating' = [terminating EXCEPT ![p] = TRUE]
       /\ pending_terminate' = [pending_terminate EXCEPT ![p] = ProtocolError]
       /\ UNCHANGED awaited

(* A frame of a stream: accepted, or a violation (see Mux). *)
FaultyOnData(p) ==
  \/ UNCHANGED <<pending_terminate, terminating>>
  \/ /\ p \in Violators /\ ~Disturbed
     /\ terminating' = [terminating EXCEPT ![p] = TRUE]
     /\ pending_terminate' = [pending_terminate EXCEPT ![p] = Term]

OnData(p) ==
  \/ UNCHANGED <<pending_terminate, terminating>>
  \/ /\ p \in Violators /\ ~Disturbed
     /\ terminating' = [terminating EXCEPT ![p] = TRUE]
     /\ pending_terminate' = [pending_terminate EXCEPT ![p] = ProtocolError]

Stay == UNCHANGED <<conn, result, shut, gone, closing>>

OnFrame(p, f) ==
  IF terminating[p] THEN Stay /\ UNCHANGED driver
  ELSE
    \/ /\ f.tag \in {"Data", "Close"}
       /\ OnData(p)
       /\ Stay /\ UNCHANGED <<awaited, pings, pending_pong, pending_write_frame, owed_close>>
    \/ /\ f.tag = "Ping"
       /\ pending_pong' = [pending_pong EXCEPT ![p] = f.n]
       /\ Stay
       /\ UNCHANGED <<awaited, pings, pending_terminate, terminating, pending_write_frame,
                      owed_close>>
    \/ /\ f.tag = "Pong"
       /\ HandlePong(p, f.n)
       /\ Stay /\ UNCHANGED <<pings, pending_pong, pending_write_frame, owed_close>>
    \/ /\ f = Term
       /\ PeerClosed(p)
    \/ /\ f = ProtocolError
       /\ StartCleanup(p, "error")

(* Closing waits for a GoAway of any kind and ignores the rest. *)
AwaitGoAway(p, f) ==
  /\ conn' = IF f.tag = "GoAway" THEN [conn EXCEPT ![p] = "ClosingSocket"] ELSE conn
  /\ UNCHANGED <<result, shut, gone, driver, closing>>

(* poll_next of the codec: one more piece, and the frame when it is whole. *)
ReadPiece(p) ==
  LET q == Other(p)
      piece == Head(wire[q])
      whole == Whole(piece)
  IN  /\ conn[p] \in {"Active", "WaitingForReply"} /\ wire[q] # <<>>
      /\ wire' = [wire EXCEPT ![q] = Tail(@)]
      /\ seen' = [seen EXCEPT ![p] = Append(@, piece)]
      /\ reading' = [reading EXCEPT ![p] = IF whole THEN <<>> ELSE Append(@, piece)]
      /\ IF ~whole THEN Stay /\ UNCHANGED driver
         ELSE IF conn[p] = "Active" THEN OnFrame(p, piece.frame)
         ELSE AwaitGoAway(p, piece.frame)
      /\ UNCHANGED <<config, io, app, writing>>

(* The end of the socket, between two frames or within one. *)
ReadEnd(p) ==
  LET q == Other(p)
  IN  /\ conn[p] \in {"Active", "WaitingForReply"}
      /\ wire[q] = <<>> /\ shut[q]
      /\ IF reading[p] # <<>> THEN Fail(p)
         ELSE IF conn[p] = "Active" THEN PeerClosed(p)
         ELSE /\ conn' = [conn EXCEPT ![p] = "ClosingSocket"]
              /\ UNCHANGED <<result, shut, gone, driver, closing>>
      /\ UNCHANGED <<config, io, app, writing, reading, wire, seen>>
-----------------------------------------------------------------------------
(* Closing::poll. *)
DrainCommand(p) ==
  /\ conn[p] = "DrainingStreamReceiver" /\ chan[p] # <<>>
  /\ pending_frames' = [pending_frames EXCEPT ![p] = Append(@, Head(chan[p]))]
  /\ chan' = [chan EXCEPT ![p] = Tail(@)]
  /\ UNCHANGED <<config, conn, result, io, sending, accepted, socket, driver,
                 wait_for_reply, at_close>>

FaultyFinishDraining(p) ==
  /\ conn[p] = "DrainingStreamReceiver" /\ chan[p] = <<>>
  /\ pending_frames' = [pending_frames EXCEPT ![p] = IF @ = <<>> THEN @ ELSE Append(@, Term)]
  /\ conn' = [conn EXCEPT ![p] = "FlushingPendingFrames"]
  /\ UNCHANGED <<config, result, io, app, socket, driver, wait_for_reply, at_close>>

(* Nothing to take, be it that the channels are at their end (None) or that *)
(* a sender is still at it (Pending).                                       *)
FinishDraining(p) ==
  /\ conn[p] = "DrainingStreamReceiver" /\ chan[p] = <<>>
  /\ pending_frames' = [pending_frames EXCEPT ![p] = Append(@, Term)]
  /\ conn' = [conn EXCEPT ![p] = "FlushingPendingFrames"]
  /\ UNCHANGED <<config, result, io, app, socket, driver, wait_for_reply, at_close>>

FlushFrame(p) ==
  /\ conn[p] = "FlushingPendingFrames" /\ Ready(p) /\ pending_frames[p] # <<>>
  /\ StartSend(p, Head(pending_frames[p]))
  /\ pending_frames' = [pending_frames EXCEPT ![p] = Tail(@)]
  /\ UNCHANGED <<config, conn, result, io, app, driver, wait_for_reply, at_close>>

FinishFlushing(p) ==
  /\ conn[p] = "FlushingPendingFrames" /\ Ready(p) /\ pending_frames[p] = <<>>
  /\ conn' = [conn EXCEPT ![p] = IF wait_for_reply[p] THEN "WaitingForReply"
                                                      ELSE "ClosingSocket"]
  /\ UNCHANGED <<config, result, io, app, socket, driver, closing>>

CloseSocket(p) ==
  /\ conn[p] = "ClosingSocket"
  /\ shut' = [shut EXCEPT ![p] = ~config[p].keep_alive]
  /\ conn' = [conn EXCEPT ![p] = "Closed"]
  /\ result' = [result EXCEPT ![p] = "ok"]
  /\ io' = [io EXCEPT ![p] = TRUE]
  /\ UNCHANGED <<config, app, driver, closing, writing, reading, wire, gone, seen>>
-----------------------------------------------------------------------------
Poll(p) ==
  \/ WritePiece(p) \/ WriteFails(p) \/ SendPing(p) \/ SendPending(p) \/ TakeFrame(p)
  \/ ReadPiece(p) \/ ReadEnd(p)
  \/ DrainCommand(p) \/ FinishDraining(p) \/ FlushFrame(p) \/ FinishFlushing(p)
  \/ CloseSocket(p) \/ FinishCleanup(p)

User(p) == BeginSend(p) \/ EndSend(p) \/ DropStream(p) \/ Close(p) \/ DropConnection(p)

Step == \E p \in Peer : Poll(p) \/ User(p)

Spec == Init /\ [][Step]_vars

(* Both connections are polled.  Their users owe nothing. *)
FairSpec == Spec /\ \A p \in Peer : WF_vars(Poll(p))
-----------------------------------------------------------------------------
State == {"Active", "DrainingStreamReceiver", "FlushingPendingFrames", "WaitingForReply",
          "ClosingSocket", "Cleanup", "Closed", "Dropped"}
Frames == [tag : {"Data", "Close"}, n : Nat] \cup [tag : {"Ping", "Pong"}, n : Nonce]
            \cup {Term, ProtocolError}
Piece == {c \in [frame : Frames, k : 1 .. 2] : c.k <= Size(c.frame)}

(* An absence is neither a frame nor a result. *)
ASSUME NoneAssumption == None \notin Frames \cup {"ok", "error"}

TypeOK ==
  /\ config \in Configs /\ conn \in [Peer -> State]
  /\ result \in [Peer -> {None, "ok", "error"}] /\ io \in [Peer -> BOOLEAN]
  /\ writing \in [Peer -> Seq(Piece)] /\ reading \in [Peer -> Seq(Piece)]
  /\ wire \in [Peer -> Seq(Piece)] /\ \A p \in Peer : Len(wire[p]) <= WireCap[p]
  /\ shut \in [Peer -> BOOLEAN] /\ gone \in [Peer -> BOOLEAN]
  /\ awaited \in [Peer -> Nonce \cup {None}] /\ pings \in [Peer -> Nat]
  /\ pending_terminate \in [Peer -> {ProtocolError, None}]
  /\ terminating \in [Peer -> BOOLEAN]
  /\ pending_pong \in [Peer -> Nonce \cup {None}]
  /\ pending_write_frame \in [Peer -> Frames \cup {None}]
  /\ owed_close \in [Peer -> Frames \cup {None}]
  /\ pending_frames \in [Peer -> Seq(Frames)] /\ wait_for_reply \in [Peer -> BOOLEAN]
  /\ chan \in [Peer -> Seq(Frames)] /\ \A p \in Peer : Len(chan[p]) <= ChannelCap
  /\ sending \in [Peer -> Frames \cup {None}] /\ accepted \in [Peer -> Nat]
  /\ at_close \in [Peer -> Nat \cup {None}] /\ seen \in [Peer -> Seq(Piece)]

(* The pieces p has started to send and its peer has not read. *)
UnderWay(p) == wire[p] \o writing[p]

(* All p has ever started to send. *)
Line(p) == seen[Other(p)] \o UnderWay(p)

(* Where a sequence of pieces ends a frame with one of these tags. *)
Ends(line, tags) == {k \in DOMAIN line : Whole(line[k]) /\ line[k].frame.tag \in tags}

(* active.rs:444, closing.rs:81: the frames a stream was told are accepted  *)
(* before the close precede Term, all of them and in order, wherever they   *)
(* were: in the codec, beside it, owed, or in a channel.  Nothing follows.  *)
FlushedBeforeTerm ==
  \A p \in Peer :
    LET line == Line(p)
        sent == Ends(line, {"Data", "Close"})
        Upto(k) == {line[j].frame.n : j \in {i \in sent : i <= k}}
    IN  /\ \A j, k \in sent : j < k => line[j].frame.n < line[k].frame.n
        /\ \A k \in sent : Upto(k) = 1 .. line[k].frame.n
        /\ \A k \in DOMAIN line :
             line[k].frame = Term => k = Len(line) /\ 1 .. at_close[p] \subseteq Upto(k)

(* rtt.rs:61: while both ends are active a ping is out exactly while its    *)
(* pong is awaited, on its way, waiting to be answered or on its way back;  *)
(* so no pong of an honest peer is ever taken for a violation.              *)
Copies(p) ==
  LET q == Other(p)
      On(line, tag) ==
        {[tag |-> tag, at |-> k, n |-> line[k].frame.n] : k \in Ends(line, {tag})}
  IN  On(UnderWay(p), "Ping") \cup On(UnderWay(q), "Pong")
        \cup {[tag |-> "owed", at |-> 0, n |-> n] : n \in {pending_pong[q]} \ {None}}

PingTracked ==
  \A p \in Peer :
    /\ terminating[p] => p \in Violators
    /\ (\A q \in Peer : conn[q] = "Active" /\ ~terminating[q]) =>
         IF awaited[p] = None THEN Copies(p) = {}
         ELSE \E c \in Copies(p) : Copies(p) = {c} /\ c.n = awaited[p]

(* A close between undisturbed peers of one mind about close_sync is an     *)
(* error for neither; and after a synchronized close the io that is handed  *)
(* back holds no piece of a frame, written or unread.                       *)
GracefulClose ==
  /\ ~Disturbed /\ (\A p, q \in Peer : config[p].close_sync = config[q].close_sync) =>
       \A p \in Peer : result[p] # "error"
  /\ ~Disturbed /\ (\A p \in Peer : io[p] /\ config[p].close_sync) =>
       \A p \in Peer : wire[p] = <<>> /\ writing[p] = <<>> /\ reading[p] = <<>>

(* connection.rs:115, "Continue calling `poll` to complete the close        *)
(* handshake": with close_sync, a close by either, or a violation one of    *)
(* them reports, ends both connections, in every state the other is in; and *)
(* without error, if it is a close and nothing disturbs it.  A violator is  *)
(* ended by the end of the socket, so not by a peer that keeps it alive.    *)
KeptUp(p) == terminating[p] /\ config[Other(p)].keep_alive

Ended(p) == conn[p] \in {"Closed", "Dropped"} /\ (result[p] = "ok" \/ Disturbed)

CloseCompletes ==
  \A p \in Peer :
    (conn[p] # "Active" \/ terminating[p]) /\ (\A q \in Peer : config[q].close_sync)
      ~> \A q \in Peer : Ended(q) \/ KeptUp(q)
=============================================================================
