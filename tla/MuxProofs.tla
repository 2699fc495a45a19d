------------------------------ MODULE MuxProofs ------------------------------
(***************************************************************************)
(* The registry for every set of handles, ids and limits: the state keeps  *)
(* its types, streams and owed closes keep within their bounds, and an id  *)
(* has one Shared at a time.                                               *)
(***************************************************************************)
EXTENDS Mux, Integers, FiniteSetTheorems, TLAPS

(* Frames on a stream name one of the ids; only GoAway does not. *)
StreamFrame ==
  [kind : {"data", "fin", "rst", "window"}, id : Id, syn : BOOLEAN, len : Nat]

TaskStates == {"new", "live", "closing", "half", "dropping", "dropped", "reaped"}
RdStates == {"idle", "parked", "eof"}
WrStates == {"idle", "mid", "slot", "room", "credit"}
ConnStates == {"active", "terminating", "terminated", "failed", "cleanup"}

RegistryTyped ==
  /\ streams \in [Peer -> [Id -> Obj \cup {None}]]
  /\ inactive \in [Peer -> [Id -> Obj \cup {None}]]
  /\ owed_close \in [Peer -> [Id -> StreamFrame \cup {None}]]
  /\ slot_wakers \in [Peer -> SUBSET Handle]

HandlesTyped ==
  /\ task \in [Handle -> TaskStates]
  /\ object \in [Handle -> Obj \cup {None}]
  /\ sender_task \in [Handle -> {None, "rd", "wr"}]
  /\ rd \in [Handle -> RdStates]
  /\ wr \in [Handle -> WrStates]
  /\ written \in [Handle -> Nat] /\ taken \in [Handle -> Nat]

FramesTyped ==
  /\ channel \in [Handle -> Seq(StreamFrame)]
  /\ conn \in [Peer -> ConnStates]
  /\ pending_write_frame \in [Peer -> StreamFrame \cup {None}]
  /\ wire \in [Peer -> Seq(StreamFrame \cup {GoAway})]

(* A handle an application can use holds a Shared. *)
LiveHasShared ==
  \A h \in Handle : task[h] \in {"live", "closing", "half"} => object[h] # None

Typing ==
  /\ RegistryTyped /\ HandlesTyped /\ FramesTyped /\ LiveHasShared
  /\ shared \in [Obj -> Shared]

-----------------------------------------------------------------------------
(* The arithmetic of a controller whose window keeps its size. *)
LEMMA NewControllerType == Flow!NewController \in Flow!Controller
BY MuxAssumption DEF Flow!NewController, Flow!Controller

LEMMA ControllerSteps ==
  ASSUME NEW c \in Flow!Controller, NEW k \in Nat
  PROVE  /\ k <= c.send_window => Flow!ConsumeSend(c, k) \in Flow!Controller
         /\ k <= c.receive_window => Flow!ConsumeReceive(c, k) \in Flow!Controller
         /\ Flow!IncreaseSend(c, k) \in Flow!Controller
BY DEF Flow!Controller, Flow!ConsumeSend, Flow!ConsumeReceive, Flow!IncreaseSend

LEMMA WindowUpdateType ==
  ASSUME NEW c \in Flow!Controller, NEW b \in Nat
  PROVE  LET update == Flow!NextWindowUpdate(c, b, 0, FALSE)
         IN  update.fc \in Flow!Controller /\ update.credit \in Nat
<1> DEFINE grown == [c EXCEPT !.max_receive_window = Flow!NextMax(c, 0, FALSE)]
           credit == Flow!Ungranted(grown, b)
<1>1. /\ c.receive_window \in Nat /\ c.max_receive_window \in Nat /\ c.send_window \in Nat
      /\ c = [receive_window |-> c.receive_window,
              max_receive_window |-> c.max_receive_window,
              send_window |-> c.send_window]
  BY DEF Flow!Controller
<1>2. grown = c
  BY <1>1 DEF Flow!NextMax
<1> HIDE DEF grown
<1>3. credit \in Nat
  BY <1>1, <1>2 DEF Flow!Ungranted, Flow!SaturatingSub
<1> HIDE DEF credit
<1>4. [grown EXCEPT !.receive_window = @ + credit] \in Flow!Controller
  BY <1>1, <1>2, <1>3 DEF Flow!Controller
<1> QED
  BY <1>3, <1>4 DEF Flow!NextWindowUpdate, grown, credit

(* The record every Shared starts from, and its half-close states. *)
LEMMA NewSharedType == NewShared \in Shared /\ ~NewShared.activated
BY NewControllerType DEF NewShared, Shared

LEMMA UpdateStateType ==
  ASSUME NEW s \in Shared, NEW next \in {"Open", "SendClosed", "RecvClosed", "Closed"}
  PROVE  UpdateState(s.state, next) \in {"Open", "SendClosed", "RecvClosed", "Closed"}
BY DEF UpdateState, Shared

LEMMA AwakeType ==
  ASSUME NEW f, NEW hs
  PROVE  /\ f \in [Handle -> RdStates] => Awake(f, hs) \in [Handle -> RdStates]
         /\ f \in [Handle -> WrStates] => Awake(f, hs) \in [Handle -> WrStates]
BY DEF Awake, RdStates, WrStates

(* The frames the code builds. *)
LEMMA FrameTypes ==
  ASSUME NEW i \in Id
  PROVE  /\ Fin(i) \in StreamFrame /\ Rst(i) \in StreamFrame
         /\ \A syn \in BOOLEAN, k \in Nat :
              /\ Frame("data", i, syn, k) \in StreamFrame
              /\ Frame("window", i, syn, k) \in StreamFrame
BY DEF Fin, Rst, Frame, StreamFrame

(* A frame that is read is a stream frame unless it is a GoAway. *)
LEMMA ReceivedFrame ==
  ASSUME NEW p \in Peer, FramesTyped, wire[p] # <<>>
  PROVE  /\ Tail(wire[p]) \in Seq(StreamFrame \cup {GoAway})
         /\ Head(wire[p]).kind # "go_away" => Head(wire[p]) \in StreamFrame
<1>1. wire[p] \in Seq(StreamFrame \cup {GoAway})
  BY DEF FramesTyped
<1>2. /\ Head(wire[p]) \in StreamFrame \cup {GoAway}
      /\ Tail(wire[p]) \in Seq(StreamFrame \cup {GoAway})
  BY <1>1
<1> QED
  BY <1>2 DEF GoAway, Frame

(* What travels on a wire. *)
AnyFrame == StreamFrame \cup {GoAway}

(* Updates keep the types of a map of maps, of queues and of a Shared. *)
LEMMA Update2Type ==
  ASSUME NEW S, NEW f \in [Peer -> [Id -> S]], NEW p, NEW i, NEW v \in S
  PROVE  [f EXCEPT ![p][i] = v] \in [Peer -> [Id -> S]]
OBVIOUS

LEMMA AppendType ==
  ASSUME NEW S, NEW D, NEW f \in [D -> Seq(S)], NEW d, NEW v \in S
  PROVE  [f EXCEPT ![d] = Append(@, v)] \in [D -> Seq(S)]
<1>1. \A x \in D : Append(f[x], v) \in Seq(S)
  OBVIOUS
<1> QED
  BY <1>1

LEMMA SharedType ==
  ASSUME NEW s \in Shared
  PROVE  /\ \A b \in BOOLEAN : [s EXCEPT !.activated = b] \in Shared
         /\ \A b \in BOOLEAN : [s EXCEPT !.syn_pending = b] \in Shared
         /\ \A b \in BOOLEAN : [s EXCEPT !.claimed = b] \in Shared
         /\ \A h \in Handle \cup {None} : [s EXCEPT !.reader = h] \in Shared
         /\ \A h \in Handle \cup {None} : [s EXCEPT !.writer = h] \in Shared
         /\ \A c \in Flow!Controller : [s EXCEPT !.fc = c] \in Shared
         /\ \A n \in Nat : [s EXCEPT !.buffer = n] \in Shared
         /\ \A x \in {"Open", "SendClosed", "RecvClosed", "Closed"} :
              [s EXCEPT !.state = x] \in Shared
BY DEF Shared


(* A Shared is named after a handle, or after the SYN that created it. *)
LEMMA HandlesAreObjects == \A h \in Handle : h \in Obj /\ h.peer \in Peer /\ h.id \in Id
<1>1. Handle \subseteq Obj
  BY DEF Obj
<1> QED
  BY <1>1, MuxAssumption

LEMMA ImplicitIsObject == \A p \in Peer, i \in Id : Implicit(p, i) \in Obj
BY DEF Obj

-----------------------------------------------------------------------------
(* Typing, action by action. *)
LEMMA NewStreamTyping ==
  ASSUME Typing, NEW h \in Handle, NewStream(h)
  PROVE  Typing'
<1> USE HandlesAreObjects DEF Typing
<1> DEFINE existing == IF streams[h.peer][h.id] # None
                         THEN streams[h.peer][h.id] ELSE inactive[h.peer][h.id]
           o == IF existing # None THEN existing ELSE h
<1>0. existing \in Obj \cup {None} /\ o \in Obj /\ None \notin Obj
  BY MuxAssumption DEF RegistryTyped
<1>00. /\ object' = [object EXCEPT ![h] = o]
       /\ inactive' = inactive \/ inactive' = [inactive EXCEPT ![h.peer][h.id] = o]
       /\ \/ shared' = [shared EXCEPT ![o].claimed = TRUE]
          \/ shared' = [shared EXCEPT ![o] = [NewShared EXCEPT !.claimed = TRUE]]
       /\ task' = [task EXCEPT ![h] = "live"]
       /\ UNCHANGED <<streams, owed_close, slot_wakers, sender_task, rd, wr, written, taken,
                      channel, conn, pending_write_frame, wire>>
  BY Zenon DEF NewStream, driver
<1> HIDE DEF existing, o
<1>1. RegistryTyped'
  <2>1. [inactive EXCEPT ![h.peer][h.id] = o] \in [Peer -> [Id -> Obj \cup {None}]]
    BY <1>0, Update2Type DEF RegistryTyped
  <2>2. inactive' \in [Peer -> [Id -> Obj \cup {None}]]
    BY <1>00, <2>1 DEF RegistryTyped
  <2> QED
    BY <1>00, <2>2 DEF RegistryTyped
<1>2. HandlesTyped'
  BY <1>0, <1>00 DEF HandlesTyped, TaskStates
<1>3. FramesTyped'
  BY <1>00 DEF FramesTyped
<1>4. LiveHasShared'
  BY <1>0, <1>00 DEF LiveHasShared, HandlesTyped
<1>5. shared' \in [Obj -> Shared]
  <2>1. \A s \in Shared : [s EXCEPT !.claimed = TRUE] \in Shared
    BY SharedType
  <2>2. [NewShared EXCEPT !.claimed = TRUE] \in Shared
    BY <2>1, NewSharedType
  <2>3. [shared[o] EXCEPT !.claimed = TRUE] \in Shared
    BY <1>0, <2>1
  <2> HIDE DEF Typing
  <2> QED
    BY <1>0, <1>00, <2>2, <2>3 DEF Typing
<1> QED
  BY <1>1, <1>2, <1>3, <1>4, <1>5

LEMMA PollActivateTyping ==
  ASSUME Typing, NEW h \in Handle, PollActivate(h)
  PROVE  Typing'
<1> USE DEF Typing
<1> DEFINE s == streams[h.peer][h.id]
           b == object[h]
<1>0. /\ h.peer \in Peer /\ h.id \in Id /\ b \in Obj /\ None \notin Obj
      /\ s # None => s \in Obj
  BY HandlesAreObjects, MuxAssumption DEF PollActivate, HandlesTyped, LiveHasShared, RegistryTyped
<1>1. CASE Adopt(h) /\ s # None
  <2>2. shared' \in [Obj -> Shared]
    <3>1. shared' = [shared EXCEPT ![s] = [[shared[s] EXCEPT !.activated = TRUE] EXCEPT !.claimed = TRUE]]
      BY <1>1 DEF Adopt
    <3> QED
      BY <3>1, <1>0, <1>1, SharedType
  <2> QED
    BY Zenon, <1>0, <1>1, <2>2, Update2Type DEF Adopt, PollActivate, RegistryTyped, HandlesTyped, FramesTyped, LiveHasShared, WrStates, driver
<1>2. CASE ClaimSlot(h)
  <2>2. shared' \in [Obj -> Shared]
    <3>1. shared' = [shared EXCEPT ![b] = [[shared[b] EXCEPT !.activated = TRUE] EXCEPT !.syn_pending = TRUE]]
      BY <1>2 DEF ClaimSlot
    <3> QED
      BY <3>1, <1>0, SharedType
  <2> QED
    BY Zenon, <1>0, <1>2, <2>2, Update2Type DEF ClaimSlot, PollActivate, RegistryTyped, HandlesTyped, FramesTyped, LiveHasShared, WrStates, driver
<1>3. CASE AwaitSlot(h)
  <2>1. RegistryTyped'
    BY <1>0, <1>3 DEF AwaitSlot, PollActivate, RegistryTyped
  <2>2. HandlesTyped' /\ LiveHasShared'
    BY <1>0, <1>3 DEF AwaitSlot, PollActivate, HandlesTyped, LiveHasShared, WrStates
  <2>3. FramesTyped' /\ shared' = shared
    BY <1>0, <1>3 DEF AwaitSlot, PollActivate, FramesTyped, driver
  <2> QED
    BY <2>1, <2>2, <2>3
<1>4. CASE Proceed(h)
  <2>1. RegistryTyped'
    BY <1>0, <1>4 DEF Proceed, PollActivate, RegistryTyped
  <2>2. HandlesTyped' /\ LiveHasShared'
    BY <1>0, <1>4 DEF Proceed, PollActivate, HandlesTyped, LiveHasShared, WrStates
  <2>3. FramesTyped' /\ shared' = shared
    BY <1>0, <1>4 DEF Proceed, PollActivate, FramesTyped, driver
  <2> QED
    BY <2>1, <2>2, <2>3
<1> QED
  BY <1>1, <1>2, <1>3, <1>4 DEF PollActivate

LEMMA PollWriteTyping ==
  ASSUME Typing, NEW h \in Handle, PollWrite(h)
  PROVE  Typing'
<1> USE DEF Typing
<1> DEFINE b == object[h]
           s == shared[b]
<1>0. /\ h.peer \in Peer /\ h.id \in Id /\ b \in Obj /\ s \in Shared
  BY HandlesAreObjects, MuxAssumption DEF PollWrite, HandlesTyped, LiveHasShared
<1>1. RegistryTyped'
  BY DEF PollWrite, RegistryTyped, registry
<1>2. /\ object' = object /\ task' = task /\ rd' = rd /\ taken' = taken
      /\ conn' = conn /\ pending_write_frame' = pending_write_frame /\ wire' = wire
  BY DEF PollWrite, driver
<1>3. HandlesTyped' /\ LiveHasShared' /\ channel' \in [Handle -> Seq(StreamFrame)]
        /\ shared' \in [Obj -> Shared]
  <2>1. CASE FailWrite(h)
    BY <1>2, <2>1 DEF FailWrite, HandlesTyped, FramesTyped, LiveHasShared, WrStates
  <2>2. CASE AwaitRoom(h)
    BY <1>2, <2>2 DEF AwaitRoom, HandlesTyped, FramesTyped, LiveHasShared, WrStates
  <2>3. CASE AwaitCredit(h)
    <3>1. shared' = [shared EXCEPT ![b] = [s EXCEPT !.writer = h]]
      BY <2>3 DEF AwaitCredit
    <3>2. shared' \in [Obj -> Shared]
      BY <3>1, <1>0, SharedType
    <3> QED
      BY <1>2, <2>3, <3>2 DEF AwaitCredit, HandlesTyped, FramesTyped, LiveHasShared, WrStates
  <2>4. CASE SendData(h) /\ ~OutOfCredit(s)
    <3> DEFINE c == Flow!ConsumeSend(s.fc, 1)
    <3>1. shared' = [shared EXCEPT ![b] = [[s EXCEPT !.fc = c] EXCEPT !.syn_pending = FALSE]]
      BY <2>4 DEF SendData
    <3>2. s.fc \in Flow!Controller /\ s.syn_pending \in BOOLEAN
      BY <1>0 DEF Shared
    <3>3. 1 <= s.fc.send_window
      BY <2>4, <3>2 DEF OutOfCredit, Flow!Controller
    <3>4. c \in Flow!Controller
      BY <3>2, <3>3, ControllerSteps
    <3> HIDE DEF c
    <3>5. shared' \in [Obj -> Shared]
      BY <3>1, <3>4, <1>0, SharedType
    <3>6. channel' \in [Handle -> Seq(StreamFrame)]
      <4> DEFINE f == Frame("data", h.id, shared[b].syn_pending, 1)
      <4>1. f \in StreamFrame
        BY <1>0, <3>2, FrameTypes
      <4> HIDE DEF f
      <4>2. channel' = [channel EXCEPT ![h] = Append(@, f)]
        BY <2>4 DEF SendData, f
      <4> QED
        BY <4>1, <4>2, AppendType DEF FramesTyped
    <3> QED
      BY <1>2, <2>4, <3>5, <3>6 DEF SendData, HandlesTyped, LiveHasShared, WrStates
  <2> QED
    BY <2>1, <2>2, <2>3, <2>4 DEF PollWrite
<1> QED
  BY <1>1, <1>2, <1>3 DEF FramesTyped

LEMMA PollReadTyping ==
  ASSUME Typing, NEW h \in Handle, PollRead(h)
  PROVE  Typing'
<1> USE DEF Typing
<1> DEFINE b == object[h]
           s == shared[b]
           update == Flow!NextWindowUpdate(s.fc, s.buffer, 0, FALSE)
<1>0. /\ h.peer \in Peer /\ h.id \in Id /\ b \in Obj /\ s \in Shared
  BY HandlesAreObjects, MuxAssumption DEF PollRead, HandlesTyped, LiveHasShared
<1>a. s.fc \in Flow!Controller /\ s.buffer \in Nat
  BY <1>0 DEF Shared
<1>b. update.fc \in Flow!Controller /\ update.credit \in Nat
  BY <1>a, WindowUpdateType
<1> HIDE DEF update
<1>1. RegistryTyped'
  BY DEF PollRead, RegistryTyped, registry
<1>2. /\ object' = object /\ task' = task /\ wr' = wr /\ written' = written
      /\ conn' = conn /\ pending_write_frame' = pending_write_frame /\ wire' = wire
  BY DEF PollRead, driver
<1>3. HandlesTyped' /\ LiveHasShared'
  <2>1. /\ rd' \in {rd, [rd EXCEPT ![h] = "eof"], [rd EXCEPT ![h] = "parked"]}
        /\ taken' \in {taken, [taken EXCEPT ![h] = @ + 1]}
        /\ sender_task' \in {sender_task, [sender_task EXCEPT ![h] = "rd"]}
    BY DEF PollRead
  <2>2. rd' \in [Handle -> RdStates]
    BY <2>1 DEF HandlesTyped, RdStates
  <2>3. taken' \in [Handle -> Nat] /\ sender_task' \in [Handle -> {None, "rd", "wr"}]
    BY <2>1 DEF HandlesTyped
  <2> QED
    BY <1>2, <2>2, <2>3 DEF HandlesTyped, LiveHasShared
<1>4. channel' \in [Handle -> Seq(StreamFrame)]
  <2> DEFINE f == Frame("window", h.id, FALSE, update.credit)
  <2>1. f \in StreamFrame
    BY <1>0, <1>b, FrameTypes
  <2>2. channel' = channel \/ channel' = [channel EXCEPT ![h] = Append(@, f)]
    BY Zenon DEF PollRead, update
  <2> HIDE DEF f
  <2>3. [channel EXCEPT ![h] = Append(@, f)] \in [Handle -> Seq(StreamFrame)]
    BY <2>1, AppendType DEF FramesTyped
  <2> QED
    BY <2>2, <2>3 DEF FramesTyped
<1>5. shared' \in [Obj -> Shared]
  <2>1. PICK g \in {s, [s EXCEPT !.fc = update.fc]} :
          \/ shared' = [shared EXCEPT ![b] = [g EXCEPT !.buffer = @ - 1]] /\ s.buffer > 0
          \/ shared' = shared
          \/ shared' = [shared EXCEPT ![b] = [g EXCEPT !.reader = h]]
    BY DEF PollRead, update
  <2>2. g \in Shared
    <3>1. \A c \in Flow!Controller : [s EXCEPT !.fc = c] \in Shared
      BY <1>0, SharedType
    <3>2. [s EXCEPT !.fc = update.fc] \in Shared
      BY <1>b, <3>1
    <3> HIDE DEF s
    <3> QED
      BY <1>0, <2>1, <3>2
  <2>3. g.buffer = s.buffer
    BY <2>1, <1>0 DEF Shared
  <2>4. CASE s.buffer > 0 /\ shared' = [shared EXCEPT ![b] = [g EXCEPT !.buffer = @ - 1]]
    <3>0. g.buffer - 1 \in Nat
      BY <1>a, <2>3, <2>4
    <3>1. [g EXCEPT !.buffer = g.buffer - 1] \in Shared
      BY <3>0, <2>2, SharedType
    <3> QED
      BY <1>0, <2>4, <3>1
  <2>5. CASE shared' = [shared EXCEPT ![b] = [g EXCEPT !.reader = h]]
    BY <1>0, <2>2, <2>5, SharedType
  <2> QED
    BY <2>1, <2>4, <2>5
<1> QED
  BY <1>1, <1>2, <1>3, <1>4, <1>5 DEF FramesTyped

LEMMA SendGoAwayTyping ==
  ASSUME Typing, NEW p \in Peer, SendGoAway(p)
  PROVE  Typing'
<1> USE DEF Typing
<1>1. wire' \in [Peer -> Seq(AnyFrame)]
  BY AppendType DEF AnyFrame, FramesTyped, SendGoAway, Send
<1>2. FramesTyped'
  BY <1>1 DEF AnyFrame, FramesTyped, SendGoAway, handles, ConnStates
<1> QED
  BY <1>2 DEF SendGoAway, registry, handles, RegistryTyped, HandlesTyped, LiveHasShared

LEMMA SendPendingTyping ==
  ASSUME Typing, NEW p \in Peer, SendPending(p)
  PROVE  Typing'
<1> USE DEF Typing
<1>0. pending_write_frame[p] \in AnyFrame
  BY DEF SendPending, FramesTyped, AnyFrame
<1>1. wire' \in [Peer -> Seq(AnyFrame)]
  BY <1>0, AppendType DEF AnyFrame, FramesTyped, SendPending, Send
<1>2. FramesTyped'
  BY <1>1 DEF AnyFrame, FramesTyped, SendPending, handles
<1> QED
  BY <1>2 DEF SendPending, registry, handles, RegistryTyped, HandlesTyped, LiveHasShared

LEMMA TakeOwedTyping ==
  ASSUME Typing, NEW p \in Peer, TakeOwed(p)
  PROVE  Typing'
<1> USE DEF Typing
<1>1. RegistryTyped' /\ FramesTyped'
  <2>1. PICK i \in Owed(p) :
          /\ pending_write_frame' = [pending_write_frame EXCEPT ![p] = owed_close[p][i]]
          /\ owed_close' = [owed_close EXCEPT ![p][i] = None]
    BY DEF TakeOwed
  <2>2. owed_close[p][i] \in StreamFrame
    BY DEF Owed, RegistryTyped
  <2> QED
    BY <2>1, <2>2 DEF RegistryTyped, FramesTyped, TakeOwed, Owed
<1>2. HandlesTyped' /\ LiveHasShared'
  BY AwakeType DEF TakeOwed, HandlesTyped, LiveHasShared
<1> QED
  BY <1>1, <1>2 DEF TakeOwed

LEMMA ReapStreamTyping ==
  ASSUME Typing, NEW h \in Handle, ReapStream(h)
  PROVE  Typing'
<1> USE DEF Typing
<1>0. h.peer \in Peer /\ h.id \in Id
  BY HandlesAreObjects
<1>1. FramesTyped'
  BY DEF ReapStream, FramesTyped, driver
<1>2. /\ task' \in [Handle -> TaskStates] /\ object' = object
      /\ sender_task' = sender_task /\ rd' = rd /\ written' = written /\ taken' = taken
  BY DEF ReapStream, HandlesTyped, TaskStates
<1>3. LiveHasShared'
  BY DEF ReapStream, LiveHasShared, HandlesTyped
<1>4. CASE UNCHANGED <<registry, shared, wr>>
  BY <1>1, <1>2, <1>3, <1>4 DEF RegistryTyped, HandlesTyped, registry
<1>5. CASE Forget(h.peer, h.id)
  <2>1. RegistryTyped'
    BY <1>0, <1>5, Update2Type DEF Forget, RegistryTyped
  <2> QED
    BY <1>1, <1>2, <1>3, <1>5, <2>1 DEF Forget, HandlesTyped
<1>6. CASE Release(h.peer, h.id) /\ streams[h.peer][h.id] # None
  <2> DEFINE o == streams[h.peer][h.id]
             old == owed_close[h.peer][h.id]
             frame == OwedClose(h.id, shared[o].state)
             staged == IF frame # None THEN frame ELSE old
  <2>1. o \in Obj
    BY <1>0, <1>6 DEF RegistryTyped
  <2>2. frame \in StreamFrame \cup {None} /\ old \in StreamFrame \cup {None}
    BY <1>0, FrameTypes DEF OwedClose, RegistryTyped
  <2>3. staged \in StreamFrame \cup {None}
    BY <2>2
  <2>4. owed_close' = [owed_close EXCEPT ![h.peer][h.id] = staged]
    BY <1>6 DEF Release
  <2> HIDE DEF staged
  <2>5. streams' \in [Peer -> [Id -> Obj \cup {None}]]
    BY <1>0, <1>6, Update2Type DEF Release, RegistryTyped
  <2>6. owed_close' \in [Peer -> [Id -> StreamFrame \cup {None}]]
    BY <1>0, <2>3, <2>4, Update2Type DEF RegistryTyped
  <2>7. slot_wakers' \in [Peer -> SUBSET Handle] /\ inactive' = inactive
    BY <1>6 DEF Release, RegistryTyped
  <2>8. RegistryTyped'
    BY <2>5, <2>6, <2>7 DEF RegistryTyped
  <2>9. shared' \in [Obj -> Shared]
    BY <1>6, <2>1, NewSharedType DEF Release
  <2>10. wr' \in [Handle -> WrStates]
    <3>1. wr' = wr \/ \E hs : wr' = Awake(wr, hs)
      BY Zenon, <1>6 DEF Release
    <3> QED
      BY <3>1, AwakeType DEF HandlesTyped
  <2> QED
    BY <1>1, <1>2, <1>3, <2>8, <2>9, <2>10 DEF HandlesTyped
<1> QED
  BY <1>4, <1>5, <1>6 DEF ReapStream

LEMMA ReceivesTyping ==
  ASSUME FramesTyped, NEW p \in Peer, NEW kinds, Receives(p, kinds),
         conn' \in [Peer -> ConnStates]
  PROVE  FramesTyped'
<1>1. Tail(wire[p]) \in Seq(StreamFrame \cup {GoAway})
  BY ReceivedFrame DEF Receives
<1> QED
  BY <1>1 DEF FramesTyped, Receives

LEMMA OnDataTyping ==
  ASSUME Typing, NEW p \in Peer, OnData(p)
  PROVE  Typing'
<1> USE DEF Typing
<1> DEFINE f == Head(wire[p])
           o == Addressee(p, f.id)
           s == Admitted(p, f.id)
<1>0. f \in StreamFrame /\ f.id \in Id /\ f.len \in Nat
  BY ReceivedFrame DEF OnData, Receives, StreamFrame
<1>1. FramesTyped'
  <2>1. conn' \in [Peer -> ConnStates]
    BY DEF OnData, Terminate, FramesTyped, ConnStates
  <2> QED
    BY <2>1, ReceivesTyping DEF OnData
<1>2. o \in Obj
  BY <1>0, ImplicitIsObject DEF Addressee, RegistryTyped
<1>3. s \in Shared
  <2>1. /\ streams[p][f.id] # None => streams[p][f.id] \in Obj
        /\ inactive[p][f.id] # None => inactive[p][f.id] \in Obj
    BY <1>0 DEF RegistryTyped
  <2>2. /\ [NewShared EXCEPT !.activated = TRUE] \in Shared
        /\ inactive[p][f.id] # None =>
             [shared[inactive[p][f.id]] EXCEPT !.activated = TRUE] \in Shared
        /\ streams[p][f.id] # None => shared[streams[p][f.id]] \in Shared
    BY <2>1, SharedType, NewSharedType
  <2> QED
    BY <2>2 DEF Admitted
<1>4. f.len <= s.fc.receive_window => Deliver(s, f) \in Shared
  <2> HIDE DEF s, f
  <2> SUFFICES ASSUME f.len <= s.fc.receive_window PROVE Deliver(s, f) \in Shared
    OBVIOUS
  <2> DEFINE c == Flow!ConsumeReceive(s.fc, f.len)
             n == s.buffer + f.len
             x == IF f.kind = "fin" THEN UpdateState(s.state, "RecvClosed") ELSE s.state
  <2>1. c \in Flow!Controller /\ n \in Nat
    BY <1>0, <1>3, ControllerSteps DEF Shared
  <2>2. x \in {"Open", "SendClosed", "RecvClosed", "Closed"}
    BY <1>3, UpdateStateType DEF Shared
  <2>3. Deliver(s, f) =
          [[[[s EXCEPT !.fc = c] EXCEPT !.buffer = n] EXCEPT !.state = x] EXCEPT !.reader = None]
    <3>1. s = [state |-> s.state, fc |-> s.fc, buffer |-> s.buffer, activated |-> s.activated,
               syn_pending |-> s.syn_pending, claimed |-> s.claimed,
               reader |-> s.reader, writer |-> s.writer]
      BY <1>3 DEF Shared
    <3>2. Deliver(s, f) = [s EXCEPT !.fc = c, !.buffer = n, !.state = x, !.reader = None]
      BY DEF Deliver
    <3> HIDE DEF c, n, x
    <3> QED
      BY <3>1, <3>2
  <2> HIDE DEF c, n, x
  <2>4. [s EXCEPT !.fc = c] \in Shared
    BY <1>3, <2>1, SharedType
  <2>5. [[s EXCEPT !.fc = c] EXCEPT !.buffer = n] \in Shared
    BY <2>1, <2>4, SharedType
  <2>6. [[[s EXCEPT !.fc = c] EXCEPT !.buffer = n] EXCEPT !.state = x] \in Shared
    BY <2>2, <2>5, SharedType
  <2>7. \A r \in Shared : [r EXCEPT !.reader = None] \in Shared
    BY SharedType
  <2> QED
    BY <2>3, <2>6, <2>7
<1>5. s.fc.receive_window \in Nat
  BY <1>3 DEF Shared, Flow!Controller
<1> HIDE DEF o, s, f
<1>6. RegistryTyped'
  <2>1. /\ streams' = streams \/ streams' = [streams EXCEPT ![p][f.id] = o]
        /\ inactive' = inactive \/ inactive' = [inactive EXCEPT ![p][f.id] = None]
        /\ owed_close' = owed_close /\ slot_wakers' = slot_wakers
    BY DEF OnData, Receives, o, f
  <2>2. streams' \in [Peer -> [Id -> Obj \cup {None}]]
    <3>1. o \in Obj \cup {None}
      BY <1>2
    <3>2. [streams EXCEPT ![p][f.id] = o] \in [Peer -> [Id -> Obj \cup {None}]]
      BY <3>1, Update2Type DEF RegistryTyped
    <3> QED
      BY <2>1, <3>2 DEF RegistryTyped
  <2>3. inactive' \in [Peer -> [Id -> Obj \cup {None}]]
    <3>1. [inactive EXCEPT ![p][f.id] = None] \in [Peer -> [Id -> Obj \cup {None}]]
      BY Update2Type DEF RegistryTyped
    <3> QED
      BY <2>1, <3>1 DEF RegistryTyped
  <2> QED
    BY <2>1, <2>2, <2>3 DEF RegistryTyped
<1>7. shared' \in [Obj -> Shared]
  <2>1. shared' = shared \/ shared' = [shared EXCEPT ![o] =
           IF f.len > s.fc.receive_window THEN s ELSE Deliver(s, f)]
    BY DEF OnData, o, s, f
  <2> QED
    BY <1>0, <1>2, <1>3, <1>4, <1>5, <2>1
<1>8. HandlesTyped' /\ LiveHasShared'
  <2>1. rd' = rd \/ rd' = Awake(rd, {s.reader})
    BY DEF OnData, s, f
  <2>2. rd' \in [Handle -> RdStates]
    BY <2>1, AwakeType DEF HandlesTyped
  <2> QED
    BY <2>2 DEF OnData, Receives, HandlesTyped, LiveHasShared
<1> QED
  BY <1>1, <1>6, <1>7, <1>8

LEMMA OnResetTyping ==
  ASSUME Typing, NEW p \in Peer, OnReset(p)
  PROVE  Typing'
<1> USE DEF Typing
<1> DEFINE o == streams[p][Head(wire[p]).id]
<1>0. Head(wire[p]).id \in Id
  BY Zenon, ReceivedFrame DEF OnReset, Receives, StreamFrame
<1>1. FramesTyped'
  BY Zenon, ReceivesTyping DEF OnReset, FramesTyped
<1>2. shared' \in [Obj -> Shared]
  <2>1. CASE o # None
    <3>1. o \in Obj
      BY <1>0, <2>1 DEF RegistryTyped
    <3>2. shared' = [shared EXCEPT ![o] =
            [[[shared[o] EXCEPT !.state = "Closed"] EXCEPT !.reader = None] EXCEPT !.writer = None]]
      BY Zenon, <2>1 DEF OnReset
    <3> QED
      BY <3>1, <3>2, SharedType
  <2> QED
    BY Zenon, <2>1 DEF OnReset
<1>3. HandlesTyped' /\ LiveHasShared'
  <2>1. /\ rd' = rd \/ rd' = Awake(rd, {shared[o].reader})
        /\ wr' = wr \/ wr' = Awake(wr, {shared[o].writer})
        /\ UNCHANGED <<task, object, sender_task, written, taken>>
    BY Zenon DEF OnReset, Receives
  <2>2. rd' \in [Handle -> RdStates] /\ wr' \in [Handle -> WrStates]
    <3>1. rd \in [Handle -> RdStates] /\ wr \in [Handle -> WrStates]
      BY DEF HandlesTyped
    <3>2. \A hs : Awake(rd, hs) \in [Handle -> RdStates] /\ Awake(wr, hs) \in [Handle -> WrStates]
      BY Zenon, <3>1, AwakeType
    <3> QED
      BY <2>1, <3>1, <3>2
  <2> QED
    BY <2>1, <2>2 DEF HandlesTyped, LiveHasShared
<1> QED
  BY Zenon, <1>1, <1>2, <1>3 DEF OnReset, Receives, RegistryTyped

LEMMA OnWindowUpdateTyping ==
  ASSUME Typing, NEW p \in Peer, OnWindowUpdate(p)
  PROVE  Typing'
<1> USE DEF Typing
<1> DEFINE f == Head(wire[p])
           o == streams[p][f.id]
<1>0. f.id \in Id /\ f.len \in Nat
  BY Zenon, ReceivedFrame DEF OnWindowUpdate, Receives, StreamFrame
<1>1. FramesTyped'
  BY Zenon, ReceivesTyping DEF OnWindowUpdate, FramesTyped
<1>2. shared' \in [Obj -> Shared]
  <2>1. CASE o # None
    <3> DEFINE c == Flow!IncreaseSend(shared[o].fc, f.len)
    <3>1. o \in Obj
      BY <1>0, <2>1 DEF RegistryTyped
    <3>2. shared' = [shared EXCEPT ![o] = [[shared[o] EXCEPT !.fc = c] EXCEPT !.writer = None]]
      BY Zenon, <2>1 DEF OnWindowUpdate
    <3>3. c \in Flow!Controller
      BY <1>0, <3>1, ControllerSteps DEF Shared
    <3> HIDE DEF c
    <3> QED
      BY <3>1, <3>2, <3>3, SharedType
  <2> QED
    BY Zenon, <2>1 DEF OnWindowUpdate
<1>3. HandlesTyped' /\ LiveHasShared'
  <2>1. /\ wr' = wr \/ wr' = Awake(wr, {shared[o].writer})
        /\ UNCHANGED <<task, object, sender_task, rd, written, taken>>
    BY Zenon DEF OnWindowUpdate, Receives
  <2>2. rd' \in [Handle -> RdStates] /\ wr' \in [Handle -> WrStates]
    <3>1. rd \in [Handle -> RdStates] /\ wr \in [Handle -> WrStates]
      BY DEF HandlesTyped
    <3>2. \A hs : Awake(rd, hs) \in [Handle -> RdStates] /\ Awake(wr, hs) \in [Handle -> WrStates]
      BY Zenon, <3>1, AwakeType
    <3> QED
      BY <2>1, <3>1, <3>2
  <2> QED
    BY <2>1, <2>2 DEF HandlesTyped, LiveHasShared
<1> QED
  BY Zenon, <1>1, <1>2, <1>3 DEF OnWindowUpdate, Receives, RegistryTyped

LEMMA PollFlushTyping ==
  ASSUME Typing, NEW h \in Handle, PollFlush(h)
  PROVE  Typing'
<1> USE DEF Typing
<1>1. RegistryTyped'
  BY DEF PollFlush, RegistryTyped, registry
<1>2. HandlesTyped'
  BY DEF PollFlush, HandlesTyped, WrStates
<1>3. FramesTyped'
  BY DEF PollFlush, FramesTyped, ConnStates, driver
<1>4. LiveHasShared'
  BY DEF PollFlush, LiveHasShared
<1>5. shared' \in [Obj -> Shared]
  BY DEF PollFlush
<1> QED
  BY <1>1, <1>2, <1>3, <1>4, <1>5

LEMMA CloseInactiveTyping ==
  ASSUME Typing, NEW h \in Handle, CloseInactive(h)
  PROVE  Typing'
<1> USE DEF Typing
<1>1. RegistryTyped'
  BY DEF CloseInactive, RegistryTyped, registry
<1>2. HandlesTyped'
  BY DEF CloseInactive, HandlesTyped, TaskStates, handles
<1>3. FramesTyped'
  BY DEF CloseInactive, FramesTyped, ConnStates, driver
<1>4. LiveHasShared'
  BY DEF CloseInactive, LiveHasShared, HandlesTyped
<1>5. shared' \in [Obj -> Shared]
  BY UpdateStateType
     DEF CloseInactive, Shared, HandlesTyped, LiveHasShared
<1> QED
  BY <1>1, <1>2, <1>3, <1>4, <1>5

LEMMA SendCloseTyping ==
  ASSUME Typing, NEW h \in Handle, SendClose(h)
  PROVE  Typing'
<1> USE DEF Typing
<1>1. RegistryTyped'
  BY DEF SendClose, RegistryTyped, registry
<1>2. HandlesTyped'
  BY DEF SendClose, HandlesTyped, TaskStates, handles
<1>3. FramesTyped'
  BY MuxAssumption, FrameTypes
     DEF SendClose, FramesTyped, ConnStates, driver
<1>4. LiveHasShared'
  BY DEF SendClose, LiveHasShared, HandlesTyped
<1>5. shared' \in [Obj -> Shared]
  BY DEF SendClose
<1> QED
  BY <1>1, <1>2, <1>3, <1>4, <1>5

LEMMA FinishCloseTyping ==
  ASSUME Typing, NEW h \in Handle, FinishClose(h)
  PROVE  Typing'
<1> USE DEF Typing
<1>1. RegistryTyped'
  BY DEF FinishClose, RegistryTyped, registry
<1>2. HandlesTyped'
  BY DEF FinishClose, HandlesTyped, TaskStates, handles
<1>3. FramesTyped'
  BY DEF FinishClose, FramesTyped, ConnStates, driver
<1>4. LiveHasShared'
  BY DEF FinishClose, LiveHasShared, HandlesTyped
<1>5. shared' \in [Obj -> Shared]
  BY UpdateStateType
     DEF FinishClose, Shared, HandlesTyped, LiveHasShared
<1> QED
  BY <1>1, <1>2, <1>3, <1>4, <1>5

LEMMA DropSharedTyping ==
  ASSUME Typing, NEW h \in Handle, DropShared(h)
  PROVE  Typing'
<1> USE DEF Typing
<1>1. RegistryTyped'
  BY DEF DropShared, RegistryTyped, registry
<1>2. HandlesTyped'
  BY DEF DropShared, HandlesTyped, TaskStates, handles, RdStates, WrStates
<1>3. FramesTyped'
  BY DEF DropShared, FramesTyped, ConnStates, driver
<1>4. LiveHasShared'
  BY DEF DropShared, LiveHasShared, HandlesTyped
<1>5. shared' \in [Obj -> Shared]
  BY DEF DropShared
<1> QED
  BY <1>1, <1>2, <1>3, <1>4, <1>5

LEMMA DropSenderTyping ==
  ASSUME Typing, NEW h \in Handle, DropSender(h)
  PROVE  Typing'
<1> USE DEF Typing
<1>1. RegistryTyped'
  BY DEF DropSender, RegistryTyped, registry
<1>2. HandlesTyped'
  BY DEF DropSender, HandlesTyped, TaskStates, handles
<1>3. FramesTyped'
  BY DEF DropSender, FramesTyped, ConnStates, driver
<1>4. LiveHasShared'
  BY DEF DropSender, LiveHasShared, HandlesTyped
<1>5. shared' \in [Obj -> Shared]
  BY DEF DropSender
<1> QED
  BY <1>1, <1>2, <1>3, <1>4, <1>5

LEMMA PollStreamTyping ==
  ASSUME Typing, NEW h \in Handle, PollStream(h)
  PROVE  Typing'
<1> USE DEF Typing
<1>1. RegistryTyped'
  BY DEF PollStream, WakeForRoom, RegistryTyped, registry
<1>2. HandlesTyped'
  BY AwakeType
     DEF PollStream, WakeForRoom, HandlesTyped, TaskStates, handles
<1>3. FramesTyped'
  BY MuxAssumption
     DEF PollStream, WakeForRoom, FramesTyped, ConnStates, driver
<1>4. LiveHasShared'
  BY DEF PollStream, WakeForRoom, LiveHasShared, HandlesTyped
<1>5. shared' \in [Obj -> Shared]
  BY DEF PollStream, WakeForRoom
<1> QED
  BY <1>1, <1>2, <1>3, <1>4, <1>5

LEMMA IgnoreFrameTyping ==
  ASSUME Typing, NEW p \in Peer, IgnoreFrame(p)
  PROVE  Typing'
<1> USE DEF Typing
<1>1. RegistryTyped'
  BY DEF IgnoreFrame, Receives, RegistryTyped, registry
<1>2. HandlesTyped'
  BY DEF IgnoreFrame, Receives, HandlesTyped, TaskStates, handles
<1>3. FramesTyped'
  BY ReceivedFrame
     DEF IgnoreFrame, Receives, FramesTyped, ConnStates, driver
<1>4. LiveHasShared'
  BY DEF IgnoreFrame, Receives, LiveHasShared, HandlesTyped
<1>5. shared' \in [Obj -> Shared]
  BY DEF IgnoreFrame, Receives
<1> QED
  BY <1>1, <1>2, <1>3, <1>4, <1>5

LEMMA CloseReceiversTyping ==
  ASSUME Typing, NEW p \in Peer, CloseReceivers(p)
  PROVE  Typing'
<1> USE DEF Typing
<1>1. RegistryTyped'
  BY DEF CloseReceivers, WakeForRoom, RegistryTyped, registry
<1>2. HandlesTyped'
  BY AwakeType
     DEF CloseReceivers, WakeForRoom, HandlesTyped, TaskStates, handles
<1>3. FramesTyped'
  BY DEF CloseReceivers, WakeForRoom, FramesTyped, ConnStates, driver
<1>4. LiveHasShared'
  BY DEF CloseReceivers, WakeForRoom, LiveHasShared, HandlesTyped
<1>5. shared' \in [Obj -> Shared]
  BY DEF CloseReceivers, WakeForRoom
<1> QED
  BY <1>1, <1>2, <1>3, <1>4, <1>5

LEMMA DropAllStreamsTyping ==
  ASSUME Typing, NEW p \in Peer, DropAllStreams(p)
  PROVE  Typing'
<1> USE DEF Typing
<1>1. RegistryTyped'
  BY DEF DropAllStreams, RegistryTyped, registry
<1>2. HandlesTyped'
  BY AwakeType
     DEF DropAllStreams, HandlesTyped, TaskStates, handles
<1>3. FramesTyped'
  BY DEF DropAllStreams, FramesTyped, ConnStates, driver
<1>4. LiveHasShared'
  BY DEF DropAllStreams, LiveHasShared, HandlesTyped
<1>5. shared' \in [Obj -> Shared]
  <2> DEFINE closed(s) == [[[s EXCEPT !.state = "Closed"] EXCEPT !.reader = None]
                                                          EXCEPT !.writer = None]
  <2>1. \A s \in Shared : closed(s) \in Shared
    BY SharedType
  <2>2. shared' = [o \in Obj |-> IF o \in Drained(p) THEN closed(shared[o]) ELSE shared[o]]
    BY Zenon DEF DropAllStreams
  <2> HIDE DEF closed
  <2> QED
    BY <2>1, <2>2
<1> QED
  BY <1>1, <1>2, <1>3, <1>4, <1>5

-----------------------------------------------------------------------------
(* Typing is inductive. *)
LEMMA InitTyping == Init => Typing
<1> SUFFICES ASSUME Init PROVE Typing
  OBVIOUS
<1> USE DEF Init
<1>1. RegistryTyped /\ HandlesTyped /\ FramesTyped /\ LiveHasShared
  BY DEF RegistryTyped, HandlesTyped, FramesTyped, LiveHasShared,
         TaskStates, RdStates, WrStates, ConnStates
<1>2. shared \in [Obj -> Shared]
  BY NewSharedType
<1> QED
  BY <1>1, <1>2 DEF Typing

LEMMA StutterTyping == Typing /\ UNCHANGED vars => Typing'
BY DEF Typing, RegistryTyped, HandlesTyped, FramesTyped, LiveHasShared,
       vars, registry, handles, driver

LEMMA NextTyping == Typing /\ [Next]_vars => Typing'
<1> SUFFICES ASSUME Typing, [Next]_vars PROVE Typing'
  OBVIOUS
<1>1. ASSUME NEW p \in Peer, Driver(p) PROVE Typing'
  <2>1. CASE OnGoAway(p) \/ SocketClosed(p) \/ Fail(p)
    BY <2>1, CloseReceiversTyping DEF OnGoAway, SocketClosed, Fail
  <2> QED
    BY <1>1, <2>1, SendGoAwayTyping, SendPendingTyping, TakeOwedTyping, IgnoreFrameTyping,
       OnDataTyping, OnResetTyping, OnWindowUpdateTyping, DropAllStreamsTyping DEF Driver
<1>2. ASSUME NEW h \in Handle,
             \/ NewStream(h) \/ PollActivate(h) \/ PollWrite(h) \/ PollRead(h)
             \/ PollFlush(h) \/ CloseInactive(h) \/ SendClose(h) \/ FinishClose(h)
             \/ DropShared(h) \/ DropSender(h) \/ PollStream(h) \/ ReapStream(h)
      PROVE  Typing'
  BY <1>2, NewStreamTyping, PollActivateTyping, PollWriteTyping, PollReadTyping,
     PollFlushTyping, CloseInactiveTyping, SendCloseTyping, FinishCloseTyping, DropSharedTyping,
     DropSenderTyping, PollStreamTyping, ReapStreamTyping
<1> QED
  BY <1>1, <1>2, StutterTyping DEF Next

LEMMA TypingInvariant == Spec => []Typing
BY InitTyping, NextTyping, PTL DEF Spec

(* Every value the connection computes keeps to its type: no window and no  *)
(* buffer goes below zero, a live handle always has a Shared to lock, and   *)
(* every frame is one of the five kinds (connection/active.rs, stream.rs).  *)
THEOREM SpecTypeOK == Spec => []TypeOK
<1>1. StreamFrame \subseteq FrameType /\ GoAway \in FrameType
  BY DEF StreamFrame, FrameType, GoAway, Frame
<1>2. Typing => TypeOK
  <2> SUFFICES ASSUME Typing PROVE TypeOK
    OBVIOUS
  <2>1. /\ owed_close \in [Peer -> [Id -> FrameType \cup {None}]]
        /\ pending_write_frame \in [Peer -> FrameType \cup {None}]
    BY <1>1 DEF Typing, RegistryTyped, FramesTyped
  <2>2. channel \in [Handle -> Seq(FrameType)]
    BY <1>1 DEF Typing, FramesTyped
  <2>3. wire \in [Peer -> Seq(FrameType)]
    BY <1>1 DEF Typing, FramesTyped
  <2> QED
    BY <2>1, <2>2, <2>3
       DEF Typing, TypeOK, RegistryTyped, HandlesTyped, FramesTyped,
           TaskStates, RdStates, WrStates, ConnStates
<1> QED
  BY <1>2, TypingInvariant, PTL

-----------------------------------------------------------------------------
(* Slots.  Only ClaimSlot and OnData put an entry into streams, each after  *)
(* a count that leaves room for one; only ReapStream owes a close, and only *)
(* when none is owed.                                                       *)
LEMMA HeldFinite ==
  \A p \in Peer : /\ IsFiniteSet(Held(p)) /\ Cardinality(Held(p)) \in Nat
                  /\ IsFiniteSet(Owed(p)) /\ Cardinality(Owed(p)) \in Nat
BY MuxAssumption, FS_Subset, FS_CardinalityType DEF Held, Owed

(* Sets of ids bounded by others, with an element more. *)
LEMMA OneMore ==
  ASSUME NEW S, NEW T, NEW x, NEW n \in Nat, IsFiniteSet(T), S \subseteq T \cup {x},
         Cardinality(T) < n
  PROVE  Cardinality(S) <= n
<1>0. Cardinality(T) \in Nat
  BY FS_CardinalityType
<1>1. IsFiniteSet(T \cup {x}) /\ Cardinality(T \cup {x}) <= n
  <2>1. Cardinality(T \cup {x}) = IF x \in T THEN Cardinality(T) ELSE Cardinality(T) + 1
    BY FS_AddElement
  <2> QED
    BY <1>0, <2>1, FS_AddElement
<1>2. Cardinality(S) <= Cardinality(T \cup {x}) /\ IsFiniteSet(S)
  BY <1>1, FS_Subset
<1> QED
  BY <1>1, <1>2, FS_CardinalityType

LEMMA NoMore ==
  ASSUME NEW S, NEW T, NEW n \in Nat, IsFiniteSet(T), S \subseteq T, Cardinality(T) <= n
  PROVE  Cardinality(S) <= n
<1>1. Cardinality(S) <= Cardinality(T) /\ IsFiniteSet(S)
  BY FS_Subset
<1> QED
  BY <1>1, FS_CardinalityType

(* What each action does to the set of ids that hold a slot. *)
NoNewHeld == \A p \in Peer : Held(p)' \subseteq Held(p)
NoNewOwed == \A p \in Peer : Owed(p)' \subseteq Owed(p)

OneNewHeld(p) ==
  /\ Cardinality(Held(p)) < max_num_streams[p]
  /\ \E i \in Id : Held(p)' \subseteq Held(p) \cup {i}
  /\ \A q \in Peer \ {p} : Held(q)' \subseteq Held(q)

OneNewOwed(p) ==
  /\ Owed(p) = {}
  /\ \E i \in Id : Owed(p)' \subseteq {i}
  /\ \A q \in Peer \ {p} : Owed(q)' \subseteq Owed(q)

LEMMA HeldSteps ==
  ASSUME Typing, [Next]_vars
  PROVE  NoNewHeld \/ \E p \in Peer : OneNewHeld(p)
<1> USE DEF Typing, RegistryTyped
<1>1. ASSUME streams' = streams PROVE NoNewHeld
  BY <1>1 DEF NoNewHeld, Held
<1>2. ASSUME NEW h \in Handle, PollActivate(h), ClaimSlot(h), SlotFree(h.peer)
      PROVE  OneNewHeld(h.peer)
  <2>0. h.peer \in Peer /\ h.id \in Id
    BY HandlesAreObjects
  <2>1. Cardinality(Held(h.peer)) < max_num_streams[h.peer]
    BY <1>2, <2>0, HeldFinite, MuxAssumption DEF SlotFree, ActiveSlots
  <2>2. \A q \in Peer : Held(q)' \subseteq IF q = h.peer THEN Held(q) \cup {h.id} ELSE Held(q)
    BY <1>2, <2>0 DEF ClaimSlot, Held
  <2> QED
    BY <2>0, <2>1, <2>2 DEF OneNewHeld
<1>3. ASSUME NEW h \in Handle, Release(h.peer, h.id)
      PROVE  NoNewHeld
  BY <1>3, HandlesAreObjects DEF Release, NoNewHeld, Held
<1>4. ASSUME NEW p \in Peer, OnData(p)
      PROVE  NoNewHeld \/ OneNewHeld(p)
  <2> DEFINE f == Head(wire[p])
  <2>0. f.id \in Id
    BY <1>4, ReceivedFrame DEF OnData, Receives, StreamFrame
  <2>1. CASE streams[p][f.id] # None
    <3>1. streams' = streams
      <4>1. Admits(p, f) /\ Addressee(p, f.id) = streams[p][f.id]
        BY <2>1 DEF Admits, Addressee
      <4>2. streams' = [streams EXCEPT ![p][f.id] = Addressee(p, f.id)]
        BY Zenon, <1>4, <4>1 DEF OnData
      <4> HIDE DEF f
      <4> QED
        BY <2>0, <4>1, <4>2 DEF Typing, RegistryTyped
    <3> QED
      BY <1>1, <3>1
  <2>2. CASE streams[p][f.id] = None /\ ~Admits(p, f)
    BY <1>1, <1>4, <2>2 DEF OnData
  <2>3. CASE streams[p][f.id] = None /\ Admits(p, f)
    <3>1. Cardinality(Held(p)) < max_num_streams[p]
      BY <2>3 DEF Admits
    <3>2. streams' = [streams EXCEPT ![p][f.id] = Addressee(p, f.id)]
      BY <1>4, <2>3 DEF OnData
    <3>3. \A q \in Peer : Held(q)' \subseteq IF q = p THEN Held(q) \cup {f.id} ELSE Held(q)
      BY <2>0, <3>2 DEF Held
    <3> QED
      BY <2>0, <3>1, <3>3 DEF OneNewHeld
  <2> QED
    BY <2>1, <2>2, <2>3
<1>5. ASSUME NEW p \in Peer, DropAllStreams(p)
      PROVE  NoNewHeld
  BY <1>5 DEF DropAllStreams, NoNewHeld, Held
<1>6. ASSUME NEW p \in Peer, Driver(p)
      PROVE  NoNewHeld \/ OneNewHeld(p)
  <2>1. CASE OnGoAway(p) \/ SocketClosed(p) \/ Fail(p)
    BY <1>1, <2>1 DEF OnGoAway, SocketClosed, Fail, CloseReceivers, registry
  <2>2. CASE SendGoAway(p) \/ SendPending(p) \/ TakeOwed(p)
    BY <1>1, <2>2 DEF SendGoAway, SendPending, TakeOwed, registry
  <2>3. CASE IgnoreFrame(p) \/ OnReset(p) \/ OnWindowUpdate(p)
    <3>1. streams' = streams
      <4>1. IgnoreFrame(p) => streams' = streams
        BY Zenon DEF IgnoreFrame
      <4>2. OnReset(p) => streams' = streams
        BY Zenon DEF OnReset
      <4>3. OnWindowUpdate(p) => streams' = streams
        BY Zenon DEF OnWindowUpdate
      <4> QED
        BY <2>3, <4>1, <4>2, <4>3
    <3> QED
      BY <1>1, <3>1
  <2> QED
    BY <1>4, <1>5, <1>6, <2>1, <2>2, <2>3 DEF Driver
<1>7. ASSUME NEW h \in Handle, PollActivate(h)
      PROVE  NoNewHeld \/ OneNewHeld(h.peer)
  BY <1>1, <1>2, <1>7 DEF PollActivate, Adopt, AwaitSlot, Proceed
<1>8. ASSUME NEW h \in Handle, ReapStream(h)
      PROVE  NoNewHeld
  BY <1>1, <1>3, <1>8 DEF ReapStream, Forget, registry
<1>9. ASSUME NEW h \in Handle,
             \/ NewStream(h) \/ PollWrite(h) \/ PollRead(h) \/ PollFlush(h)
             \/ CloseInactive(h) \/ SendClose(h) \/ FinishClose(h) \/ DropShared(h) \/ DropSender(h)
             \/ PollStream(h)
      PROVE  NoNewHeld
  BY Zenon, <1>1, <1>9 DEF NewStream, PollWrite, PollRead, PollFlush, CloseInactive, SendClose, FinishClose,
                    DropShared, DropSender, PollStream, registry
<1>10. CASE UNCHANGED vars
  BY <1>1, <1>10 DEF vars, registry
<1> QED
  BY <1>6, <1>7, <1>8, <1>9, <1>10, HandlesAreObjects DEF Next

LEMMA OwedSteps ==
  ASSUME Typing, [Next]_vars
  PROVE  NoNewOwed \/ \E p \in Peer : OneNewOwed(p)
<1> USE DEF Typing, RegistryTyped
<1>1. ASSUME owed_close' = owed_close PROVE NoNewOwed
  BY <1>1 DEF NoNewOwed, Owed
<1>2. ASSUME NEW p \in Peer, TakeOwed(p)
      PROVE  NoNewOwed
  BY <1>2 DEF TakeOwed, NoNewOwed, Owed
<1>3. ASSUME NEW h \in Handle, ReapStream(h)
      PROVE  NoNewOwed \/ OneNewOwed(h.peer)
  <2>0. h.peer \in Peer /\ h.id \in Id /\ Owed(h.peer) = {}
    BY <1>3, HandlesAreObjects DEF ReapStream
  <2>1. CASE Release(h.peer, h.id)
    <3>1. PICK v : owed_close' = [owed_close EXCEPT ![h.peer][h.id] = v]
      BY <2>1 DEF Release
    <3>2. \A q \in Peer : Owed(q)' \subseteq IF q = h.peer THEN {h.id} ELSE Owed(q)
      BY <2>0, <3>1 DEF Owed
    <3> QED
      BY <2>0, <3>2 DEF OneNewOwed
  <2> QED
    BY <1>1, <1>3, <2>1 DEF ReapStream, Forget, registry
<1>4. ASSUME NEW p \in Peer, Driver(p)
      PROVE  NoNewOwed
  <2>1. CASE OnGoAway(p) \/ SocketClosed(p) \/ Fail(p)
    BY <1>1, <2>1 DEF OnGoAway, SocketClosed, Fail, CloseReceivers, registry
  <2>2. CASE SendGoAway(p) \/ SendPending(p)
    BY <1>1, <2>2 DEF SendGoAway, SendPending, registry
  <2>3. CASE IgnoreFrame(p) \/ OnData(p) \/ OnReset(p) \/ OnWindowUpdate(p)
    BY Zenon, <1>1, <2>3 DEF IgnoreFrame, OnData, OnReset, OnWindowUpdate, Receives
  <2>4. CASE DropAllStreams(p)
    BY <1>1, <2>4 DEF DropAllStreams
  <2> QED
    BY <1>2, <1>4, <2>1, <2>2, <2>3, <2>4 DEF Driver
<1>5. ASSUME NEW h \in Handle,
             \/ NewStream(h) \/ PollActivate(h) \/ PollWrite(h) \/ PollRead(h)
             \/ PollFlush(h) \/ CloseInactive(h) \/ SendClose(h) \/ FinishClose(h)
             \/ DropShared(h) \/ DropSender(h) \/ PollStream(h)
      PROVE  NoNewOwed
  BY Zenon, <1>1, <1>5 DEF NewStream, PollActivate, PollWrite, PollRead, PollFlush, CloseInactive, SendClose,
                    FinishClose, DropShared, DropSender, PollStream, registry
<1>6. CASE UNCHANGED vars
  BY <1>1, <1>6 DEF vars, registry
<1> QED
  BY <1>3, <1>4, <1>5, <1>6, HandlesAreObjects DEF Next

(* The peer makes us keep at most max_num_streams streams, and at most one  *)
(* close is owed on top (StreamRegistry::streams and owed_close).           *)
THEOREM SpecSlotBound == Spec => []SlotBound
<1>1. Init => SlotBound
  <2> SUFFICES ASSUME Init, NEW p \in Peer
               PROVE  Cardinality(Held(p)) <= max_num_streams[p] /\ Cardinality(Owed(p)) <= 1
    BY DEF SlotBound
  <2>1. Held(p) = {} /\ Owed(p) = {}
    BY DEF Init, Held, Owed
  <2> QED
    BY <2>1, FS_EmptySet, MuxAssumption
<1>2. Typing /\ SlotBound /\ [Next]_vars => SlotBound'
  <2> SUFFICES ASSUME Typing, SlotBound, [Next]_vars, NEW p \in Peer
               PROVE  /\ Cardinality(Held(p)') <= max_num_streams[p]
                      /\ Cardinality(Owed(p)') <= 1
    BY DEF SlotBound
  <2>0. max_num_streams[p] \in Nat /\ 1 \in Nat
    BY MuxAssumption
  <2>1. Cardinality(Held(p)') <= max_num_streams[p]
    <3>1. CASE Held(p)' \subseteq Held(p)
      BY <2>0, <3>1, HeldFinite, NoMore DEF SlotBound
    <3>2. CASE OneNewHeld(p)
      BY <2>0, <3>2, HeldFinite, OneMore DEF OneNewHeld
    <3> QED
      BY <3>1, <3>2, HeldSteps DEF NoNewHeld, OneNewHeld
  <2>2. Cardinality(Owed(p)') <= 1
    <3>1. CASE Owed(p)' \subseteq Owed(p)
      BY <2>0, <3>1, HeldFinite, NoMore DEF SlotBound
    <3>2. CASE OneNewOwed(p)
      <4>1. Cardinality(Owed(p)) < 1 /\ \E i \in Id : Owed(p)' \subseteq Owed(p) \cup {i}
        BY <3>2, FS_EmptySet DEF OneNewOwed
      <4> QED
        BY <2>0, <4>1, HeldFinite, OneMore
    <3> QED
      BY <3>1, <3>2, OwedSteps DEF NoNewOwed, OneNewOwed
  <2> QED
    BY <2>1, <2>2
<1> QED
  BY <1>1, <1>2, TypingInvariant, PTL DEF Spec

-----------------------------------------------------------------------------
(* One Shared for each id.  A Shared is filed under its own peer and id,    *)
(* and one not created yet is filed nowhere: both are needed to see that    *)
(* changing `activated` of one Shared says nothing of another entry.        *)
Entries(o) ==
  \/ \E p \in Peer, i \in Id : o \in {streams[p][i], inactive[p][i]}
  \/ \E g \in Handle : object[g] = o

Owners ==
  /\ \A p \in Peer, i \in Id : \A o \in {streams[p][i], inactive[p][i]} :
       o # None => o.peer = p /\ o.id = i
  /\ \A h \in Handle : object[h] # None => object[h].peer = h.peer /\ object[h].id = h.id

Fresh == \A h \in Handle : task[h] = "new" => ~Entries(h)

Filed == RegistryConsistent /\ Owners /\ Fresh

(* What keeps the owners: an entry, or what a handle holds, is an old one   *)
(* of the same slot or an object of that slot.                              *)
LEMMA OwnersKept ==
  ASSUME Owners,
         \A q \in Peer, j \in Id : \A o \in {streams'[q][j], inactive'[q][j]} :
           \/ o = None \/ o \in {streams[q][j], inactive[q][j]}
           \/ o.peer = q /\ o.id = j,
         \A g \in Handle :
           \/ object'[g] \in {object[g], None}
           \/ object'[g].peer = g.peer /\ object'[g].id = g.id
  PROVE  Owners'
<1>1. ASSUME NEW q \in Peer, NEW j \in Id,
             NEW o \in {streams'[q][j], inactive'[q][j]}, o # None
      PROVE  o.peer = q /\ o.id = j
  BY <1>1 DEF Owners
<1>2. ASSUME NEW g \in Handle, object'[g] # None
      PROVE  object'[g].peer = g.peer /\ object'[g].id = g.id
  BY <1>2 DEF Owners
<1> QED
  BY <1>1, <1>2 DEF Owners

(* The object a frame is delivered to belongs to the slot of the frame.     *)
LEMMA AddresseeOf ==
  ASSUME RegistryTyped, Owners, NEW p \in Peer, NEW i \in Id
  PROVE  LET o == Addressee(p, i) IN o \in Obj /\ o # None /\ o.peer = p /\ o.id = i
<1>0. None \notin Obj /\ streams[p][i] \in Obj \cup {None} /\ inactive[p][i] \in Obj \cup {None}
  BY MuxAssumption DEF RegistryTyped
<1>1. CASE streams[p][i] # None
  BY <1>0, <1>1 DEF Addressee, Owners
<1>2. CASE streams[p][i] = None /\ inactive[p][i] # None
  BY <1>0, <1>2 DEF Addressee, Owners
<1>3. CASE streams[p][i] = None /\ inactive[p][i] = None
  <2>1. Addressee(p, i) = Implicit(p, i) /\ Implicit(p, i).peer = p /\ Implicit(p, i).id = i
    BY <1>3 DEF Addressee, Implicit
  <2> QED
    BY <1>0, <2>1, ImplicitIsObject
<1> QED
  BY <1>1, <1>2, <1>3

(* What keeps the registry while the maps stand: no flag moves, and a       *)
(* handle takes hold of an entry of its own slot only.                      *)
LEMMA RegistryKept ==
  ASSUME RegistryConsistent, UNCHANGED <<streams, inactive, conn>>,
         streams \in [Peer -> [Id -> Obj \cup {None}]],
         inactive \in [Peer -> [Id -> Obj \cup {None}]],
         \A o \in Obj : shared'[o].activated = shared[o].activated,
         \A g \in Handle :
           \/ object'[g] \in {object[g], None}
           \/ object'[g] \in {streams[g.peer][g.id], inactive[g.peer][g.id]}
  PROVE  RegistryConsistent'
<1>1. ASSUME NEW q \in Peer, NEW j \in Id
      PROVE  /\ streams'[q][j] = None \/ inactive'[q][j] = None
             /\ streams'[q][j] # None => shared'[streams'[q][j]].activated
             /\ inactive'[q][j] # None => ~shared'[inactive'[q][j]].activated
  <2>1. streams[q][j] \in Obj \cup {None} /\ inactive[q][j] \in Obj \cup {None}
    OBVIOUS
  <2> QED
    BY <2>1 DEF RegistryConsistent
<1>2. ASSUME NEW g \in Handle, object'[g] # None, conn'[g.peer] # "cleanup"
      PROVE  object'[g] \in {streams'[g.peer][g.id], inactive'[g.peer][g.id]}
  BY <1>2 DEF RegistryConsistent
<1> QED
  BY <1>1, <1>2 DEF RegistryConsistent

(* Most steps change neither map, activate nothing and only let handles go. *)
Undisturbed ==
  /\ UNCHANGED <<streams, inactive>>
  /\ \A o \in Obj : shared'[o].activated = shared[o].activated
  /\ \A h \in Handle : object'[h] \in {object[h], None}
  /\ \A h \in Handle : task'[h] = "new" => task[h] = "new"
  /\ \A p \in Peer : conn[p] = "cleanup" => conn'[p] = "cleanup"

LEMMA UndisturbedFiled ==
  ASSUME Typing, Filed, Undisturbed
  PROVE  Filed'
<1> USE DEF Filed, Undisturbed
<1>0. None \notin Handle /\ \A h \in Handle : h.peer \in Peer /\ h.id \in Id
  BY HandlesAreObjects, MuxAssumption
<1>1. RegistryConsistent'
  <2>1. \A p \in Peer, i \in Id :
          /\ streams[p][i] # None => streams[p][i] \in Obj
          /\ inactive[p][i] # None => inactive[p][i] \in Obj
    BY DEF Typing, RegistryTyped
  <2> QED
    BY <1>0, <2>1 DEF RegistryConsistent
<1>2. Owners'
  BY DEF Owners
<1>3. Fresh'
  BY <1>0 DEF Fresh, Entries
<1> QED
  BY <1>1, <1>2, <1>3

LEMMA HandleStepsUndisturbed ==
  ASSUME Typing, NEW h \in Handle,
         \/ PollWrite(h) \/ PollRead(h) \/ PollFlush(h) \/ CloseInactive(h)
         \/ SendClose(h) \/ FinishClose(h) \/ DropShared(h) \/ DropSender(h) \/ PollStream(h)
  PROVE  Undisturbed
<1> USE DEF Undisturbed
<1>0. /\ task[h] \in {"live", "closing", "half"} => object[h] \in Obj
      /\ \A o \in Obj : shared[o] \in Shared
      /\ shared \in [Obj -> Shared] /\ task \in [Handle -> TaskStates]
      /\ object \in [Handle -> Obj \cup {None}]
  BY DEF Typing, HandlesTyped, LiveHasShared
<1>1. CASE PollWrite(h)
  <2>1. \/ shared' = shared
        \/ shared' = [shared EXCEPT ![object[h]].writer = h]
        \/ shared' = [shared EXCEPT ![object[h]].fc = Flow!ConsumeSend(@, 1),
                                    ![object[h]].syn_pending = FALSE]
    BY <1>1 DEF PollWrite, FailWrite, AwaitRoom, AwaitCredit, SendData
  <2>2. \A o \in Obj : shared'[o].activated = shared[o].activated
    BY <1>0, <1>1, <2>1 DEF Shared, PollWrite
  <2> QED
    BY <1>1, <2>2 DEF PollWrite, registry, driver
<1>2. CASE PollRead(h)
  <2> DEFINE b == object[h]
             s == shared[b]
             fc == Flow!NextWindowUpdate(s.fc, s.buffer, 0, FALSE).fc
  <2>1. PICK g \in {s, [s EXCEPT !.fc = fc]} :
          \/ shared' = [shared EXCEPT ![b] = [g EXCEPT !.buffer = @ - 1]]
          \/ shared' = shared
          \/ shared' = [shared EXCEPT ![b] = [g EXCEPT !.reader = h]]
    BY <1>2 DEF PollRead
  <2> HIDE DEF fc
  <2>2. b \in Obj /\ s \in Shared
    BY <1>0, <1>2 DEF PollRead
  <2>3. g.activated = s.activated /\ DOMAIN g = DOMAIN s
    BY <2>1, <2>2 DEF Shared
  <2>4. /\ [g EXCEPT !.buffer = @ - 1].activated = s.activated
        /\ [g EXCEPT !.reader = h].activated = s.activated
    BY <2>2, <2>3 DEF Shared
  <2> HIDE DEF s
  <2>5. shared' = shared \/ \E r : shared' = [shared EXCEPT ![b] = r] /\ r.activated = s.activated
    BY <2>1, <2>4
  <2>6. \A o \in Obj : shared'[o].activated = shared[o].activated
    BY <1>0, <2>2, <2>5 DEF s
  <2> QED
    BY <1>2, <2>6 DEF PollRead, registry, driver
<1>3. CASE CloseInactive(h) \/ FinishClose(h)
  <2>1. shared' = [shared EXCEPT ![object[h]].state = UpdateState(@, "SendClosed")]
    BY <1>3 DEF CloseInactive, FinishClose
  <2>2. \A o \in Obj : shared'[o].activated = shared[o].activated
    BY <1>0, <1>3, <2>1 DEF Shared, CloseInactive, FinishClose
  <2> QED
    BY <1>0, <1>3, <2>2 DEF CloseInactive, FinishClose, registry, driver
<1>4. CASE PollFlush(h) \/ SendClose(h) \/ DropShared(h) \/ DropSender(h)
  BY <1>0, <1>4 DEF PollFlush, SendClose, DropShared, DropSender, registry, driver
<1>5. CASE PollStream(h)
  BY <1>5 DEF PollStream, WakeForRoom, registry
<1> QED
  BY <1>1, <1>2, <1>3, <1>4, <1>5

LEMMA DriverStepsUndisturbed ==
  ASSUME Typing, NEW p \in Peer,
         \/ SendGoAway(p) \/ SendPending(p) \/ TakeOwed(p) \/ IgnoreFrame(p)
         \/ OnReset(p) \/ OnWindowUpdate(p)
         \/ OnGoAway(p) \/ SocketClosed(p) \/ Fail(p)
  PROVE  Undisturbed
<1> USE DEF Undisturbed
<1>0. /\ \A o \in Obj : shared[o] \in Shared
      /\ shared \in [Obj -> Shared] /\ conn \in [Peer -> ConnStates]
  BY DEF Typing, FramesTyped
<1>1. CASE SendGoAway(p) \/ SendPending(p) \/ TakeOwed(p)
  BY <1>0, <1>1 DEF SendGoAway, SendPending, TakeOwed, registry, handles
<1>2. CASE IgnoreFrame(p)
  BY <1>2 DEF IgnoreFrame, Receives
<1>3. CASE OnReset(p) \/ OnWindowUpdate(p)
  <2> DEFINE o == streams[p][Head(wire[p]).id]
  <2>0. Head(wire[p]).id \in Id
    BY Zenon, <1>3, ReceivedFrame DEF OnReset, OnWindowUpdate, Receives, StreamFrame, Typing
  <2>1. o # None => o \in Obj
    BY <2>0 DEF Typing, RegistryTyped
  <2>2. o # None => shared[o] \in Shared
    BY <1>0, <2>1
  <2> DEFINE reset == [[[shared[o] EXCEPT !.state = "Closed"] EXCEPT !.reader = None]
                        EXCEPT !.writer = None]
             fc == Flow!IncreaseSend(shared[o].fc, Head(wire[p]).len)
             update == [[shared[o] EXCEPT !.fc = fc] EXCEPT !.writer = None]
  <2>3. \/ shared' = shared
        \/ o # None /\ shared' = [shared EXCEPT ![o] = reset]
        \/ o # None /\ shared' = [shared EXCEPT ![o] = update]
    <3> HIDE DEF fc
    <3> QED
      BY Zenon, <1>3 DEF OnReset, OnWindowUpdate, fc
  <2>4. o # None => reset.activated = shared[o].activated /\ update.activated = shared[o].activated
    <3> HIDE DEF fc
    <3> QED
      BY <2>2 DEF Shared
  <2> HIDE DEF reset, update
  <2>5. \A x \in Obj : shared'[x].activated = shared[x].activated
    BY <1>0, <2>1, <2>3, <2>4
  <2> QED
    BY Zenon, <1>3, <2>5 DEF OnReset, OnWindowUpdate, Receives
<1>4. CASE OnGoAway(p) \/ SocketClosed(p) \/ Fail(p)
  BY <1>0, <1>4 DEF OnGoAway, SocketClosed, Fail, CloseReceivers, Up, registry
<1> QED
  BY <1>1, <1>2, <1>3, <1>4

(* The actions that do change a map or an entry. *)
LEMMA NewStreamFiled ==
  ASSUME Typing, Filed, NEW h \in Handle, NewStream(h)
  PROVE  Filed'
<1> USE DEF Filed
<1> DEFINE p == h.peer
           i == h.id
           existing == IF streams[p][i] # None THEN streams[p][i] ELSE inactive[p][i]
<1>0. /\ p \in Peer /\ i \in Id /\ h \in Obj /\ None \notin Obj /\ ~Entries(h)
      /\ task[h] = "new" /\ task' = [task EXCEPT ![h] = "live"] /\ conn[p] # "cleanup"
      /\ streams' = streams /\ conn' = conn
  BY HandlesAreObjects, MuxAssumption DEF NewStream, Fresh, driver
<1>t. /\ streams \in [Peer -> [Id -> Obj \cup {None}]]
      /\ inactive \in [Peer -> [Id -> Obj \cup {None}]]
      /\ object \in [Handle -> Obj \cup {None}]
      /\ task \in [Handle -> TaskStates] /\ shared \in [Obj -> Shared]
  BY DEF Typing, RegistryTyped, HandlesTyped
<1>1. CASE existing # None
  <2>1. /\ object' = [object EXCEPT ![h] = existing] /\ inactive' = inactive
        /\ shared' = [shared EXCEPT ![existing].claimed = TRUE]
    BY <1>1 DEF NewStream
  <2>2. existing \in Obj /\ existing \in {streams[p][i], inactive[p][i]}
    BY <1>0, <1>1, <1>t
  <2> HIDE DEF existing
  <2>3. \A o \in Obj : shared'[o].activated = shared[o].activated
    BY <1>t, <2>1, <2>2 DEF Shared
  <2>o. /\ \A g \in Handle \ {h} : object'[g] = object[g]
        /\ object'[h] = existing /\ existing.peer = p /\ existing.id = i
    <3>1. existing # None
      BY <1>0, <2>2
    <3> QED
      BY <1>0, <1>t, <2>1, <2>2, <3>1 DEF Owners
  <2>g. \A g \in Handle :
          /\ \/ object'[g] \in {object[g], None}
             \/ object'[g].peer = g.peer /\ object'[g].id = g.id
          /\ \/ object'[g] \in {object[g], None}
             \/ object'[g] \in {streams[g.peer][g.id], inactive[g.peer][g.id]}
    BY <2>2, <2>o
  <2>4. RegistryConsistent'
    BY <1>0, <1>t, <2>1, <2>3, <2>g, RegistryKept
  <2>5. Owners'
    BY <1>0, <2>1, <2>g, OwnersKept
  <2>6. Fresh'
    BY <1>0, <1>t, <2>1, <2>2 DEF Fresh, Entries
  <2> QED
    BY <2>4, <2>5, <2>6
<1>2. CASE existing = None
  <2>1. /\ object' = [object EXCEPT ![h] = h] /\ inactive' = [inactive EXCEPT ![p][i] = h]
        /\ shared' = [shared EXCEPT ![h] = [NewShared EXCEPT !.claimed = TRUE]]
    BY <1>2 DEF NewStream
  <2>2. streams[p][i] = None /\ inactive[p][i] = None
    BY <1>2
  <2>3. /\ ~shared'[h].activated
        /\ \A o \in Obj \ {h} : shared'[o] = shared[o]
    BY <1>0, <1>t, <2>1, NewSharedType DEF NewShared
  <2>4. RegistryConsistent'
    <3>1. ASSUME NEW q \in Peer, NEW j \in Id
          PROVE  /\ streams'[q][j] = None \/ inactive'[q][j] = None
                 /\ streams'[q][j] # None => shared'[streams'[q][j]].activated
                 /\ inactive'[q][j] # None => ~shared'[inactive'[q][j]].activated
      BY <1>0, <1>t, <2>1, <2>2, <2>3 DEF RegistryConsistent, Entries
    <3>2. ASSUME NEW g \in Handle, object'[g] # None, conn'[g.peer] # "cleanup"
          PROVE  object'[g] \in {streams'[g.peer][g.id], inactive'[g.peer][g.id]}
      <4>0. g.peer \in Peer /\ g.id \in Id
        BY HandlesAreObjects
      <4>1. CASE g = h
        BY <1>0, <1>t, <2>1, <4>1
      <4>2. CASE g # h
        <5>1. object[g] # None /\ object[g] \in {streams[g.peer][g.id], inactive[g.peer][g.id]}
          BY <1>0, <1>t, <2>1, <3>2, <4>2 DEF RegistryConsistent
        <5> QED
          BY <1>0, <1>t, <2>1, <2>2, <4>0, <4>2, <5>1
      <4> QED
        BY <4>1, <4>2
    <3> QED
      BY <3>1, <3>2 DEF RegistryConsistent
  <2>5. Owners'
    BY <1>0, <1>t, <2>1 DEF Owners
  <2>6. Fresh'
    BY <1>0, <1>t, <2>1 DEF Fresh, Entries
  <2> QED
    BY <2>4, <2>5, <2>6
<1> QED
  BY <1>1, <1>2

LEMMA PollActivateFiled ==
  ASSUME Typing, Filed, NEW h \in Handle, PollActivate(h)
  PROVE  Filed'
<1> USE DEF Filed
<1> DEFINE p == h.peer
           i == h.id
           b == object[h]
<1>0. /\ p \in Peer /\ i \in Id /\ h \in Obj /\ None \notin Obj
      /\ task[h] = "live" /\ task' = task /\ conn' = conn
      /\ b \in Obj
  BY HandlesAreObjects, MuxAssumption DEF PollActivate, driver, Typing, HandlesTyped, LiveHasShared
<1>t. /\ streams \in [Peer -> [Id -> Obj \cup {None}]]
      /\ inactive \in [Peer -> [Id -> Obj \cup {None}]]
      /\ object \in [Handle -> Obj \cup {None}]
      /\ task \in [Handle -> TaskStates] /\ shared \in [Obj -> Shared]
  BY DEF Typing, RegistryTyped, HandlesTyped
<1>1. CASE Adopt(h) /\ streams[p][i] # None
  <2> DEFINE o == streams[p][i]
  <2>0. o \in Obj /\ inactive[p][i] = None
    BY <1>0, <1>1, <1>t DEF RegistryConsistent
  <2>1. /\ object' = [object EXCEPT ![h] = o] /\ streams' = streams
        /\ shared' = [shared EXCEPT ![o] = [[shared[o] EXCEPT !.activated = TRUE]
                                                        EXCEPT !.claimed = TRUE]]
    BY <1>1 DEF Adopt
  <2>2. inactive' = inactive
    <3>1. inactive' = [inactive EXCEPT ![p][i] = None]
      BY <1>1 DEF Adopt
    <3> QED
      BY <1>0, <1>t, <2>0, <3>1
  <2>3. shared[o].activated
    BY <1>0, <1>1 DEF RegistryConsistent
  <2>4. \A x \in Obj : shared'[x].activated = shared[x].activated
    BY <1>t, <2>0, <2>1, <2>3 DEF Shared
  <2>o. /\ \A g \in Handle \ {h} : object'[g] = object[g]
        /\ object'[h] = o /\ o.peer = p /\ o.id = i
    BY <1>0, <1>1, <1>t, <2>1 DEF Owners
  <2>g. \A g \in Handle :
          /\ \/ object'[g] \in {object[g], None}
             \/ object'[g].peer = g.peer /\ object'[g].id = g.id
          /\ \/ object'[g] \in {object[g], None}
             \/ object'[g] \in {streams[g.peer][g.id], inactive[g.peer][g.id]}
    BY <2>o
  <2>5. RegistryConsistent'
    BY <1>0, <1>t, <2>1, <2>2, <2>4, <2>g, RegistryKept
  <2>6. Owners'
    BY <1>0, <2>1, <2>2, <2>g, OwnersKept
  <2>7. Fresh'
    BY <1>0, <1>t, <2>1, <2>2 DEF Fresh, Entries
  <2> QED
    BY <2>5, <2>6, <2>7
<1>2. CASE ClaimSlot(h) /\ streams[p][i] = None
  <2>1. /\ streams' = [streams EXCEPT ![p][i] = b] /\ inactive' = [inactive EXCEPT ![p][i] = None]
        /\ shared' = [shared EXCEPT ![b] = [[shared[b] EXCEPT !.activated = TRUE]
                                                        EXCEPT !.syn_pending = TRUE]]
        /\ object' = object
    BY <1>2 DEF ClaimSlot
  <2>2. b.peer = p /\ b.id = i /\ b # None
    BY <1>0 DEF Owners
  <2>3. conn[p] # "cleanup" => b = inactive[p][i]
    BY <1>0, <1>2, <2>2 DEF RegistryConsistent
  <2>4. shared'[b].activated /\ \A x \in Obj \ {b} : shared'[x] = shared[x]
    BY <1>0, <1>t, <2>1 DEF Shared
  <2>5. RegistryConsistent'
    <3>1. ASSUME NEW q \in Peer, NEW j \in Id
          PROVE  /\ streams'[q][j] = None \/ inactive'[q][j] = None
                 /\ streams'[q][j] # None => shared'[streams'[q][j]].activated
                 /\ inactive'[q][j] # None => ~shared'[inactive'[q][j]].activated
      <4>1. CASE q = p /\ j = i
        BY <1>0, <1>t, <2>1, <2>4, <4>1
      <4>2. CASE q # p \/ j # i
        <5>1. streams'[q][j] = streams[q][j] /\ inactive'[q][j] = inactive[q][j]
          BY <1>0, <1>t, <2>1, <4>2
        <5>2. /\ streams[q][j] # None => streams[q][j] \in Obj \ {b}
              /\ inactive[q][j] # None => inactive[q][j] \in Obj \ {b}
          BY <1>t, <2>2, <4>2 DEF Owners
        <5> QED
          BY <2>4, <5>1, <5>2 DEF RegistryConsistent
      <4> QED
        BY <4>1, <4>2
    <3>2. ASSUME NEW g \in Handle, object'[g] # None, conn'[g.peer] # "cleanup"
          PROVE  object'[g] \in {streams'[g.peer][g.id], inactive'[g.peer][g.id]}
      <4>0. g.peer \in Peer /\ g.id \in Id /\ object[g] # None /\ conn[g.peer] # "cleanup"
        BY <1>0, <2>1, <3>2, HandlesAreObjects
      <4>1. object[g] \in {streams[g.peer][g.id], inactive[g.peer][g.id]}
        BY <4>0 DEF RegistryConsistent
      <4>2. CASE g.peer = p /\ g.id = i
        BY <1>0, <1>2, <1>t, <2>1, <2>3, <4>0, <4>1, <4>2
      <4>3. CASE g.peer # p \/ g.id # i
        BY <1>0, <1>t, <2>1, <4>0, <4>1, <4>3
      <4> QED
        BY <4>2, <4>3
    <3> QED
      BY <3>1, <3>2 DEF RegistryConsistent
  <2>6. Owners'
    <3>1. ASSUME NEW q \in Peer, NEW j \in Id
          PROVE  /\ \/ streams'[q][j] = streams[q][j]
                    \/ streams'[q][j].peer = q /\ streams'[q][j].id = j
                 /\ inactive'[q][j] \in {inactive[q][j], None}
      BY <1>0, <1>t, <2>1, <2>2
    <3>2. \A q \in Peer, j \in Id : \A x \in {streams'[q][j], inactive'[q][j]} :
            \/ x = None \/ x \in {streams[q][j], inactive[q][j]}
            \/ x.peer = q /\ x.id = j
      BY <3>1
    <3>3. \A g \in Handle : object'[g] = object[g]
      BY <1>0, <2>1
    <3> QED
      BY <1>0, <3>2, <3>3, OwnersKept
  <2>7. Fresh'
    <3> SUFFICES ASSUME NEW g \in Handle, task'[g] = "new", Entries(g)' PROVE FALSE
      BY DEF Fresh
    <3>1. ~Entries(g) /\ g # None
      BY <1>0, HandlesAreObjects DEF Fresh
    <3>2. \A q \in Peer, j \in Id :
            streams'[q][j] \in {streams[q][j], b} /\ inactive'[q][j] \in {inactive[q][j], None}
      BY <1>0, <1>t, <2>1
    <3>3. b # g
      BY <3>1 DEF Entries
    <3> QED
      BY <2>1, <3>1, <3>2, <3>3 DEF Entries
  <2> QED
    BY <2>5, <2>6, <2>7
<1>3. CASE AwaitSlot(h) \/ Proceed(h)
  <2>1. Undisturbed
    BY <1>0, <1>3 DEF AwaitSlot, Proceed, Undisturbed
  <2> QED
    BY <2>1, UndisturbedFiled
<1> QED
  BY <1>1, <1>2, <1>3 DEF PollActivate

LEMMA ReapStreamFiled ==
  ASSUME Typing, Filed, NEW h \in Handle, ReapStream(h)
  PROVE  Filed'
<1> USE DEF Filed
<1> DEFINE p == h.peer
           i == h.id
<1>0. /\ p \in Peer /\ i \in Id /\ None \notin Obj
      /\ task' = [task EXCEPT ![h] = "reaped"] /\ conn' = conn /\ object' = object
      /\ conn[p] # "cleanup"
  BY HandlesAreObjects, MuxAssumption DEF ReapStream, driver, Up
<1>t. /\ streams \in [Peer -> [Id -> Obj \cup {None}]]
      /\ inactive \in [Peer -> [Id -> Obj \cup {None}]]
      /\ object \in [Handle -> Obj \cup {None}]
      /\ task \in [Handle -> TaskStates] /\ shared \in [Obj -> Shared]
  BY DEF Typing, RegistryTyped, HandlesTyped
<1>1. CASE UNCHANGED <<registry, shared, wr>>
  <2>1. Undisturbed
    BY <1>0, <1>t, <1>1 DEF Undisturbed, registry
  <2> QED
    BY <2>1, UndisturbedFiled
<1>2. ASSUME ~HasLiveHandle(streams[p][i]), ~HasLiveHandle(inactive[p][i]),
             NEW g \in Handle, object[g] # None, g.peer = p
      PROVE  g.id # i
  BY <1>0, <1>2 DEF HasLiveHandle, RegistryConsistent
<1>3. ASSUME /\ streams' = streams \/ streams' = [streams EXCEPT ![p][i] = None]
             /\ inactive' = inactive \/ inactive' = [inactive EXCEPT ![p][i] = None]
             /\ \A o \in Obj : o # streams[p][i] => shared'[o] = shared[o]
             /\ streams[p][i] # None => streams' = [streams EXCEPT ![p][i] = None]
             /\ ~HasLiveHandle(streams[p][i]) /\ ~HasLiveHandle(inactive[p][i])
      PROVE  Filed'
  <2>1. ASSUME NEW q \in Peer, NEW j \in Id
        PROVE  /\ streams'[q][j] \in {streams[q][j], None}
               /\ inactive'[q][j] \in {inactive[q][j], None}
               /\ q = p /\ j = i => streams'[q][j] = None
               /\ q # p \/ j # i => streams'[q][j] = streams[q][j]
                                    /\ inactive'[q][j] = inactive[q][j]
    BY <1>0, <1>3, <1>t
  <2>2. RegistryConsistent'
    <3>1. ASSUME NEW q \in Peer, NEW j \in Id
          PROVE  /\ streams'[q][j] = None \/ inactive'[q][j] = None
                 /\ streams'[q][j] # None => shared'[streams'[q][j]].activated
                 /\ inactive'[q][j] # None => ~shared'[inactive'[q][j]].activated
      <4>1. /\ streams'[q][j] # None => streams'[q][j] = streams[q][j]
                                        /\ streams[q][j] \in Obj
                                        /\ streams[q][j] # streams[p][i]
            /\ inactive'[q][j] # None => inactive'[q][j] = inactive[q][j]
                                         /\ inactive[q][j] \in Obj
                                         /\ inactive[q][j] # streams[p][i]
        BY <1>0, <1>t, <2>1 DEF Owners, RegistryConsistent
      <4>2. /\ streams[q][j] = None \/ inactive[q][j] = None
            /\ streams[q][j] # None => shared[streams[q][j]].activated
            /\ inactive[q][j] # None => ~shared[inactive[q][j]].activated
        BY <1>0 DEF RegistryConsistent
      <4>3. \A x \in Obj : x # streams[p][i] => shared'[x].activated = shared[x].activated
        BY <1>3
      <4> QED
        BY <4>1, <4>2, <4>3
    <3>2. ASSUME NEW g \in Handle, object'[g] # None, conn'[g.peer] # "cleanup"
          PROVE  object'[g] \in {streams'[g.peer][g.id], inactive'[g.peer][g.id]}
      <4>0. g.peer \in Peer /\ g.id \in Id /\ object[g] # None /\ conn[g.peer] # "cleanup"
        BY <1>0, <3>2, HandlesAreObjects
      <4>1. g.peer # p \/ g.id # i
        BY <1>2, <1>3, <4>0
      <4> QED
        BY <1>0, <2>1, <4>0, <4>1 DEF RegistryConsistent
    <3> QED
      BY <3>1, <3>2 DEF RegistryConsistent
  <2>3. Owners'
    BY <1>0, <2>1 DEF Owners
  <2>4. Fresh'
    <3> SUFFICES ASSUME NEW g \in Handle, task'[g] = "new", Entries(g)' PROVE FALSE
      BY DEF Fresh
    <3>1. task[g] = "new" /\ g # None
      BY <1>0, <1>t, HandlesAreObjects
    <3>2. Entries(g)
      BY <1>0, <2>1, <3>1 DEF Entries
    <3> QED
      BY <3>1, <3>2 DEF Fresh
  <2> QED
    BY <2>2, <2>3, <2>4
<1>4. CASE /\ ~HasLiveHandle(streams[p][i]) /\ ~HasLiveHandle(inactive[p][i])
           /\ streams[p][i] = None /\ Forget(p, i)
  BY <1>3, <1>4 DEF Forget
<1>5. CASE /\ ~HasLiveHandle(streams[p][i]) /\ ~HasLiveHandle(inactive[p][i])
           /\ streams[p][i] # None /\ Release(p, i)
  <2>1. /\ streams' = [streams EXCEPT ![p][i] = None] /\ inactive' = inactive
        /\ shared' = [shared EXCEPT ![streams[p][i]] = NewShared]
    BY <1>5 DEF Release
  <2> QED
    BY <1>3, <1>5, <1>t, <2>1
<1> QED
  BY <1>1, <1>4, <1>5 DEF ReapStream

LEMMA OnDataFiled ==
  ASSUME Typing, Filed, NEW p \in Peer, OnData(p)
  PROVE  Filed'
<1> USE DEF Filed
<1> DEFINE f == Head(wire[p])
           i == f.id
           o == Addressee(p, i)
           s == Admitted(p, i)
<1>0. /\ i \in Id /\ f.len \in Nat /\ None \notin Obj
      /\ conn[p] = "active" /\ object' = object /\ task' = task
      /\ \A q \in Peer : conn[q] = "cleanup" => conn'[q] = "cleanup"
  <2>1. f \in StreamFrame
    BY ReceivedFrame DEF OnData, Receives, Typing
  <2>2. conn' = conn \/ conn' = [conn EXCEPT ![p] = "terminating"]
    BY DEF OnData, Terminate
  <2> QED
    BY <2>1, <2>2, MuxAssumption DEF OnData, Receives, StreamFrame, Typing, FramesTyped
<1>t. /\ streams \in [Peer -> [Id -> Obj \cup {None}]]
      /\ inactive \in [Peer -> [Id -> Obj \cup {None}]]
      /\ object \in [Handle -> Obj \cup {None}]
      /\ shared \in [Obj -> Shared]
  BY DEF Typing, RegistryTyped, HandlesTyped
<1>1. CASE ~Admits(p, f)
  <2>1. Undisturbed
    BY <1>0, <1>1 DEF OnData, Undisturbed
  <2> QED
    BY <2>1, UndisturbedFiled
<1>2. CASE Admits(p, f)
  <2>1. o \in Obj
    BY <1>0, AddresseeOf DEF Typing
  <2>2. s \in Shared /\ s.activated
    <3>0. \A r \in Shared : /\ [r EXCEPT !.activated = TRUE] \in Shared
                            /\ [r EXCEPT !.activated = TRUE].activated
      BY DEF Shared
    <3>1. CASE streams[p][i] # None
      <4>1. s = shared[streams[p][i]]
        BY <3>1 DEF Admitted
      <4>2. streams[p][i] \in Obj
        BY <1>0, <1>t, <3>1
      <4>3. shared[streams[p][i]].activated
        BY <1>0, <3>1 DEF RegistryConsistent
      <4> HIDE DEF s
      <4> QED
        BY <1>t, <4>1, <4>2, <4>3
    <3>2. CASE streams[p][i] = None /\ inactive[p][i] # None
      <4>1. shared[inactive[p][i]] \in Shared
        BY <1>0, <1>t, <3>2
      <4>2. s = [shared[inactive[p][i]] EXCEPT !.activated = TRUE]
        BY <3>2 DEF Admitted
      <4> HIDE DEF s
      <4> QED
        BY <4>1, <4>2, <3>0
    <3>3. CASE streams[p][i] = None /\ inactive[p][i] = None
      <4>1. s = [NewShared EXCEPT !.activated = TRUE]
        BY <3>3 DEF Admitted
      <4> HIDE DEF s
      <4> QED
        BY <4>1, NewSharedType, <3>0
    <3> QED
      BY <3>1, <3>2, <3>3
  <2>3. /\ streams' = [streams EXCEPT ![p][i] = o]
        /\ inactive' = IF streams[p][i] # None THEN inactive
                       ELSE [inactive EXCEPT ![p][i] = None]
        /\ shared' = [shared EXCEPT ![o] = IF f.len > s.fc.receive_window THEN s
                                                                 ELSE Deliver(s, f)]
    BY <1>2 DEF OnData
  <2> HIDE DEF s
  <2>4. shared'[o].activated /\ \A x \in Obj \ {o} : shared'[x] = shared[x]
    <3>1. Deliver(s, f).activated
      BY <2>2 DEF Deliver, Shared
    <3> QED
      BY <1>t, <2>1, <2>2, <2>3, <3>1
  <2>5. /\ o.peer = p /\ o.id = i
        /\ streams[p][i] # None => o = streams[p][i]
        /\ streams[p][i] = None /\ inactive[p][i] # None => o = inactive[p][i]
    BY <1>0 DEF Addressee, Owners, Implicit
  <2>6. inactive[p][i] = None \/ streams[p][i] = None
    BY <1>0 DEF RegistryConsistent
  <2>o. \A h \in Handle : Entries(h)' => Entries(h)
    <3> SUFFICES ASSUME NEW h \in Handle, Entries(h)' PROVE Entries(h)
      OBVIOUS
    <3>1. h # None /\ h # Implicit(p, i)
      BY HandlesAreObjects, MuxAssumption DEF Implicit
    <3>2. \A q \in Peer, j \in Id :
            /\ streams'[q][j] \in {streams[q][j], o}
            /\ inactive'[q][j] \in {inactive[q][j], None}
      BY <1>0, <1>t, <2>3
    <3>3. o \in {streams[p][i], inactive[p][i], Implicit(p, i)}
      BY DEF Addressee
    <3> HIDE DEF o
    <3> QED
      BY <1>0, <3>1, <3>2, <3>3 DEF Entries
  <2> HIDE DEF o
  <2>7. RegistryConsistent'
    <3>1. ASSUME NEW q \in Peer, NEW j \in Id
          PROVE  /\ streams'[q][j] = None \/ inactive'[q][j] = None
                 /\ streams'[q][j] # None => shared'[streams'[q][j]].activated
                 /\ inactive'[q][j] # None => ~shared'[inactive'[q][j]].activated
      <4>1. CASE q = p /\ j = i
        BY <1>0, <1>t, <2>1, <2>3, <2>4, <2>6, <4>1
      <4>2. CASE q # p \/ j # i
        <5>1. streams'[q][j] = streams[q][j] /\ inactive'[q][j] = inactive[q][j]
          BY <1>0, <1>t, <2>3, <4>2
        <5>2. /\ streams[q][j] # None => streams[q][j] \in Obj \ {o}
              /\ inactive[q][j] # None => inactive[q][j] \in Obj \ {o}
          BY <1>t, <2>5, <4>2 DEF Owners
        <5> QED
          BY <2>4, <5>1, <5>2 DEF RegistryConsistent
      <4> QED
        BY <4>1, <4>2
    <3>2. ASSUME NEW g \in Handle, object'[g] # None, conn'[g.peer] # "cleanup"
          PROVE  object'[g] \in {streams'[g.peer][g.id], inactive'[g.peer][g.id]}
      <4>0. g.peer \in Peer /\ g.id \in Id /\ object[g] # None /\ conn[g.peer] # "cleanup"
        BY <1>0, <3>2, HandlesAreObjects
      <4>1. object[g] \in {streams[g.peer][g.id], inactive[g.peer][g.id]}
        BY <4>0 DEF RegistryConsistent
      <4>2. CASE g.peer = p /\ g.id = i
        BY <1>0, <1>t, <2>3, <2>5, <2>6, <4>0, <4>1, <4>2
      <4>3. CASE g.peer # p \/ g.id # i
        BY <1>0, <1>t, <2>3, <4>0, <4>1, <4>3
      <4> QED
        BY <4>2, <4>3
    <3> QED
      BY <3>1, <3>2 DEF RegistryConsistent
  <2>8. Owners'
    <3>1. ASSUME NEW q \in Peer, NEW j \in Id
          PROVE  /\ \/ streams'[q][j] = streams[q][j]
                    \/ streams'[q][j].peer = q /\ streams'[q][j].id = j
                 /\ inactive'[q][j] \in {inactive[q][j], None}
      BY <1>0, <1>t, <2>3, <2>5
    <3>2. \A q \in Peer, j \in Id : \A x \in {streams'[q][j], inactive'[q][j]} :
            \/ x = None \/ x \in {streams[q][j], inactive[q][j]}
            \/ x.peer = q /\ x.id = j
      BY <3>1
    <3>3. \A g \in Handle : object'[g] = object[g]
      BY <1>0
    <3> QED
      BY <1>0, <3>2, <3>3, OwnersKept
  <2>9. Fresh'
    BY <1>0, <2>o DEF Fresh
  <2> QED
    BY <2>7, <2>8, <2>9
<1> QED
  BY <1>1, <1>2

LEMMA DropAllStreamsFiled ==
  ASSUME Typing, Filed, NEW p \in Peer, DropAllStreams(p)
  PROVE  Filed'
<1> USE DEF Filed
<1>0. /\ None \notin Obj /\ object' = object /\ task' = task
      /\ streams' = [streams EXCEPT ![p] = [i \in Id |-> None]]
      /\ inactive' = [inactive EXCEPT ![p] = [i \in Id |-> None]]
      /\ conn' = [conn EXCEPT ![p] = "cleanup"]
  BY MuxAssumption DEF DropAllStreams
<1>t. /\ streams \in [Peer -> [Id -> Obj \cup {None}]]
      /\ inactive \in [Peer -> [Id -> Obj \cup {None}]]
      /\ shared \in [Obj -> Shared] /\ conn \in [Peer -> ConnStates]
  BY DEF Typing, RegistryTyped, FramesTyped
<1>1. \A o \in Obj : shared'[o].activated = shared[o].activated
  BY <1>t DEF DropAllStreams, Shared
<1>2. \A q \in Peer, i \in Id :
        /\ streams'[q][i] = IF q = p THEN None ELSE streams[q][i]
        /\ inactive'[q][i] = IF q = p THEN None ELSE inactive[q][i]
  BY <1>0, <1>t
<1>3. RegistryConsistent'
  <2>1. ASSUME NEW q \in Peer, NEW j \in Id
        PROVE  /\ streams'[q][j] = None \/ inactive'[q][j] = None
               /\ streams'[q][j] # None => shared'[streams'[q][j]].activated
               /\ inactive'[q][j] # None => ~shared'[inactive'[q][j]].activated
    BY <1>1, <1>2, <1>t DEF RegistryConsistent
  <2>2. ASSUME NEW g \in Handle, object'[g] # None, conn'[g.peer] # "cleanup"
        PROVE  object'[g] \in {streams'[g.peer][g.id], inactive'[g.peer][g.id]}
    <3>1. g.peer \in Peer /\ g.id \in Id /\ g.peer # p /\ conn[g.peer] # "cleanup"
      BY <1>0, <1>t, <2>2, HandlesAreObjects
    <3> QED
      BY <1>0, <1>2, <2>2, <3>1 DEF RegistryConsistent
  <2> QED
    BY <2>1, <2>2 DEF RegistryConsistent
<1>4. Owners'
  BY <1>0, <1>2 DEF Owners
<1>5. Fresh'
  BY <1>0, <1>2, HandlesAreObjects DEF Fresh, Entries
<1> QED
  BY <1>3, <1>4, <1>5

(* Filed is inductive, given the types. *)
LEMMA InitFiled == Init => Filed
<1> SUFFICES ASSUME Init PROVE Filed
  OBVIOUS
<1>1. RegistryConsistent
  BY DEF Init, RegistryConsistent
<1>2. Owners
  BY DEF Init, Owners
<1>3. Fresh
  BY HandlesAreObjects, MuxAssumption DEF Init, Fresh, Entries
<1> QED
  BY <1>1, <1>2, <1>3 DEF Filed

LEMMA NextFiled == Typing /\ Filed /\ [Next]_vars => Filed'
<1> SUFFICES ASSUME Typing, Filed, [Next]_vars PROVE Filed'
  OBVIOUS
<1>1. ASSUME NEW p \in Peer, Driver(p) PROVE Filed'
  <2>1. CASE OnData(p)
    BY <2>1, OnDataFiled
  <2>2. CASE DropAllStreams(p)
    BY <2>2, DropAllStreamsFiled
  <2>3. CASE ~(OnData(p) \/ DropAllStreams(p))
    <3>1. Undisturbed
      BY <1>1, <2>3, DriverStepsUndisturbed DEF Driver
    <3> QED
      BY <3>1, UndisturbedFiled
  <2> QED
    BY <2>1, <2>2, <2>3
<1>2. ASSUME NEW h \in Handle,
             \/ PollWrite(h) \/ PollRead(h) \/ PollFlush(h) \/ CloseInactive(h)
             \/ SendClose(h) \/ FinishClose(h) \/ DropShared(h) \/ DropSender(h) \/ PollStream(h)
      PROVE  Filed'
  BY <1>2, HandleStepsUndisturbed, UndisturbedFiled
<1>3. CASE UNCHANGED vars
  <2>1. Undisturbed
    BY <1>3 DEF vars, registry, handles, driver, Undisturbed
  <2> QED
    BY <2>1, UndisturbedFiled
<1> QED
  BY <1>1, <1>2, <1>3, NewStreamFiled, PollActivateFiled, ReapStreamFiled DEF Next

(* An id has one Shared at a time, and every live handle uses it: the       *)
(* registry lock and the three-way case of poll_activate and on_data keep   *)
(* local and remote opening of one id from creating two.                    *)
THEOREM SpecRegistryConsistent == Spec => []RegistryConsistent
<1>1. Typing /\ Filed => RegistryConsistent
  BY DEF Filed
<1> QED
  BY <1>1, InitFiled, NextFiled, TypingInvariant, PTL DEF Spec

====
