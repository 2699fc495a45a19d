---------------------------- MODULE MuxWakeProofs ----------------------------
(***************************************************************************)
(* The wakers of the multiplexer, for every set of handles, ids and        *)
(* limits: a writer that waits for a slot waits for good reason and is     *)
(* woken; without siblings so is every reader, and every writer that waits *)
(* for credit, and nobody is left behind by the teardown.                  *)
(***************************************************************************)
EXTENDS MuxSlotProofs

(* Slots.  Only what frees a slot makes room, and it wakes all who wait; an *)
(* owed close stands for the wake that is still to come.                    *)
Waiting(h) ==
  wr[h] = "slot" =>
    /\ task[h] # "new" /\ object[h] # None /\ h \in slot_wakers[h.peer]
    /\ Up(h.peer) => /\ ActiveSlots(h.peer) >= max_num_streams[h.peer]
                     /\ shared[object[h]].activated => Owed(h.peer) # {}

AllWait == \A h \in Handle : Waiting(h)

(* The registry as one who waits for a slot of it sees it. *)
SameView(h) ==
  /\ object'[h] = object[h] /\ (task'[h] = "new" => task[h] = "new")
  /\ slot_wakers[h.peer] \subseteq slot_wakers'[h.peer]
  /\ Up(h.peer)' =>
       /\ Up(h.peer) /\ Held(h.peer)' = Held(h.peer) /\ Owed(h.peer)' = Owed(h.peer)
       /\ shared'[object[h]].activated = shared[object[h]].activated

LEMMA SameViewWaits ==
  ASSUME NEW h \in Handle, Waiting(h), wr'[h] = "slot" => wr[h] = "slot" /\ SameView(h)
  PROVE  Waiting(h)'
BY DEF Waiting, SameView, ActiveSlots

(* Most steps leave the registry alone. *)
SlotsAlone ==
  /\ UNCHANGED <<streams, owed_close, slot_wakers>>
  /\ \A h \in Handle : wr'[h] = "slot" => wr[h] = "slot" /\ object'[h] = object[h]
  /\ \A p \in Peer : Up(p)' => Up(p)

LEMMA SlotsAloneWaits ==
  ASSUME Typing, AllWait, SlotsAlone, Undisturbed
  PROVE  AllWait'
<1> SUFFICES ASSUME NEW h \in Handle, wr'[h] = "slot" PROVE SameView(h) /\ wr[h] = "slot"
  BY SameViewWaits DEF AllWait
<1>1. object[h] \in Obj /\ h.peer \in Peer
  BY HandlesAreObjects, MuxAssumption DEF AllWait, Waiting, SlotsAlone, Typing, HandlesTyped
<1> QED
  BY <1>1 DEF SameView, SlotsAlone, Undisturbed, Held, Owed

LEMMA HandleStepsAlone ==
  ASSUME Typing, NEW h \in Handle,
         \/ PollWrite(h) \/ PollRead(h) \/ PollFlush(h) \/ CloseInactive(h)
         \/ SendClose(h) \/ FinishClose(h) \/ DropShared(h) \/ DropSender(h) \/ PollStream(h)
  PROVE  SlotsAlone
<1> USE DEF SlotsAlone
<1>0. object \in [Handle -> Obj \cup {None}] /\ wr \in [Handle -> WrStates]
  BY DEF Typing, HandlesTyped
<1>1. CASE PollWrite(h)
  BY <1>0, <1>1 DEF PollWrite, FailWrite, AwaitRoom, AwaitCredit, SendData, registry, driver, Up
<1>2. CASE PollRead(h)
  BY <1>2 DEF PollRead, registry, driver, Up
<1>3. CASE CloseInactive(h) \/ FinishClose(h) \/ SendClose(h) \/ DropShared(h) \/ DropSender(h)
  BY <1>0, <1>3 DEF CloseInactive, FinishClose, SendClose, DropShared, DropSender, registry,
                    driver, Up
<1>4. CASE PollStream(h)
  BY <1>4 DEF PollStream, WakeForRoom, Awake, registry, Up
<1>5. CASE PollFlush(h)
  BY <1>0, <1>5 DEF PollFlush, registry, driver, Up
<1> QED
  BY <1>1, <1>2, <1>3, <1>4, <1>5

LEMMA DriverStepsAlone ==
  ASSUME Typing, NEW p \in Peer,
         \/ SendGoAway(p) \/ SendPending(p) \/ IgnoreFrame(p)
         \/ OnReset(p) \/ OnWindowUpdate(p)
         \/ OnGoAway(p) \/ SocketClosed(p) \/ Fail(p)
  PROVE  SlotsAlone
<1> USE DEF SlotsAlone
<1>0. conn \in [Peer -> ConnStates]
  BY DEF Typing, FramesTyped
<1>1. CASE SendGoAway(p) \/ SendPending(p)
  BY <1>0, <1>1 DEF SendGoAway, SendPending, registry, handles, Up
<1>2. CASE IgnoreFrame(p)
  BY <1>2 DEF IgnoreFrame, Receives, Up
<1>3. CASE OnReset(p) \/ OnWindowUpdate(p)
  BY Zenon, <1>3 DEF OnReset, OnWindowUpdate, Receives, Awake, Up
<1>4. CASE OnGoAway(p) \/ SocketClosed(p) \/ Fail(p)
  BY <1>0, <1>4 DEF OnGoAway, SocketClosed, Fail, CloseReceivers, WakeForRoom, Awake, Up, registry
<1> QED
  BY <1>1, <1>2, <1>3, <1>4

(* The steps that change the registry: each is seen by the handles of one   *)
(* peer, and those of the other see what they saw.                          *)
LEMMA NewStreamWaits ==
  ASSUME Typing, Filed, AllWait, NEW h \in Handle, NewStream(h)
  PROVE  AllWait'
<1>t. Typed
  BY TypingTyped
<1>0. /\ streams' = streams /\ owed_close' = owed_close /\ slot_wakers' = slot_wakers
      /\ conn' = conn /\ wr' = wr /\ h \in Obj /\ h.peer \in Peer /\ h.id \in Id
      /\ task[h] = "new" /\ task' = [task EXCEPT ![h] = "live"] /\ ~Entries(h)
  BY HandlesAreObjects DEF NewStream, driver, Filed, Fresh
<1>1. \A o \in Obj \ {h} : shared'[o].activated = shared[o].activated
  <2> DEFINE existing == IF streams[h.peer][h.id] # None THEN streams[h.peer][h.id]
                                                     ELSE inactive[h.peer][h.id]
  <2>1. CASE existing # None
    <3>1. shared' = [shared EXCEPT ![existing].claimed = TRUE]
      BY <2>1 DEF NewStream
    <3>2. existing \in Obj
      BY <1>0, <1>t, <2>1 DEF Typed
    <3> HIDE DEF existing
    <3> QED
      BY <1>t, <3>1, <3>2 DEF Typed, Shared
  <2>2. CASE existing = None
    <3>1. shared' = [shared EXCEPT ![h] = [NewShared EXCEPT !.claimed = TRUE]]
      BY <2>2 DEF NewStream
    <3> QED
      BY <1>t, <3>1 DEF Typed
  <2> QED
    BY <2>1, <2>2
<1>2. \A g \in Handle \ {h} : object'[g] = object[g]
  BY <1>t DEF NewStream, Typed
<1> SUFFICES ASSUME NEW g \in Handle, wr[g] = "slot" PROVE SameView(g)
  BY <1>0, SameViewWaits DEF AllWait
<1>3. g # h /\ object[g] \in Obj \ {h} /\ task[g] # "new" /\ g.peer \in Peer
  BY <1>0, <1>t, HandlesAreObjects DEF AllWait, Waiting, Typed, Entries
<1> QED
  BY <1>0, <1>1, <1>2, <1>3, <1>t DEF SameView, Held, Owed, Up, Typed

LEMMA PollActivateWaits ==
  ASSUME Typing, Filed, AllWait, NEW h \in Handle, PollActivate(h)
  PROVE  AllWait'
<1> DEFINE p == h.peer
           i == h.id
           b == object[h]
<1>0. /\ p \in Peer /\ i \in Id /\ None \notin Obj
      /\ task[h] = "live" /\ task' = task /\ conn' = conn /\ owed_close' = owed_close
      /\ b \in Obj /\ b.peer = p /\ b.id = i /\ ~shared[b].activated /\ wr[h] = "idle"
  BY HandlesAreObjects, MuxAssumption
     DEF PollActivate, driver, Typing, HandlesTyped, LiveHasShared, Filed, Owners
<1>t. Typed /\ wr \in [Handle -> WrStates] /\ slot_wakers \in [Peer -> SUBSET Handle]
  BY TypingTyped DEF Typing, HandlesTyped, RegistryTyped
<1>w. \A g \in Handle : wr[g] = "slot" =>
        /\ g # h /\ object[g] \in Obj /\ g.peer \in Peer
        /\ object[g].peer = g.peer /\ object[g].id = g.id
  BY <1>0, <1>t, HandlesAreObjects DEF AllWait, Waiting, Typed, Filed, Owners
<1>1. CASE Adopt(h) /\ streams[p][i] # None
  <2> DEFINE o == streams[p][i]
  <2>1. /\ object' = [object EXCEPT ![h] = o] /\ wr' = [wr EXCEPT ![h] = "mid"]
        /\ streams' = streams /\ slot_wakers' = slot_wakers
        /\ shared' = [shared EXCEPT ![o] = [[shared[o] EXCEPT !.activated = TRUE]
                                                        EXCEPT !.claimed = TRUE]]
    BY <1>1 DEF Adopt
  <2>2. o \in Obj /\ shared[o].activated
    BY <1>0, <1>1, <1>t DEF Typed, Filed, RegistryConsistent
  <2>3. \A x \in Obj : shared'[x].activated = shared[x].activated
    BY <1>t, <2>1, <2>2 DEF Typed, Shared
  <2> SUFFICES ASSUME NEW g \in Handle, wr'[g] = "slot" PROVE wr[g] = "slot" /\ SameView(g)
    BY SameViewWaits DEF AllWait
  <2>4. wr[g] = "slot" /\ g # h
    BY <1>t, <2>1
  <2> QED
    BY <1>0, <1>t, <1>w, <2>1, <2>3, <2>4 DEF SameView, Held, Owed, Up, Typed
<1>2. CASE ClaimSlot(h) /\ streams[p][i] = None /\ SlotFree(p)
  <2>1. /\ streams' = [streams EXCEPT ![p][i] = b] /\ wr' = [wr EXCEPT ![h] = "mid"]
        /\ shared' = [shared EXCEPT ![b] = [[shared[b] EXCEPT !.activated = TRUE]
                                                        EXCEPT !.syn_pending = TRUE]]
        /\ object' = object /\ slot_wakers' = slot_wakers
    BY <1>2 DEF ClaimSlot
  <2>2. \A x \in Obj \ {b} : shared'[x] = shared[x]
    BY <1>0, <1>t, <2>1 DEF Typed
  <2> SUFFICES ASSUME NEW g \in Handle, wr'[g] = "slot" PROVE wr[g] = "slot" /\ SameView(g)
    BY SameViewWaits DEF AllWait
  <2>3. wr[g] = "slot" /\ g # h
    BY <1>t, <2>1
  <2>4. CASE g.peer = p
    <3>1. ActiveSlots(p) \in Nat /\ max_num_streams[p] \in Nat /\ ActiveSlots(p) < max_num_streams[p]
      BY <1>0, <1>2, HeldFinite, MuxAssumption DEF SlotFree, ActiveSlots
    <3>2. ~Up(p)
      BY <2>3, <2>4, <3>1 DEF AllWait, Waiting
    <3> QED
      BY <1>0, <2>1, <2>3, <2>4, <3>2 DEF SameView, Up
  <2>5. CASE g.peer # p
    <3>1. object[g] \in Obj \ {b} /\ g.peer \in Peer
      BY <1>0, <1>w, <2>3, <2>5
    <3>2. streams'[g.peer] = streams[g.peer]
      BY <1>0, <1>t, <2>1, <2>5, <3>1 DEF Typed
    <3> QED
      BY <1>0, <2>1, <2>2, <2>3, <3>1, <3>2 DEF SameView, Held, Owed, Up
  <2> QED
    BY <2>4, <2>5
<1>3. CASE AwaitSlot(h) /\ ~SlotFree(p)
  <2>1. /\ slot_wakers' = [slot_wakers EXCEPT ![p] = @ \cup {h}]
        /\ wr' = [wr EXCEPT ![h] = "slot"]
        /\ UNCHANGED <<streams, inactive, object, shared>>
    BY <1>3 DEF AwaitSlot
  <2>2. Waiting(h)'
    <3>1. ActiveSlots(p) \in Nat /\ max_num_streams[p] \in Nat
      BY <1>0, HeldFinite, MuxAssumption DEF ActiveSlots
    <3>2. ActiveSlots(p)' = ActiveSlots(p) /\ ActiveSlots(p) >= max_num_streams[p]
      BY <1>0, <1>3, <2>1, <3>1 DEF SlotFree, ActiveSlots, Held, Owed
    <3>3. h \in slot_wakers'[p]
      BY <1>0, <1>t, <2>1
    <3> QED
      BY <1>0, <2>1, <3>2, <3>3 DEF Waiting
  <2>3. ASSUME NEW g \in Handle, g # h PROVE Waiting(g)'
    <3>1. wr'[g] = "slot" => wr[g] = "slot" /\ SameView(g)
      BY <1>0, <1>t, <1>w, <2>1, <2>3 DEF SameView, Held, Owed, Up
    <3> QED
      BY <3>1, SameViewWaits DEF AllWait
  <2> QED
    BY <2>2, <2>3 DEF AllWait
<1>4. CASE Proceed(h)
  <2>1. Undisturbed /\ SlotsAlone
    BY <1>0, <1>4, <1>t DEF Proceed, Undisturbed, SlotsAlone, Up
  <2> QED
    BY <2>1, SlotsAloneWaits
<1> QED
  BY <1>1, <1>2, <1>3, <1>4 DEF PollActivate

(* An owed close leaves its slot: all who wait are woken.                   *)
LEMMA TakeOwedWaits ==
  ASSUME Typing, AllWait, NEW p \in Peer, TakeOwed(p)
  PROVE  AllWait'
<1>t. Typed /\ owed_close \in [Peer -> [Id -> StreamFrame \cup {None}]]
      /\ slot_wakers \in [Peer -> SUBSET Handle]
  BY TypingTyped DEF Typing, RegistryTyped
<1> SUFFICES ASSUME NEW g \in Handle, wr'[g] = "slot" PROVE wr[g] = "slot" /\ SameView(g)
  BY SameViewWaits DEF AllWait
<1>1. wr[g] = "slot" /\ g \notin slot_wakers[p]
  BY DEF TakeOwed, Awake
<1>2. g.peer # p /\ g.peer \in Peer
  BY <1>1, HandlesAreObjects DEF AllWait, Waiting
<1>3. owed_close'[g.peer] = owed_close[g.peer] /\ slot_wakers'[g.peer] = slot_wakers[g.peer]
  BY <1>2, <1>t DEF TakeOwed
<1> QED
  BY <1>1, <1>3 DEF TakeOwed, SameView, Held, Owed, Up

LEMMA ReapStreamWaits ==
  ASSUME Typing, Filed, AllWait, NEW h \in Handle, ReapStream(h)
  PROVE  AllWait'
<1> DEFINE p == h.peer
           i == h.id
<1>0. /\ p \in Peer /\ i \in Id /\ Owed(p) = {} /\ conn' = conn /\ object' = object
      /\ task' = [task EXCEPT ![h] = "reaped"]
  BY HandlesAreObjects DEF ReapStream, driver
<1>t. Typed /\ owed_close \in [Peer -> [Id -> StreamFrame \cup {None}]]
      /\ slot_wakers \in [Peer -> SUBSET Handle]
  BY TypingTyped DEF Typing, RegistryTyped
<1>1. CASE UNCHANGED <<registry, shared, wr>> \/ (Forget(p, i) /\ UNCHANGED wr)
  <2>1. UNCHANGED <<streams, owed_close, slot_wakers, shared, wr>>
    BY <1>1 DEF registry, Forget
  <2> SUFFICES ASSUME NEW g \in Handle, wr[g] = "slot" PROVE SameView(g)
    BY <2>1, SameViewWaits DEF AllWait
  <2> QED
    BY <1>0, <1>t, <2>1 DEF SameView, Held, Owed, Up, Typed
<1>2. CASE /\ ~HasLiveHandle(streams[p][i]) /\ streams[p][i] # None /\ Release(p, i)
  <2> DEFINE o == streams[p][i]
             frame == OwedClose(i, shared[o].state)
  <2>1. /\ streams' = [streams EXCEPT ![p][i] = None]
        /\ shared' = [shared EXCEPT ![o] = NewShared]
        /\ owed_close' = [owed_close EXCEPT ![p][i] = IF frame # None THEN frame ELSE @]
        /\ \/ /\ frame = None /\ slot_wakers' = [slot_wakers EXCEPT ![p] = {}]
              /\ wr' = Awake(wr, slot_wakers[p])
           \/ frame # None /\ slot_wakers' = slot_wakers /\ wr' = wr
    BY <1>2 DEF Release
  <2> HIDE DEF frame
  <2> SUFFICES ASSUME NEW g \in Handle, wr'[g] = "slot" PROVE Waiting(g)'
    BY DEF AllWait, Waiting
  <2>2. wr[g] = "slot" /\ object[g] \in Obj /\ object[g] # o /\ g.peer \in Peer
    BY <1>2, <1>t, <2>1, HandlesAreObjects, MuxAssumption
       DEF AllWait, Waiting, Awake, Typed, HasLiveHandle
  <2>3. shared'[object[g]] = shared[object[g]] /\ (task'[g] = "new" => task[g] = "new")
    BY <1>0, <1>t, <2>1, <2>2 DEF Typed
  <2>4. CASE g.peer # p
    <3>1. /\ streams'[g.peer] = streams[g.peer] /\ owed_close'[g.peer] = owed_close[g.peer]
          /\ slot_wakers'[g.peer] = slot_wakers[g.peer]
      BY <1>0, <1>t, <2>1, <2>2, <2>4 DEF Typed
    <3>2. SameView(g)
      BY <1>0, <2>3, <3>1 DEF SameView, Held, Owed, Up
    <3> QED
      BY <2>2, <3>2, SameViewWaits DEF AllWait
  <2>5. CASE g.peer = p
    <3>1. frame # None /\ slot_wakers' = slot_wakers
      BY <1>0, <2>1, <2>2, <2>5 DEF AllWait, Waiting, Awake
    <3>2. Held(p)' = Held(p) \ {i} /\ i \in Held(p) /\ Owed(p)' = {i}
      <4>1. owed_close' = [owed_close EXCEPT ![p][i] = frame]
        BY <1>0, <2>1, <3>1
      <4> QED
        BY <1>0, <1>2, <1>t, <2>1, <3>1, <4>1 DEF Held, Owed, Typed
    <3>3. ActiveSlots(p)' = ActiveSlots(p)
      <4>1. Cardinality(Held(p)) \in Nat /\ IsFiniteSet(Held(p))
        BY <1>0, HeldFinite
      <4>2. Cardinality(Held(p) \ {i}) = Cardinality(Held(p)) - 1
        BY <3>2, <4>1, FS_RemoveElement
      <4>3. Cardinality(Owed(p)) = 0
        BY <1>0, FS_EmptySet
      <4>4. Cardinality({i}) = 1
        BY FS_Singleton
      <4> QED
        BY <3>2, <4>1, <4>2, <4>3, <4>4 DEF ActiveSlots
    <3> QED
      BY <1>0, <2>2, <2>3, <2>5, <3>1, <3>2, <3>3 DEF AllWait, Waiting, Up
  <2> QED
    BY <2>4, <2>5
<1> QED
  BY <1>1, <1>2 DEF ReapStream, Forget

(* The peer may take the slot of a stream that waits for one, and its own:  *)
(* there is room for its SYN only because a close is still owed.            *)
LEMMA OnDataWaits ==
  ASSUME Typing, Filed, AllWait, NEW p \in Peer, OnData(p)
  PROVE  AllWait'
<1> DEFINE f == Head(wire[p])
           i == f.id
           o == Addressee(p, i)
<1>t. Typed
  BY TypingTyped
<1>0. /\ i \in Id /\ None \notin Obj /\ object' = object /\ task' = task /\ wr' = wr
      /\ owed_close' = owed_close /\ slot_wakers' = slot_wakers
      /\ \A q \in Peer : Up(q)' => Up(q)
  <2>1. f \in StreamFrame
    BY ReceivedFrame DEF OnData, Receives, Typing
  <2>2. conn[p] = "active" /\ (conn' = conn \/ conn' = [conn EXCEPT ![p] = "terminating"])
    BY DEF OnData, Terminate
  <2>3. \A q \in Peer : Up(q)' => Up(q)
    BY <2>2 DEF Up, Typing, FramesTyped
  <2> QED
    BY <2>1, <2>3, MuxAssumption DEF OnData, Receives, StreamFrame
<1> SUFFICES ASSUME NEW g \in Handle, wr[g] = "slot" PROVE Waiting(g)'
  BY <1>0 DEF AllWait, Waiting
<1>1. /\ object[g] \in Obj /\ g.peer \in Peer /\ Waiting(g)
      /\ object[g].peer = g.peer /\ object[g].id = g.id
  BY <1>t, HandlesAreObjects DEF AllWait, Waiting, Typed, Filed, Owners
<1>2. CASE ~Admits(p, f)
  <2>1. streams' = streams /\ shared' = shared
    BY <1>2 DEF OnData
  <2>2. SameView(g)
    BY <1>0, <1>1, <2>1 DEF SameView, Held, Owed
  <2> QED
    BY <1>1, <2>2, SameViewWaits
<1>3. CASE Admits(p, f)
  <2>1. /\ streams' = [streams EXCEPT ![p][i] = o]
        /\ \E r : shared' = [shared EXCEPT ![o] = r]
    BY <1>3 DEF OnData
  <2>2. o \in Obj /\ o.peer = p /\ o.id = i
    <3>1. RegistryTyped /\ Owners
      BY DEF Typing, Filed
    <3>2. i \in Id
      BY <1>0
    <3> HIDE DEF i
    <3> QED
      BY <3>1, <3>2, AddresseeOf
  <2>3. streams[p][i] # None => o = streams[p][i]
    BY DEF Addressee
  <2> HIDE DEF o
  <2>4. \A x \in Obj \ {o} : shared'[x] = shared[x]
    BY <1>t, <2>1 DEF Typed
  <2>5. CASE g.peer # p
    <3>1. streams'[g.peer] = streams[g.peer]
      BY <1>1, <1>t, <2>1, <2>5 DEF Typed
    <3>2. SameView(g)
      BY <1>0, <1>1, <2>2, <2>4, <2>5, <3>1 DEF SameView, Held, Owed
    <3> QED
      BY <1>1, <3>2, SameViewWaits
  <2>6. CASE g.peer = p /\ ~Up(p)
    BY <1>0, <1>1, <2>6 DEF Waiting
  <2>7. CASE g.peer = p /\ Up(p) /\ streams[p][i] # None
    <3>1. streams' = streams
      BY <1>0, <1>t, <2>1, <2>3, <2>7 DEF Typed
    <3>2. ActiveSlots(p)' = ActiveSlots(p) /\ Owed(p)' = Owed(p)
      BY <1>0, <3>1 DEF ActiveSlots, Held, Owed
    <3>3. object[g] = o => shared[object[g]].activated
      BY <1>0, <2>3, <2>7 DEF Filed, RegistryConsistent
    <3> QED
      BY <1>0, <1>1, <2>4, <2>7, <3>2, <3>3 DEF Waiting
  <2>8. CASE g.peer = p /\ Up(p) /\ streams[p][i] = None
    <3>1. Cardinality(Held(p)) < max_num_streams[p]
      BY <1>3, <2>8 DEF Admits
    <3>2. /\ Cardinality(Held(p)) \in Nat /\ Cardinality(Owed(p)) \in Nat
          /\ IsFiniteSet(Held(p)) /\ max_num_streams[p] \in Nat
          /\ ActiveSlots(p) >= max_num_streams[p]
      <4>1. ActiveSlots(p) >= max_num_streams[p]
        BY <1>1, <2>8 DEF Waiting
      <4> QED
        BY <4>1, HeldFinite, MuxAssumption
    <3>3. Owed(p) # {} /\ Owed(p)' = Owed(p)
      <4>1. Cardinality(Owed(p)) # 0
        BY <3>1, <3>2 DEF ActiveSlots
      <4>2. Owed(p) # {}
        BY <4>1, FS_EmptySet
      <4>3. Owed(p)' = Owed(p)
        BY <1>0 DEF Owed
      <4> QED
        BY <4>2, <4>3
    <3>4. Held(p)' = Held(p) \cup {i} /\ i \notin Held(p)
      BY <1>0, <1>t, <2>1, <2>2, <2>8 DEF Held, Typed
    <3>5. Cardinality(Held(p)') = Cardinality(Held(p)) + 1
      BY <3>2, <3>4, FS_AddElement
    <3>6. ActiveSlots(p)' >= max_num_streams[p]
      BY <3>2, <3>3, <3>5 DEF ActiveSlots
    <3> QED
      BY <1>0, <1>1, <2>8, <3>3, <3>6 DEF Waiting
  <2> QED
    BY <1>1, <2>5, <2>6, <2>7, <2>8
<1> QED
  BY <1>2, <1>3

LEMMA DropAllStreamsWaits ==
  ASSUME Typing, AllWait, NEW p \in Peer, DropAllStreams(p)
  PROVE  AllWait'
<1>t. Typed /\ slot_wakers \in [Peer -> SUBSET Handle] /\ conn \in [Peer -> ConnStates]
  BY TypingTyped DEF Typing, RegistryTyped, FramesTyped
<1> SUFFICES ASSUME NEW g \in Handle, wr'[g] = "slot" PROVE wr[g] = "slot" /\ SameView(g)
  BY SameViewWaits DEF AllWait
<1>1. wr[g] = "slot" /\ g \notin slot_wakers[p]
  BY DEF DropAllStreams, Awake
<1>2. g.peer # p /\ g.peer \in Peer /\ object[g] \in Obj
  BY <1>1, <1>t, HandlesAreObjects DEF AllWait, Waiting, Typed
<1>3. /\ streams'[g.peer] = streams[g.peer] /\ slot_wakers'[g.peer] = slot_wakers[g.peer]
      /\ conn'[g.peer] = conn[g.peer]
  BY <1>2, <1>t DEF DropAllStreams, Typed
<1>4. shared'[object[g]].activated = shared[object[g]].activated
  BY <1>2, <1>t DEF DropAllStreams, Typed, Shared
<1> QED
  BY <1>1, <1>3, <1>4 DEF DropAllStreams, SameView, Held, Owed, Up

LEMMA InitWaits == Init => AllWait
BY DEF Init, AllWait, Waiting

LEMMA NextWaits == Typing /\ Filed /\ AllWait /\ [Next]_vars => AllWait'
<1> SUFFICES ASSUME Typing, Filed, AllWait, [Next]_vars PROVE AllWait'
  OBVIOUS
<1>1. ASSUME NEW p \in Peer, Driver(p) PROVE AllWait'
  <2>1. CASE TakeOwed(p) \/ OnData(p) \/ DropAllStreams(p)
    BY <2>1, TakeOwedWaits, OnDataWaits, DropAllStreamsWaits
  <2>2. CASE ~(TakeOwed(p) \/ OnData(p) \/ DropAllStreams(p))
    BY <1>1, <2>2, DriverStepsAlone, DriverStepsUndisturbed, SlotsAloneWaits DEF Driver
  <2> QED
    BY <2>1, <2>2
<1>2. ASSUME NEW h \in Handle,
             \/ PollWrite(h) \/ PollRead(h) \/ PollFlush(h) \/ CloseInactive(h)
             \/ SendClose(h) \/ FinishClose(h) \/ DropShared(h) \/ DropSender(h) \/ PollStream(h)
      PROVE  AllWait'
  BY <1>2, HandleStepsAlone, HandleStepsUndisturbed, SlotsAloneWaits
<1>3. CASE UNCHANGED vars
  <2>1. Undisturbed /\ SlotsAlone
    BY <1>3 DEF vars, registry, handles, driver, Undisturbed, SlotsAlone, Up
  <2> QED
    BY <2>1, SlotsAloneWaits
<1> QED
  BY <1>1, <1>2, <1>3, NewStreamWaits, PollActivateWaits, ReapStreamWaits DEF Next

(* A writer waits for a slot only while none is free, it is registered to   *)
(* be woken, and if the peer has opened its stream meanwhile an owed close  *)
(* is there whose flush will wake it.                                       *)
THEOREM SpecNoLostSlotWake == Spec => []NoLostSlotWake
<1>1. AllWait => NoLostSlotWake
  BY DEF AllWait, Waiting, NoLostSlotWake
<1> QED
  BY <1>1, InitFiled, NextFiled, InitWaits, NextWaits, TypingInvariant, PTL DEF Spec

-----------------------------------------------------------------------------
(* Readers, and writers that wait for credit.  A Shared has room for one    *)
(* waker of each kind, so what follows is about ids without siblings.  A    *)
(* handle that outlives the teardown finds its Shared closed, and does not  *)
(* park again.                                                              *)
Parked(h) ==
  LET s == shared[object[h]]
  IN  /\ rd[h] = "parked" =>
           /\ task[h] # "new" /\ object[h] # None
           /\ s.buffer = 0 /\ CanRead(s.state) /\ s.reader = h
      /\ wr[h] = "credit" =>
           /\ task[h] # "new" /\ object[h] # None /\ s.writer = h
           /\ task[h] = "live" => s.fc.send_window = 0 /\ CanWrite(s.state)
      /\ conn[h.peer] = "cleanup" =>
           /\ rd[h] # "parked" /\ wr[h] \notin {"slot", "credit"}
           /\ object[h] # None =>
                s.state = "Closed" /\ streams[h.peer][h.id] \in {None, object[h]}

AllParked == \A h \in Handle : Parked(h)

(* One whom a step does not concern, but may wake. *)
Bystander(h) ==
  /\ object'[h] = object[h]
  /\ task'[h] = task[h] \/ task'[h] \notin {"new", "live"}
  /\ object[h] # None => shared'[object[h]] = shared[object[h]]
  /\ rd'[h] \in {rd[h], "idle"} /\ wr'[h] \in {wr[h], "idle"}
  /\ conn'[h.peer] = "cleanup" =>
       conn[h.peer] = "cleanup" /\ streams'[h.peer][h.id] = streams[h.peer][h.id]

LEMMA BystanderParked ==
  ASSUME NEW h \in Handle, Parked(h), Bystander(h)
  PROVE  Parked(h)'
BY DEF Parked, Bystander

(* A step of one handle touches that handle and the Shared of its id. *)
Solo(g) ==
  /\ \A o \in Obj : o.peer # g.peer \/ o.id # g.id => shared'[o] = shared[o]
  /\ \A q \in Peer, j \in Id : q # g.peer \/ j # g.id => streams'[q][j] = streams[q][j]
  /\ \A h \in Handle \ {g} :
       /\ object'[h] = object[h] /\ task'[h] = task[h]
       /\ rd'[h] \in {rd[h], "idle"} /\ wr'[h] \in {wr[h], "idle"}
  /\ conn' = conn

LEMMA SoloParked ==
  ASSUME Typing, Filed, NoSiblings, AllParked, NEW g \in Handle, Solo(g), Parked(g)'
  PROVE  AllParked'
<1> SUFFICES ASSUME NEW h \in Handle, h # g PROVE Parked(h)'
  BY DEF AllParked
<1>1. (h.peer # g.peer \/ h.id # g.id) /\ h.peer \in Peer /\ h.id \in Id
  BY HandlesAreObjects DEF NoSiblings
<1>2. object[h] # None => /\ object[h] \in Obj
                          /\ object[h].peer = h.peer /\ object[h].id = h.id
  BY TypingTyped DEF Typed, Filed, Owners
<1>3. Bystander(h)
  BY <1>1, <1>2 DEF Bystander, Solo
<1> QED
  BY <1>3, BystanderParked DEF AllParked

(* What the steps of a handle keep of a Shared. *)
LEMMA GrantKeepsSend ==
  ASSUME NEW c \in Flow!Controller, NEW b
  PROVE  Flow!NextWindowUpdate(c, b, 0, FALSE).fc.send_window = c.send_window
BY DEF Flow!NextWindowUpdate, Flow!NextMax, Flow!Controller

LEMMA UpdateStateFacts ==
  ASSUME NEW state \in {"Open", "SendClosed", "RecvClosed", "Closed"}
  PROVE  /\ CanRead(state) => CanRead(UpdateState(state, "SendClosed"))
         /\ CanWrite(state) => CanWrite(UpdateState(state, "RecvClosed"))
         /\ state = "Closed" => UpdateState(state, "SendClosed") = "Closed"
BY DEF CanRead, CanWrite, UpdateState

LEMMA PollWriteParked ==
  ASSUME Typing, Filed, AllParked, NEW h \in Handle, PollWrite(h)
  PROVE  Solo(h) /\ Parked(h)'
<1> DEFINE b == object[h]
           s == shared[b]
<1>0. /\ b \in Obj /\ b # None /\ s \in Shared /\ b.peer = h.peer /\ b.id = h.id
      /\ task[h] = "live" /\ wr[h] \in {"mid", "idle"} /\ Parked(h)
  BY TypingTyped, MuxAssumption
     DEF PollWrite, Typing, Typed, LiveHasShared, Filed, Owners, AllParked
<1>t. Typed /\ wr \in [Handle -> WrStates]
  BY TypingTyped DEF Typing, HandlesTyped
<1>1. UNCHANGED <<streams, conn, object, task, rd>>
  BY DEF PollWrite, registry, driver
<1>2. \/ shared' = shared /\ wr' = [wr EXCEPT ![h] = "idle"]
      \/ shared' = shared /\ wr' = [wr EXCEPT ![h] = "room"]
      \/ /\ shared' = [shared EXCEPT ![b].writer = h] /\ wr' = [wr EXCEPT ![h] = "credit"]
         /\ Up(h.peer) /\ CanWrite(s.state) /\ OutOfCredit(s)
      \/ /\ shared' = [shared EXCEPT ![b].fc = Flow!ConsumeSend(@, 1), ![b].syn_pending = FALSE]
         /\ wr' = [wr EXCEPT ![h] = "idle"]
  BY DEF PollWrite, FailWrite, AwaitRoom, AwaitCredit, SendData
<1>3. /\ \A o \in Obj \ {b} : shared'[o] = shared[o]
      /\ shared'[b].buffer = s.buffer /\ shared'[b].state = s.state
      /\ shared'[b].reader = s.reader
  BY <1>0, <1>2, <1>t DEF Typed, Shared
<1>4. Solo(h)
  BY <1>0, <1>1, <1>2, <1>3, <1>t DEF Solo
<1>5. wr'[h] \in {"idle", "room", "credit"}
  BY <1>2, <1>t
<1>6. wr'[h] = "credit" => /\ shared'[b].writer = h /\ shared'[b].fc.send_window = 0
                           /\ CanWrite(shared'[b].state) /\ Up(h.peer)
  <2>1. wr'[h] = "credit" => /\ shared' = [shared EXCEPT ![b].writer = h]
                             /\ Up(h.peer) /\ CanWrite(s.state) /\ OutOfCredit(s)
    BY <1>2, <1>t
  <2>2. shared' = [shared EXCEPT ![b].writer = h] =>
          shared'[b].writer = h /\ shared'[b].fc = s.fc
    BY <1>0, <1>t DEF Typed, Shared
  <2> QED
    BY <1>3, <2>1, <2>2 DEF OutOfCredit
<1> HIDE DEF s
<1>7. Parked(h)'
  BY <1>0, <1>1, <1>3, <1>5, <1>6 DEF Parked, Up, s
<1> QED
  BY <1>4, <1>7

LEMMA PollReadParked ==
  ASSUME Typing, Filed, AllParked, NEW h \in Handle, PollRead(h)
  PROVE  Solo(h) /\ Parked(h)'
<1> DEFINE b == object[h]
           s == shared[b]
           fc == Flow!NextWindowUpdate(s.fc, s.buffer, 0, FALSE).fc
<1>0. /\ b \in Obj /\ b # None /\ s \in Shared /\ b.peer = h.peer /\ b.id = h.id
      /\ task[h] \in {"live", "half"} /\ rd[h] = "idle" /\ Parked(h)
  BY TypingTyped, MuxAssumption
     DEF PollRead, Typing, Typed, LiveHasShared, Filed, Owners, AllParked
<1>t. Typed /\ rd \in [Handle -> RdStates]
  BY TypingTyped DEF Typing, HandlesTyped
<1>1. UNCHANGED <<streams, conn, object, task, wr>>
  BY DEF PollRead, registry, driver
<1>2. fc.send_window = s.fc.send_window
  BY <1>0, GrantKeepsSend DEF Shared
<1> HIDE DEF fc
<1>3. PICK g \in {s, [s EXCEPT !.fc = fc]} :
        \/ shared' = [shared EXCEPT ![b] = [g EXCEPT !.buffer = @ - 1]] /\ rd' = rd
        \/ shared' = shared /\ rd' = [rd EXCEPT ![h] = "eof"]
        \/ /\ shared' = [shared EXCEPT ![b] = [g EXCEPT !.reader = h]]
           /\ rd' = [rd EXCEPT ![h] = "parked"] /\ ~(s.buffer > 0) /\ CanRead(s.state)
  BY DEF PollRead, fc
<1>4. /\ g.state = s.state /\ g.writer = s.writer /\ g.buffer = s.buffer
      /\ g.fc.send_window = s.fc.send_window /\ DOMAIN g = DOMAIN s
  BY <1>0, <1>2, <1>3 DEF Shared
<1>5. \E r : /\ shared' = [shared EXCEPT ![b] = r]
             /\ r.state = s.state /\ r.writer = s.writer
             /\ r.fc.send_window = s.fc.send_window
             /\ \/ rd' = rd \/ rd' = [rd EXCEPT ![h] = "eof"]
                \/ /\ r.reader = h /\ r.buffer = s.buffer
                   /\ rd' = [rd EXCEPT ![h] = "parked"] /\ ~(s.buffer > 0) /\ CanRead(s.state)
  <2>1. CASE shared' = shared /\ rd' = [rd EXCEPT ![h] = "eof"]
    <3>1. shared' = [shared EXCEPT ![b] = s]
      BY <1>t, <2>1 DEF Typed
    <3> QED
      BY <2>1, <3>1
  <2>2. CASE shared' # shared \/ rd' # [rd EXCEPT ![h] = "eof"]
    <3>1. s.buffer \in Nat /\ DOMAIN g = {"state", "fc", "buffer", "activated", "syn_pending",
                                          "claimed", "reader", "writer"}
      BY <1>0, <1>4 DEF Shared
    <3> HIDE DEF s
    <3>2. /\ [g EXCEPT !.buffer = @ - 1].state = g.state
          /\ [g EXCEPT !.buffer = @ - 1].writer = g.writer
          /\ [g EXCEPT !.buffer = @ - 1].fc = g.fc
          /\ [g EXCEPT !.reader = h].state = g.state /\ [g EXCEPT !.reader = h].writer = g.writer
          /\ [g EXCEPT !.reader = h].fc = g.fc /\ [g EXCEPT !.reader = h].buffer = g.buffer
          /\ [g EXCEPT !.reader = h].reader = h
      BY <3>1
    <3> QED
      BY <1>3, <1>4, <2>2, <3>2
  <2> QED
    BY <2>1, <2>2
<1>6. /\ \A o \in Obj \ {b} : shared'[o] = shared[o]
      /\ shared'[b].state = s.state /\ shared'[b].writer = s.writer
      /\ shared'[b].fc.send_window = s.fc.send_window
      /\ rd'[h] = "parked" =>
           shared'[b].reader = h /\ shared'[b].buffer = 0 /\ CanRead(s.state)
  <2>1. s.buffer \in Nat
    BY <1>0 DEF Shared
  <2> HIDE DEF s
  <2> QED
    BY <1>0, <1>5, <1>t, <2>1 DEF Typed
<1>7. \A f \in Handle \ {h} : rd'[f] = rd[f]
  BY <1>5, <1>t
<1>8. Solo(h)
  BY <1>0, <1>1, <1>6, <1>7 DEF Solo
<1>9. Parked(h)'
  BY <1>0, <1>1, <1>6 DEF Parked, CanRead
<1> QED
  BY <1>8, <1>9

LEMMA PollFlushParked ==
  ASSUME Typing, Filed, AllParked, NEW h \in Handle, PollFlush(h)
  PROVE  Solo(h) /\ Parked(h)'
<1>0. /\ object[h] \in Obj /\ object[h] # None
      /\ object[h].peer = h.peer /\ object[h].id = h.id /\ Parked(h)
  BY TypingTyped, MuxAssumption
     DEF PollFlush, Typing, Typed, LiveHasShared, Filed, Owners, AllParked
<1>t. Typed /\ wr \in [Handle -> WrStates]
  BY TypingTyped DEF Typing, HandlesTyped
<1>1. UNCHANGED <<streams, conn, object, task, rd, shared>>
  BY DEF PollFlush, registry, driver
<1>2. wr'[h] = "room" /\ \A g \in Handle \ {h} : wr'[g] = wr[g]
  BY <1>t DEF PollFlush
<1>3. Solo(h)
  BY <1>0, <1>1, <1>2 DEF Solo
<1>4. Parked(h)'
  BY <1>0, <1>1, <1>2 DEF Parked
<1> QED
  BY <1>3, <1>4

LEMMA CloseParked ==
  ASSUME Typing, Filed, AllParked, NEW h \in Handle,
         CloseInactive(h) \/ SendClose(h) \/ FinishClose(h)
  PROVE  Solo(h) /\ Parked(h)'
<1> DEFINE b == object[h]
           s == shared[b]
<1>0. /\ b \in Obj /\ b # None /\ s \in Shared /\ b.peer = h.peer /\ b.id = h.id /\ Parked(h)
  BY TypingTyped, MuxAssumption
     DEF CloseInactive, SendClose, FinishClose, Typing, Typed, LiveHasShared, Filed, Owners,
         AllParked
<1>t. Typed
  BY TypingTyped
<1>1. /\ UNCHANGED <<streams, conn, object, rd, wr>>
      /\ \E t \in {"half", "closing"} : task' = [task EXCEPT ![h] = t]
  BY DEF CloseInactive, SendClose, FinishClose, registry, driver
<1>2. \/ shared' = shared
      \/ shared' = [shared EXCEPT ![b].state = UpdateState(@, "SendClosed")]
  BY DEF CloseInactive, SendClose, FinishClose
<1>3. /\ \A o \in Obj \ {b} : shared'[o] = shared[o]
      /\ shared'[b].buffer = s.buffer /\ shared'[b].reader = s.reader
      /\ shared'[b].writer = s.writer
      /\ shared'[b].state \in {s.state, UpdateState(s.state, "SendClosed")}
  BY <1>0, <1>2, <1>t DEF Typed, Shared
<1>4. task'[h] \in {"half", "closing"} /\ \A g \in Handle \ {h} : task'[g] = task[g]
  BY <1>1, <1>t DEF Typed
<1>5. Solo(h)
  BY <1>0, <1>1, <1>3, <1>4 DEF Solo
<1>6. /\ CanRead(s.state) => CanRead(shared'[b].state)
      /\ s.state = "Closed" => shared'[b].state = "Closed"
  BY <1>0, <1>3, UpdateStateFacts DEF Shared
<1>7. Parked(h)'
  BY <1>0, <1>1, <1>3, <1>4, <1>6 DEF Parked
<1> QED
  BY <1>5, <1>7

LEMMA DropParked ==
  ASSUME Typing, AllParked, NEW h \in Handle, DropShared(h) \/ DropSender(h) \/ PollStream(h)
  PROVE  Solo(h) /\ Parked(h)'
<1>t. Typed /\ rd \in [Handle -> RdStates] /\ wr \in [Handle -> WrStates] /\ Parked(h)
  BY TypingTyped DEF Typing, HandlesTyped, AllParked
<1>1. CASE DropShared(h)
  BY <1>1, <1>t DEF DropShared, Solo, Parked, Typed, registry, driver
<1>2. CASE DropSender(h)
  <2>1. Bystander(h)
    BY <1>2, <1>t DEF DropSender, Bystander, Typed, registry, driver
  <2> QED
    BY <1>2, <1>t, <2>1, BystanderParked DEF DropSender, Solo, Typed, registry, driver
<1>3. CASE PollStream(h)
  <2>1. \A g \in Handle : rd'[g] \in {rd[g], "idle"} /\ wr'[g] \in {wr[g], "idle"}
    BY <1>3 DEF PollStream, WakeForRoom, Awake
  <2>2. UNCHANGED <<streams, shared, task, object, conn>>
    BY <1>3 DEF PollStream, registry
  <2> QED
    BY <1>t, <2>1, <2>2, BystanderParked DEF Bystander, Solo
<1> QED
  BY <1>1, <1>2, <1>3

LEMMA NewStreamParked ==
  ASSUME Typing, Filed, AllParked, NEW h \in Handle, NewStream(h)
  PROVE  Solo(h) /\ Parked(h)'
<1>t. Typed /\ Parked(h)
  BY TypingTyped DEF AllParked
<1>0. /\ UNCHANGED <<streams, conn, rd, wr>>
      /\ task[h] = "new" /\ conn[h.peer] # "cleanup" /\ OnlyAt(h.peer, h.id)
  BY Zenon, NewStreamKept DEF NewStream, driver
<1>1. \A g \in Handle \ {h} : object'[g] = object[g] /\ task'[g] = task[g]
  BY <1>t DEF NewStream, Typed
<1> QED
  BY <1>0, <1>1, <1>t DEF Solo, Parked, OnlyAt

LEMMA PollActivateParked ==
  ASSUME Typing, Filed, AllParked, NEW h \in Handle, PollActivate(h)
  PROVE  Solo(h) /\ Parked(h)'
<1> DEFINE p == h.peer
           i == h.id
           b == object[h]
           s == shared[b]
<1>0. /\ b \in Obj /\ b # None /\ s \in Shared /\ p \in Peer /\ i \in Id
      /\ b.peer = p /\ b.id = i
      /\ task[h] = "live" /\ task' = task /\ conn' = conn /\ rd' = rd /\ Parked(h)
  BY TypingTyped, HandlesAreObjects, MuxAssumption
     DEF PollActivate, driver, Typing, Typed, LiveHasShared, Filed, Owners, AllParked
<1>t. Typed /\ wr \in [Handle -> WrStates]
  BY TypingTyped DEF Typing, HandlesTyped
<1>o. OnlyAt(p, i)
  BY PollActivateKept
<1>1. /\ object'[h] = b
      /\ shared'[b].buffer = s.buffer /\ shared'[b].state = s.state /\ shared'[b].reader = s.reader
      /\ streams'[p][i] \in {streams[p][i], b}
      /\ wr'[h] = "mid" \/ (wr'[h] = "slot" /\ Up(p))
      /\ \A g \in Handle \ {h} : object'[g] = object[g] /\ wr'[g] = wr[g]
  <2>1. CASE Adopt(h) /\ streams[p][i] # None
    <3>1. streams[p][i] = b
      BY <1>0, <2>1 DEF Parked, Filed, RegistryConsistent
    <3>2. /\ object' = [object EXCEPT ![h] = b] /\ wr' = [wr EXCEPT ![h] = "mid"]
          /\ streams' = streams
          /\ shared' = [shared EXCEPT ![b] = [[s EXCEPT !.activated = TRUE]
                                                EXCEPT !.claimed = TRUE]]
      BY <2>1, <3>1 DEF Adopt
    <3> QED
      BY <1>0, <1>t, <3>2 DEF Typed, Shared
  <2>2. CASE ClaimSlot(h)
    <3>1. /\ object' = object /\ wr' = [wr EXCEPT ![h] = "mid"]
          /\ streams' = [streams EXCEPT ![p][i] = b]
          /\ shared' = [shared EXCEPT ![b] = [[s EXCEPT !.activated = TRUE]
                                                EXCEPT !.syn_pending = TRUE]]
      BY <2>2 DEF ClaimSlot
    <3> QED
      BY <1>0, <1>t, <3>1 DEF Typed, Shared
  <2>3. CASE (AwaitSlot(h) /\ Up(p)) \/ Proceed(h)
    BY <1>0, <1>t, <2>3 DEF AwaitSlot, Proceed
  <2> QED
    BY <2>1, <2>2, <2>3 DEF PollActivate
<1> HIDE DEF s
<1>2. Solo(h)
  BY <1>0, <1>1, <1>o DEF Solo, OnlyAt
<1>3. Parked(h)'
  BY <1>0, <1>1 DEF Parked, Up, s
<1> QED
  BY <1>2, <1>3

LEMMA ReapStreamParked ==
  ASSUME Typing, Filed, AllParked, NEW h \in Handle, ReapStream(h)
  PROVE  Solo(h) /\ Parked(h)'
<1>t. Typed /\ Parked(h)
  BY TypingTyped DEF AllParked
<1>0. /\ UNCHANGED <<object, conn, rd>> /\ task' = [task EXCEPT ![h] = "reaped"]
      /\ h.peer \in Peer /\ h.id \in Id /\ conn[h.peer] # "cleanup"
  BY HandlesAreObjects DEF ReapStream, driver, Up
<1>1. OnlyAt(h.peer, h.id)
  BY ReapStreamKept
<1>2. /\ \A g \in Handle : wr'[g] \in {wr[g], "idle"}
      /\ \/ shared' = shared
         \/ /\ ~HasLiveHandle(streams[h.peer][h.id]) /\ streams[h.peer][h.id] # None
            /\ shared' = [shared EXCEPT ![streams[h.peer][h.id]] = NewShared]
  BY DEF ReapStream, Forget, Release, Awake
<1>3. object[h] # None => shared'[object[h]] = shared[object[h]]
  BY <1>2, <1>t DEF Typed, HasLiveHandle
<1>4. Bystander(h)
  BY <1>0, <1>2, <1>3, <1>t DEF Bystander, Typed
<1> QED
  BY <1>0, <1>1, <1>2, <1>4, <1>t, BystanderParked DEF Solo, OnlyAt, Typed

(* The steps of a driver. *)
LEMMA DriverBystanders ==
  ASSUME Typing, AllParked, NEW p \in Peer,
         \/ SendGoAway(p) \/ SendPending(p) \/ TakeOwed(p) \/ IgnoreFrame(p)
         \/ OnGoAway(p) \/ SocketClosed(p) \/ Fail(p)
  PROVE  AllParked'
<1>0. conn \in [Peer -> ConnStates]
  BY DEF Typing, FramesTyped
<1>1. UNCHANGED <<object, task, shared, streams>>
  BY DEF SendGoAway, SendPending, TakeOwed, IgnoreFrame, Receives, OnGoAway, SocketClosed, Fail,
         CloseReceivers, registry, handles
<1>2. \A h \in Handle : rd'[h] \in {rd[h], "idle"} /\ wr'[h] \in {wr[h], "idle"}
  <2>1. CASE SendGoAway(p) \/ SendPending(p) \/ TakeOwed(p) \/ IgnoreFrame(p)
    BY <2>1 DEF SendGoAway, SendPending, TakeOwed, IgnoreFrame, handles, Awake
  <2>2. CASE OnGoAway(p) \/ SocketClosed(p) \/ Fail(p)
    BY <2>2 DEF OnGoAway, SocketClosed, Fail, CloseReceivers, WakeForRoom, Awake
  <2> QED
    BY <2>1, <2>2
<1>3. \A q \in Peer : conn'[q] = "cleanup" => conn[q] = "cleanup"
  <2>1. conn' = conn \/ \E c \in {"terminated", "failed"} : conn' = [conn EXCEPT ![p] = c]
    BY DEF SendGoAway, SendPending, TakeOwed, IgnoreFrame, OnGoAway, SocketClosed, Fail,
           CloseReceivers
  <2> QED
    BY <1>0, <2>1
<1> SUFFICES ASSUME NEW h \in Handle PROVE Bystander(h)
  BY BystanderParked DEF AllParked
<1> QED
  BY <1>1, <1>2, <1>3, HandlesAreObjects DEF Bystander

(* A frame wakes whoever waits for what it changes. *)
LEMMA OnDataParked ==
  ASSUME Typing, Filed, AllParked, NEW p \in Peer, OnData(p)
  PROVE  AllParked'
<1> DEFINE f == Head(wire[p])
           i == f.id
           o == Addressee(p, i)
           s == Admitted(p, i)
           overrun == f.len > s.fc.receive_window
<1>t. Typed
  BY TypingTyped
<1>0. /\ i \in Id /\ None \notin Obj /\ UNCHANGED <<object, task, wr>> /\ conn[p] = "active"
      /\ \A q \in Peer : conn'[q] = "cleanup" => conn[q] = "cleanup" /\ q # p
  <2>1. f \in StreamFrame
    BY ReceivedFrame DEF OnData, Receives, Typing
  <2>2. conn[p] = "active" /\ (conn' = conn \/ conn' = [conn EXCEPT ![p] = "terminating"])
    BY DEF OnData, Terminate
  <2> QED
    BY <2>1, <2>2, MuxAssumption DEF OnData, Receives, StreamFrame, Typing, FramesTyped
<1>1. /\ \A h \in Handle : rd'[h] \in {rd[h], "idle"}
      /\ \A q \in Peer \ {p} : streams'[q] = streams[q]
  BY <1>t DEF OnData, Awake, Typed
<1> SUFFICES ASSUME NEW h \in Handle PROVE Parked(h)'
  BY DEF AllParked
<1>h. h.peer \in Peer /\ h.id \in Id /\ Parked(h)
  BY HandlesAreObjects DEF AllParked
<1>2. CASE object[h] = None \/ shared'[object[h]] = shared[object[h]]
  <2>1. Bystander(h)
    BY <1>0, <1>1, <1>2, <1>h DEF Bystander
  <2> QED
    BY <1>h, <2>1, BystanderParked
<1>3. CASE object[h] # None /\ shared'[object[h]] # shared[object[h]]
  <2>1. /\ Admits(p, f)
        /\ shared' = [shared EXCEPT ![o] = IF overrun THEN s ELSE Deliver(s, f)]
        /\ rd' = IF overrun THEN rd ELSE Awake(rd, {s.reader})
    BY <1>3 DEF OnData
  <2>2. object[h] = o /\ o \in Obj /\ h.peer = p /\ h.id = i
    <3>1. o \in Obj /\ o.peer = p /\ o.id = i
      <4>1. RegistryTyped /\ Owners
        BY DEF Typing, Filed
      <4>2. i \in Id
        BY <1>0
      <4> HIDE DEF i
      <4> QED
        BY <4>1, <4>2, AddresseeOf
    <3> HIDE DEF o, s, overrun
    <3>2. object[h] = o
      BY <1>3, <1>t, <2>1 DEF Typed
    <3> QED
      BY <1>3, <3>1, <3>2 DEF Filed, Owners
  <2>3. s \in {shared[o], [shared[o] EXCEPT !.activated = TRUE]} /\ shared[o] \in Shared
    <3>1. o \in {streams[p][i], inactive[p][i]} /\ o # None
      BY <1>0, <1>3, <2>2 DEF Filed, RegistryConsistent
    <3> QED
      BY Zenon, <1>t, <2>2, <3>1 DEF Addressee, Admitted, Typed
  <2>4. /\ s.buffer = shared[o].buffer /\ s.state = shared[o].state /\ s.reader = shared[o].reader
        /\ s.writer = shared[o].writer /\ s.fc = shared[o].fc /\ s \in Shared
    <3> HIDE DEF s, o
    <3> QED
      BY <2>3 DEF Shared
  <2> HIDE DEF s, o
  <2>5. CASE overrun
    <3>1. shared'[o] = s /\ rd' = rd
      BY <1>t, <2>1, <2>2, <2>5 DEF Typed
    <3> QED
      BY <1>0, <1>h, <2>2, <2>4, <3>1 DEF Parked
  <2>6. CASE ~overrun
    <3>1. shared'[o] = Deliver(s, f) /\ rd' = Awake(rd, {s.reader})
      BY <1>t, <2>1, <2>2, <2>6 DEF Typed
    <3>2. /\ Deliver(s, f).writer = s.writer
          /\ Deliver(s, f).fc.send_window = s.fc.send_window
          /\ CanWrite(s.state) => CanWrite(Deliver(s, f).state)
      <4>1. /\ Deliver(s, f).writer = s.writer
            /\ Deliver(s, f).fc = Flow!ConsumeReceive(s.fc, f.len)
            /\ Deliver(s, f).state \in {s.state, UpdateState(s.state, "RecvClosed")}
        BY <2>4 DEF Deliver, Shared
      <4>2. Flow!ConsumeReceive(s.fc, f.len).send_window = s.fc.send_window
        BY <2>4 DEF Shared, Flow!ConsumeReceive, Flow!Controller
      <4>3. s.state \in {"Open", "SendClosed", "RecvClosed", "Closed"}
        BY <2>4 DEF Shared
      <4> QED
        BY <4>1, <4>2, <4>3, UpdateStateFacts
    <3>3. rd'[h] # "parked"
      BY <1>h, <2>2, <2>4, <3>1 DEF Parked, Awake
    <3> QED
      BY <1>0, <1>h, <2>2, <2>4, <3>1, <3>2, <3>3 DEF Parked
  <2> QED
    BY <2>5, <2>6
<1> QED
  BY <1>2, <1>3

LEMMA OnControlParked ==
  ASSUME Typing, Filed, AllParked, NEW p \in Peer, OnReset(p) \/ OnWindowUpdate(p)
  PROVE  AllParked'
<1> DEFINE o == streams[p][Head(wire[p]).id]
           s == shared[o]
<1>t. Typed
  BY TypingTyped
<1>0. /\ Head(wire[p]).id \in Id /\ UNCHANGED <<object, task, streams, conn>>
      /\ conn[p] = "active"
      /\ o # None => o \in Obj /\ o.peer = p /\ s \in Shared
  <2>1. Head(wire[p]) \in StreamFrame
    BY Zenon, ReceivedFrame DEF OnReset, OnWindowUpdate, Receives, Typing
  <2>2. Head(wire[p]).id \in Id
    BY <2>1 DEF StreamFrame
  <2>3. UNCHANGED <<object, task, streams, conn>> /\ conn[p] = "active"
    BY Zenon DEF OnReset, OnWindowUpdate, Receives
  <2>4. o \in Obj \cup {None}
    BY <1>t, <2>2 DEF Typed
  <2>5. o # None => o.peer = p
    BY <2>2 DEF Filed, Owners
  <2> HIDE DEF o, s
  <2>6. o # None => shared[o] \in Shared
    BY <1>t, <2>4 DEF Typed
  <2> QED
    BY <2>2, <2>3, <2>4, <2>5, <2>6 DEF s
<1>1. \A h \in Handle : rd'[h] \in {rd[h], "idle"} /\ wr'[h] \in {wr[h], "idle"}
  BY Zenon DEF OnReset, OnWindowUpdate, Awake
<1> SUFFICES ASSUME NEW h \in Handle PROVE Parked(h)'
  BY DEF AllParked
<1>h. h.peer \in Peer /\ h.id \in Id /\ Parked(h)
  BY HandlesAreObjects DEF AllParked
<1>2. CASE object[h] = None \/ shared'[object[h]] = shared[object[h]]
  <2>1. Bystander(h)
    BY <1>0, <1>1, <1>2, <1>h DEF Bystander
  <2> QED
    BY <1>h, <2>1, BystanderParked
<1>3. CASE object[h] # None /\ shared'[object[h]] # shared[object[h]]
  <2>1. o # None
    BY Zenon, <1>3 DEF OnReset, OnWindowUpdate
  <2>2. object[h] = o /\ h.peer = p /\ conn'[h.peer] # "cleanup"
    <3>1. \A x \in Obj \ {o} : shared'[x] = shared[x]
      <4>1. PICK r : shared' = [shared EXCEPT ![o] = r]
        BY Zenon, <2>1 DEF OnReset, OnWindowUpdate
      <4> HIDE DEF o
      <4> QED
        BY <1>t, <4>1 DEF Typed
    <3>2. object[h] = o
      BY <1>3, <1>t, <3>1 DEF Typed
    <3>3. object[h].peer = h.peer
      BY <1>3 DEF Filed, Owners
    <3>4. o.peer = p
      BY <1>0, <2>1 DEF Filed, Owners
    <3> HIDE DEF o
    <3> QED
      BY <1>0, <3>2, <3>3, <3>4
  <2>3. CASE OnReset(p)
    <3>1. rd' = Awake(rd, {s.reader}) /\ wr' = Awake(wr, {s.writer})
      BY Zenon, <2>1, <2>3 DEF OnReset
    <3>2. rd'[h] # "parked" /\ wr'[h] # "credit"
      BY Zenon, <1>h, <2>2, <3>1 DEF Parked, Awake
    <3> QED
      BY <2>2, <3>2 DEF Parked
  <2>4. CASE OnWindowUpdate(p)
    <3>1. /\ wr' = Awake(wr, {s.writer}) /\ rd' = rd
          /\ shared' = [shared EXCEPT ![o].fc = Flow!IncreaseSend(@, Head(wire[p]).len),
                                      ![o].writer = None]
      BY Zenon, <2>1, <2>4 DEF OnWindowUpdate
    <3>2. wr'[h] # "credit"
      BY Zenon, <1>h, <2>2, <3>1 DEF Parked, Awake
    <3>3. /\ shared'[o].buffer = s.buffer /\ shared'[o].state = s.state
          /\ shared'[o].reader = s.reader
      BY Zenon, <1>0, <1>t, <2>1, <3>1 DEF Typed, Shared
    <3> QED
      BY Zenon, <1>0, <1>h, <2>2, <3>1, <3>2, <3>3 DEF Parked
  <2> QED
    BY <2>3, <2>4
<1> QED
  BY <1>2, <1>3

(* The teardown closes every Shared a handle holds, and wakes all who wait. *)
LEMMA DropAllStreamsParked ==
  ASSUME Typing, Filed, AllWait, AllParked, NEW p \in Peer, DropAllStreams(p)
  PROVE  AllParked'
<1>t. Typed /\ conn \in [Peer -> ConnStates]
  BY TypingTyped DEF Typing, FramesTyped
<1>0. /\ object' = object /\ task' = task /\ conn[p] = "failed"
      /\ conn' = [conn EXCEPT ![p] = "cleanup"]
      /\ streams' = [streams EXCEPT ![p] = [i \in Id |-> None]]
  BY DEF DropAllStreams
<1> DEFINE drained == Drained(p)
           parked  == {shared[o].reader : o \in drained \ {None}}
                        \cup {shared[o].writer : o \in drained \ {None}}
<1>1. /\ shared' = [o \in Obj |->
                      IF o \in drained
                        THEN [shared[o] EXCEPT !.state = "Closed", !.reader = None, !.writer = None]
                        ELSE shared[o]]
      /\ rd' = Awake(rd, parked) /\ wr' = Awake(wr, parked \cup slot_wakers[p])
  BY DEF DropAllStreams
<1>2. \A o \in drained : o # None => o.peer = p
  BY DEF Drained, Filed, Owners
<1> SUFFICES ASSUME NEW h \in Handle PROVE Parked(h)'
  BY DEF AllParked
<1>h. h.peer \in Peer /\ h.id \in Id /\ Parked(h)
  BY HandlesAreObjects DEF AllParked
<1>3. CASE h.peer # p
  <2>1. object[h] # None => object[h] \in Obj /\ object[h] \notin drained
    BY <1>2, <1>3, <1>t DEF Typed, Filed, Owners
  <2> HIDE DEF drained, parked
  <2>2. Bystander(h)
    BY <1>0, <1>1, <1>3, <1>h, <1>t, <2>1 DEF Bystander, Awake, Typed
  <2> QED
    BY <1>h, <2>2, BystanderParked
<1>4. CASE h.peer = p
  <2>1. object[h] # None => object[h] \in Obj /\ object[h] \in drained
    <3>1. object[h] # None => object[h] \in {streams[p][h.id], inactive[p][h.id]}
      BY <1>0, <1>4 DEF Filed, RegistryConsistent
    <3>2. {streams[p][h.id], inactive[p][h.id]} \subseteq drained
      BY <1>h DEF Drained
    <3>3. object[h] \in Obj \cup {None}
      BY <1>t DEF Typed
    <3> HIDE DEF drained
    <3> QED
      BY <3>1, <3>2, <3>3
  <2>2. object[h] # None => shared'[object[h]].state = "Closed"
    <3> HIDE DEF drained, parked
    <3> QED
      BY <1>1, <1>t, <2>1 DEF Typed, Shared
  <2>3. rd'[h] # "parked" /\ wr'[h] # "credit"
    <3>1. rd[h] = "parked" => h \in parked
      BY <1>h, <2>1 DEF Parked
    <3>2. wr[h] = "credit" => h \in parked
      BY <1>h, <2>1 DEF Parked
    <3> HIDE DEF drained, parked
    <3> QED
      BY <1>1, <3>1, <3>2 DEF Awake
  <2>4. wr'[h] # "slot"
    <3>1. wr[h] = "slot" => h \in slot_wakers[p]
      BY <1>4 DEF AllWait, Waiting
    <3> HIDE DEF drained, parked
    <3> QED
      BY <1>1, <3>1 DEF Awake
  <2>5. streams'[h.peer][h.id] = None
    BY <1>0, <1>4, <1>h, <1>t DEF Typed
  <2> QED
    BY <1>0, <2>2, <2>3, <2>4, <2>5 DEF Parked
<1> QED
  BY <1>3, <1>4

LEMMA InitParked == Init => AllParked
<1> SUFFICES ASSUME Init, NEW h \in Handle PROVE Parked(h)
  BY DEF AllParked
<1> QED
  BY HandlesAreObjects DEF Init, Parked

LEMMA NextParked ==
  ASSUME NoSiblings, Typing, Filed, AllWait, AllParked, [Next]_vars
  PROVE  AllParked'
<1>1. ASSUME NEW p \in Peer, Driver(p) PROVE AllParked'
  BY <1>1, DriverBystanders, OnDataParked, OnControlParked, DropAllStreamsParked DEF Driver
<1>2. ASSUME NEW h \in Handle,
             \/ NewStream(h) \/ PollActivate(h) \/ PollWrite(h) \/ PollRead(h)
             \/ PollFlush(h) \/ CloseInactive(h) \/ SendClose(h) \/ FinishClose(h)
             \/ DropShared(h) \/ DropSender(h) \/ PollStream(h) \/ ReapStream(h)
      PROVE  AllParked'
  <2>1. Solo(h) /\ Parked(h)'
    BY <1>2, NewStreamParked, PollActivateParked, PollWriteParked, PollReadParked, PollFlushParked,
       CloseParked, DropParked, ReapStreamParked
  <2> QED
    BY <2>1, SoloParked
<1>3. CASE UNCHANGED vars
  <2>1. \A h \in Handle : Bystander(h)
    BY <1>3 DEF vars, registry, handles, driver, Bystander
  <2> QED
    BY <2>1, BystanderParked DEF AllParked
<1> QED
  BY <1>1, <1>2, <1>3 DEF Next

LEMMA ParkedInvariant == NoSiblings => (Spec => []AllParked)
<1> SUFFICES ASSUME NoSiblings PROVE Spec => []AllParked
  OBVIOUS
<1>1. Typing /\ Filed /\ AllWait /\ AllParked /\ [Next]_vars => AllParked'
  BY NextParked
<1> QED
  BY <1>1, InitFiled, NextFiled, InitWaits, NextWaits, InitParked, TypingInvariant, PTL DEF Spec

(* Where an id has one handle at each peer: whoever is parked has reason to *)
(* be, and its waker lies where the driver will find it.                    *)
THEOREM SpecNoLostWake == NoSiblings => (Spec => []NoLostWake)
<1> SUFFICES ASSUME NoSiblings PROVE Spec => []NoLostWake
  OBVIOUS
<1>1. AllParked => NoLostWake
  BY DEF AllParked, Parked, NoLostWake
<1> QED
  BY <1>1, ParkedInvariant, PTL

(* And whoever parks before or during the teardown is woken by it.          *)
THEOREM SpecNobodyLeftParked == NoSiblings => (Spec => []NobodyLeftParked)
<1> SUFFICES ASSUME NoSiblings PROVE Spec => []NobodyLeftParked
  OBVIOUS
<1>1. AllParked => NobodyLeftParked
  BY DEF AllParked, Parked, NobodyLeftParked
<1> QED
  BY <1>1, ParkedInvariant, PTL

=============================================================================
