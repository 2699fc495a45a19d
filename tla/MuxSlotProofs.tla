---------------------------- MODULE MuxSlotProofs ----------------------------
(***************************************************************************)
(* The end of a stream in the registry, for every set of handles, ids and  *)
(* limits: a slot is given back once its handles are gone, and not before  *)
(* a stream of the peer has been claimed.                                  *)
(***************************************************************************)
EXTENDS MuxProofs

Leaving == {"dropping", "dropped"}

(* Of the handles and entries of an id: who holds a Shared has claimed it,  *)
Claimants(p, i) ==
  \A h \in HandlesOf(p, i) : object[h] # None => shared[object[h]].claimed

(* a claimed entry, on the wire or not, has somebody who will let it go,    *)
Attended(p, i) ==
  \A o \in {streams[p][i], inactive[p][i]} :
    o # None /\ shared[o].claimed =>
      \E h \in HandlesOf(p, i) : object[h] = o \/ task[h] \in Leaving

(* and what the end of a handle is to remove is still there.                *)
Awaited(p, i) ==
  \A h \in HandlesOf(p, i) :
    task[h] \in Leaving /\ conn[p] # "cleanup" =>
      \E o \in {streams[p][i], inactive[p][i]} : o # None /\ shared[o].claimed

NoSiblings == \A g, h \in Handle : g.peer = h.peer /\ g.id = h.id => g = h

(* Most steps claim nothing, file nothing and finish no drop. *)
Gentle ==
  /\ UNCHANGED <<streams, inactive>>
  /\ \A o \in Obj : shared'[o].claimed = shared[o].claimed
  /\ \A h \in Handle :
       /\ object'[h] = object[h] \/ (object'[h] = None /\ task'[h] \in Leaving)
       /\ task[h] \in Leaving => task'[h] \in Leaving
       /\ task'[h] \in Leaving => task[h] \in Leaving \/ object[h] # None
  /\ \A p \in Peer : conn[p] = "cleanup" => conn'[p] = "cleanup"

LEMMA GentleKeeps ==
  ASSUME Typing, Filed, Gentle, NEW p \in Peer, NEW i \in Id, Claimants(p, i)
  PROVE  /\ Claimants(p, i)'
         /\ Attended(p, i) => Attended(p, i)'
         /\ Awaited(p, i) => Awaited(p, i)'
<1> USE DEF Gentle
<1>0. /\ streams[p][i] \in Obj \cup {None} /\ inactive[p][i] \in Obj \cup {None}
      /\ \A h \in Handle : object[h] \in Obj \cup {None}
      /\ HandlesOf(p, i) \subseteq Handle
  BY DEF Typing, RegistryTyped, HandlesTyped, HandlesOf
<1>1. Claimants(p, i)'
  BY <1>0 DEF Claimants
<1>2. ASSUME Attended(p, i) PROVE Attended(p, i)'
  BY <1>0, <1>2 DEF Attended
<1>3. ASSUME Awaited(p, i) PROVE Awaited(p, i)'
  <2> SUFFICES ASSUME NEW h \in HandlesOf(p, i), task'[h] \in Leaving, conn'[p] # "cleanup"
               PROVE  \E o \in {streams[p][i], inactive[p][i]} : o # None /\ shared'[o].claimed
    BY DEF Awaited
  <2>1. conn[p] # "cleanup" /\ h \in Handle /\ h.peer = p /\ h.id = i
    BY DEF HandlesOf
  <2>2. \E o \in {streams[p][i], inactive[p][i]} : o # None /\ shared[o].claimed
    <3>1. CASE task[h] \in Leaving
      BY <1>3, <2>1, <3>1 DEF Awaited
    <3>2. CASE object[h] # None
      BY <2>1, <3>2 DEF Claimants, Filed, RegistryConsistent
    <3> QED
      BY <2>1, <3>1, <3>2
  <2> QED
    BY <1>0, <2>2
<1> QED
  BY <1>1, <1>2, <1>3

LEMMA HandleStepsGentle ==
  ASSUME Typing, NEW h \in Handle,
         \/ PollWrite(h) \/ PollRead(h) \/ PollFlush(h) \/ CloseInactive(h)
         \/ SendClose(h) \/ FinishClose(h) \/ DropShared(h) \/ DropSender(h) \/ PollStream(h)
  PROVE  Gentle
<1> USE DEF Gentle, Leaving
<1>0. /\ task[h] \in {"live", "closing", "half"} => object[h] \in Obj /\ object[h] # None
      /\ \A o \in Obj : shared[o] \in Shared
      /\ shared \in [Obj -> Shared] /\ task \in [Handle -> TaskStates]
      /\ object \in [Handle -> Obj \cup {None}]
  BY MuxAssumption DEF Typing, HandlesTyped, LiveHasShared
<1>1. CASE PollWrite(h)
  <2>1. \/ shared' = shared
        \/ shared' = [shared EXCEPT ![object[h]].writer = h]
        \/ shared' = [shared EXCEPT ![object[h]].fc = Flow!ConsumeSend(@, 1),
                                    ![object[h]].syn_pending = FALSE]
    BY <1>1 DEF PollWrite, FailWrite, AwaitRoom, AwaitCredit, SendData
  <2>2. \A o \in Obj : shared'[o].claimed = shared[o].claimed
    BY <1>0, <1>1, <2>1 DEF Shared, PollWrite
  <2> QED
    BY <1>1, <2>2 DEF PollWrite, registry, driver
<1>2. CASE PollRead(h)
  <2> DEFINE b == object[h]
             s == shared[b]
             fc == Flow!NextWindowUpdate(s.fc, s.buffer, 0, FALSE).fc
  <2>1. PICK g \in {s, [s EXCEPT !.fc = fc]} :
          \/ shared' = [shared EXCEPT ![b] = [g EXCEPT !.buffer = @ - 1]]
          \/ shared' = shared
          \/ shared' = [shared EXCEPT ![b] = [g EXCEPT !.reader = h]]
    BY <1>2 DEF PollRead
  <2> HIDE DEF fc
  <2>2. b \in Obj /\ s \in Shared
    BY <1>0, <1>2 DEF PollRead
  <2>3. g.claimed = s.claimed /\ DOMAIN g = DOMAIN s
    BY <2>1, <2>2 DEF Shared
  <2>4. /\ [g EXCEPT !.buffer = @ - 1].claimed = s.claimed
        /\ [g EXCEPT !.reader = h].claimed = s.claimed
    BY <2>2, <2>3 DEF Shared
  <2> HIDE DEF s
  <2>5. shared' = shared \/ \E r : shared' = [shared EXCEPT ![b] = r] /\ r.claimed = s.claimed
    BY <2>1, <2>4
  <2>6. \A o \in Obj : shared'[o].claimed = shared[o].claimed
    BY <1>0, <2>2, <2>5 DEF s
  <2> QED
    BY <1>2, <2>6 DEF PollRead, registry, driver
<1>3. CASE CloseInactive(h) \/ FinishClose(h)
  <2>1. shared' = [shared EXCEPT ![object[h]].state = UpdateState(@, "SendClosed")]
    BY <1>3 DEF CloseInactive, FinishClose
  <2>2. \A o \in Obj : shared'[o].claimed = shared[o].claimed
    BY <1>0, <1>3, <2>1 DEF Shared, CloseInactive, FinishClose
  <2> QED
    BY <1>0, <1>3, <2>2 DEF CloseInactive, FinishClose, registry, driver
<1>4. CASE PollFlush(h) \/ SendClose(h) \/ DropShared(h) \/ DropSender(h)
  BY <1>0, <1>4 DEF PollFlush, SendClose, DropShared, DropSender, registry, driver
<1>5. CASE PollStream(h)
  BY <1>5 DEF PollStream, WakeForRoom, registry
<1> QED
  BY <1>1, <1>2, <1>3, <1>4, <1>5

LEMMA DriverStepsGentle ==
  ASSUME Typing, NEW p \in Peer,
         \/ SendGoAway(p) \/ SendPending(p) \/ TakeOwed(p) \/ IgnoreFrame(p)
         \/ OnReset(p) \/ OnWindowUpdate(p)
         \/ OnGoAway(p) \/ SocketClosed(p) \/ Fail(p)
  PROVE  Gentle
<1> USE DEF Gentle
<1>0. /\ \A o \in Obj : shared[o] \in Shared
      /\ shared \in [Obj -> Shared] /\ conn \in [Peer -> ConnStates]
  BY DEF Typing, FramesTyped
<1>1. CASE SendGoAway(p) \/ SendPending(p) \/ TakeOwed(p)
  BY <1>0, <1>1 DEF SendGoAway, SendPending, TakeOwed, registry, handles
<1>2. CASE IgnoreFrame(p)
  BY <1>2 DEF IgnoreFrame, Receives
<1>3. CASE OnReset(p) \/ OnWindowUpdate(p)
  <2> DEFINE o == streams[p][Head(wire[p]).id]
  <2>0. Head(wire[p]).id \in Id
    BY Zenon, <1>3, ReceivedFrame DEF OnReset, OnWindowUpdate, Receives, StreamFrame, Typing
  <2>1. o # None => o \in Obj
    BY <2>0 DEF Typing, RegistryTyped
  <2>2. o # None => shared[o] \in Shared
    BY <1>0, <2>1
  <2> DEFINE reset == [[[shared[o] EXCEPT !.state = "Closed"] EXCEPT !.reader = None]
                        EXCEPT !.writer = None]
             fc == Flow!IncreaseSend(shared[o].fc, Head(wire[p]).len)
             update == [[shared[o] EXCEPT !.fc = fc] EXCEPT !.writer = None]
  <2>3. \/ shared' = shared
        \/ o # None /\ shared' = [shared EXCEPT ![o] = reset]
        \/ o # None /\ shared' = [shared EXCEPT ![o] = update]
    <3> HIDE DEF fc
    <3> QED
      BY Zenon, <1>3 DEF OnReset, OnWindowUpdate, fc
  <2>4. o # None => reset.claimed = shared[o].claimed /\ update.claimed = shared[o].claimed
    <3> HIDE DEF fc
    <3> QED
      BY <2>2 DEF Shared
  <2> HIDE DEF reset, update
  <2>5. \A x \in Obj : shared'[x].claimed = shared[x].claimed
    BY <1>0, <2>1, <2>3, <2>4
  <2> QED
    BY Zenon, <1>3, <2>5 DEF OnReset, OnWindowUpdate, Receives
<1>4. CASE OnGoAway(p) \/ SocketClosed(p) \/ Fail(p)
  BY <1>0, <1>4 DEF OnGoAway, SocketClosed, Fail, CloseReceivers, Up, registry
<1> QED
  BY <1>1, <1>2, <1>3, <1>4

-----------------------------------------------------------------------------
(* The steps that file, claim, reap or deliver do so at one id.             *)
Typed ==
  /\ streams \in [Peer -> [Id -> Obj \cup {None}]]
  /\ inactive \in [Peer -> [Id -> Obj \cup {None}]]
  /\ object \in [Handle -> Obj \cup {None}]
  /\ task \in [Handle -> TaskStates] /\ shared \in [Obj -> Shared]

LEMMA TypingTyped == Typing => Typed
BY DEF Typing, Typed, RegistryTyped, HandlesTyped

OnlyAt(p, i) ==
  /\ \A q \in Peer, j \in Id :
       q # p \/ j # i => streams'[q][j] = streams[q][j] /\ inactive'[q][j] = inactive[q][j]
  /\ \A o \in Obj : o.peer # p \/ o.id # i => shared'[o] = shared[o]
  /\ \A h \in Handle : h.peer # p \/ h.id # i => object'[h] = object[h] /\ task'[h] = task[h]
  /\ \A q \in Peer : conn[q] = "cleanup" => conn'[q] = "cleanup"

LEMMA OthersKept ==
  ASSUME Typing, Filed, NEW p, NEW i, OnlyAt(p, i),
         NEW q \in Peer, NEW j \in Id, q # p \/ j # i
  PROVE  /\ Claimants(q, j) => Claimants(q, j)'
         /\ Attended(q, j) => Attended(q, j)'
         /\ Awaited(q, j) => Awaited(q, j)'
<1>1. /\ streams'[q][j] = streams[q][j] /\ inactive'[q][j] = inactive[q][j]
      /\ conn'[q] # "cleanup" => conn[q] # "cleanup"
  BY DEF OnlyAt
<1>2. \A o \in {streams[q][j], inactive[q][j]} : o # None => shared'[o] = shared[o]
  BY TypingTyped DEF OnlyAt, Filed, Owners, Typed
<1>3. ASSUME NEW h \in HandlesOf(q, j)
      PROVE  /\ object'[h] = object[h] /\ task'[h] = task[h]
             /\ object[h] # None => shared'[object[h]] = shared[object[h]]
  BY <1>3, TypingTyped DEF OnlyAt, Filed, Owners, Typed, HandlesOf
<1>4. Claimants(q, j) => Claimants(q, j)'
  BY <1>3 DEF Claimants
<1>5. Attended(q, j) => Attended(q, j)'
  BY <1>1, <1>2, <1>3 DEF Attended
<1>6. Awaited(q, j) => Awaited(q, j)'
  BY <1>1, <1>2, <1>3 DEF Awaited
<1> QED
  BY <1>4, <1>5, <1>6

(* What a step must show at its own id. *)
Kept(p, i) ==
  /\ Claimants(p, i) /\ Attended(p, i) => Claimants(p, i)' /\ Attended(p, i)'
  /\ NoSiblings /\ Claimants(p, i) /\ Awaited(p, i) => Awaited(p, i)'

LEMMA NewStreamKept ==
  ASSUME Typing, Filed, NEW h \in Handle, NewStream(h)
  PROVE  OnlyAt(h.peer, h.id) /\ Kept(h.peer, h.id)
<1> DEFINE p == h.peer
           i == h.id
           existing == IF streams[p][i] # None THEN streams[p][i] ELSE inactive[p][i]
           o == IF existing # None THEN existing ELSE h
<1>0. /\ p \in Peer /\ i \in Id /\ h \in Obj /\ None \notin Obj
      /\ task[h] = "new" /\ task' = [task EXCEPT ![h] = "live"] /\ conn[p] # "cleanup"
      /\ streams' = streams /\ conn' = conn /\ object' = [object EXCEPT ![h] = o]
  BY HandlesAreObjects, MuxAssumption DEF NewStream, driver
<1>t. Typed
  BY TypingTyped
<1>1. o \in Obj /\ o.peer = p /\ o.id = i /\ o # None
  <2>1. \A x \in {streams[p][i], inactive[p][i]} :
          x # None => x \in Obj /\ x.peer = p /\ x.id = i
    BY <1>0, <1>t DEF Typed, Filed, Owners
  <2> QED
    BY <1>0, <2>1
<1>2. /\ shared'[o].claimed /\ \A x \in Obj \ {o} : shared'[x] = shared[x]
      /\ inactive' = inactive \/ (existing = None /\ inactive' = [inactive EXCEPT ![p][i] = h])
  <2>1. CASE existing # None
    <3>1. /\ inactive' = inactive /\ o = existing
          /\ shared' = [shared EXCEPT ![existing].claimed = TRUE]
      BY <2>1 DEF NewStream
    <3> HIDE DEF existing, o
    <3> QED
      BY <1>1, <1>t, <3>1 DEF Typed, Shared
  <2>2. CASE existing = None
    <3>1. /\ inactive' = [inactive EXCEPT ![p][i] = h] /\ o = h
          /\ shared' = [shared EXCEPT ![h] = [NewShared EXCEPT !.claimed = TRUE]]
      BY <2>2 DEF NewStream
    <3> HIDE DEF existing, o
    <3> QED
      BY <1>0, <1>t, <2>2, <3>1 DEF Typed, NewShared
  <2> QED
    BY <2>1, <2>2
<1>3. o \in {streams'[p][i], inactive'[p][i]}
      /\ \A x \in {streams'[p][i], inactive'[p][i]} : x # None => x = o
  <2>1. streams[p][i] = None \/ inactive[p][i] = None
    BY <1>0 DEF Filed, RegistryConsistent
  <2>2. CASE existing # None
    <3>1. inactive' = inactive /\ streams' = streams
      BY <1>0, <1>2, <2>2
    <3> QED
      BY <2>1, <2>2, <3>1
  <2>3. CASE existing = None
    <3>1. streams[p][i] = None /\ inactive[p][i] = None /\ o = h
      BY <2>3
    <3>2. inactive' = [inactive EXCEPT ![p][i] = h]
      BY <2>3 DEF NewStream
    <3>3. streams'[p][i] = None /\ inactive'[p][i] = h
      BY <1>0, <1>t, <3>1, <3>2 DEF Typed
    <3> QED
      BY <3>1, <3>3
  <2> QED
    BY <2>2, <2>3
<1> HIDE DEF o
<1>4. OnlyAt(p, i)
  BY <1>0, <1>1, <1>2, <1>t DEF OnlyAt, Typed
<1>5. object'[h] = o /\ h \in HandlesOf(p, i) /\ task'[h] \notin Leaving
  BY <1>0, <1>t DEF Typed, HandlesOf, Leaving
<1>6. Claimants(p, i) => Claimants(p, i)'
  BY <1>0, <1>2, <1>t DEF Claimants, Typed, HandlesOf
<1>7. Attended(p, i)'
  BY <1>3, <1>5 DEF Attended
<1>8. Awaited(p, i)'
  BY <1>1, <1>2, <1>3 DEF Awaited
<1> QED
  BY <1>4, <1>6, <1>7, <1>8 DEF Kept

LEMMA PollActivateKept ==
  ASSUME Typing, Filed, NEW h \in Handle, PollActivate(h)
  PROVE  OnlyAt(h.peer, h.id) /\ Kept(h.peer, h.id)
<1> DEFINE p == h.peer
           i == h.id
           b == object[h]
<1>0. /\ p \in Peer /\ i \in Id /\ None \notin Obj
      /\ task[h] = "live" /\ task' = task /\ conn' = conn
      /\ b \in Obj /\ b.peer = p /\ b.id = i /\ h \in HandlesOf(p, i)
  BY HandlesAreObjects, MuxAssumption
     DEF PollActivate, driver, Typing, HandlesTyped, LiveHasShared, Filed, Owners, HandlesOf
<1>t. Typed
  BY TypingTyped
<1>c. /\ streams[p][i] = None \/ inactive[p][i] = None
      /\ conn[p] # "cleanup" => b \in {streams[p][i], inactive[p][i]}
  BY <1>0 DEF Filed, RegistryConsistent
<1>1. CASE Adopt(h) /\ streams[p][i] # None
  <2> DEFINE o == streams[p][i]
  <2>0. o \in Obj /\ o.peer = p /\ o.id = i /\ inactive[p][i] = None
    BY <1>0, <1>1, <1>t, <1>c DEF Typed, Filed, Owners
  <2>1. /\ object' = [object EXCEPT ![h] = o] /\ streams' = streams
        /\ shared' = [shared EXCEPT ![o] = [[shared[o] EXCEPT !.activated = TRUE]
                                                        EXCEPT !.claimed = TRUE]]
        /\ inactive' = [inactive EXCEPT ![p][i] = None]
    BY <1>1 DEF Adopt
  <2> HIDE DEF o
  <2>2. shared'[o].claimed /\ \A x \in Obj \ {o} : shared'[x] = shared[x]
    BY <1>t, <2>0, <2>1 DEF Typed, Shared
  <2>3. OnlyAt(p, i)
    BY <1>0, <1>t, <2>0, <2>1, <2>2 DEF OnlyAt, Typed
  <2>4. streams'[p][i] = o /\ inactive'[p][i] = None /\ object'[h] = o
    BY <1>0, <1>t, <2>1 DEF Typed, o
  <2>5. Claimants(p, i) => Claimants(p, i)'
    BY <1>t, <2>1, <2>2, <2>4 DEF Claimants, Typed, HandlesOf
  <2>6. Attended(p, i)'
    BY <1>0, <2>4 DEF Attended
  <2>7. Awaited(p, i)'
    BY <1>0, <2>0, <2>2, <2>4 DEF Awaited
  <2> QED
    BY <2>3, <2>5, <2>6, <2>7 DEF Kept
<1>2. CASE ClaimSlot(h) /\ streams[p][i] = None
  <2>1. /\ streams' = [streams EXCEPT ![p][i] = b] /\ inactive' = [inactive EXCEPT ![p][i] = None]
        /\ shared' = [shared EXCEPT ![b] = [[shared[b] EXCEPT !.activated = TRUE]
                                                        EXCEPT !.syn_pending = TRUE]]
        /\ object' = object
    BY <1>2 DEF ClaimSlot
  <2>2. shared'[b].claimed = shared[b].claimed /\ \A x \in Obj \ {b} : shared'[x] = shared[x]
    BY <1>0, <1>t, <2>1 DEF Typed, Shared
  <2>3. OnlyAt(p, i)
    BY <1>0, <1>t, <2>1, <2>2 DEF OnlyAt, Typed
  <2>4. streams'[p][i] = b /\ inactive'[p][i] = None /\ object'[h] = b
    BY <1>0, <1>t, <2>1 DEF Typed
  <2>5. Claimants(p, i) => Claimants(p, i)'
    BY <1>t, <2>1, <2>2 DEF Claimants, Typed, HandlesOf
  <2>6. Attended(p, i)'
    BY <1>0, <2>4 DEF Attended
  <2>7. ASSUME Claimants(p, i) PROVE Awaited(p, i)'
    <3>1. shared'[b].claimed /\ b # None
      BY <1>0, <2>2, <2>7 DEF Claimants
    <3> QED
      BY <2>4, <3>1 DEF Awaited
  <2> QED
    BY <2>3, <2>5, <2>6, <2>7 DEF Kept
<1>3. CASE AwaitSlot(h) \/ Proceed(h)
  <2>1. UNCHANGED <<streams, inactive, shared, object, task, conn>>
    BY <1>0, <1>3 DEF AwaitSlot, Proceed
  <2> QED
    BY <2>1 DEF OnlyAt, Kept, Claimants, Attended, Awaited
<1> QED
  BY <1>1, <1>2, <1>3 DEF PollActivate

LEMMA ReapStreamKept ==
  ASSUME Typing, Filed, NEW h \in Handle, ReapStream(h)
  PROVE  OnlyAt(h.peer, h.id) /\ Kept(h.peer, h.id)
<1> DEFINE p == h.peer
           i == h.id
<1>0. /\ p \in Peer /\ i \in Id /\ None \notin Obj /\ h \in HandlesOf(p, i)
      /\ task[h] = "dropped" /\ task' = [task EXCEPT ![h] = "reaped"]
      /\ conn' = conn /\ object' = object
  BY HandlesAreObjects, MuxAssumption DEF ReapStream, Ended, driver, HandlesOf
<1>t. Typed
  BY TypingTyped
<1>c. /\ streams[p][i] = None \/ inactive[p][i] = None
      /\ streams[p][i] # None => /\ streams[p][i].peer = p /\ streams[p][i].id = i
      /\ \A g \in Handle : object[g] # None => object[g].peer = g.peer /\ object[g].id = g.id
      /\ \A o \in {streams[p][i], inactive[p][i]} : o # None => o.peer = p /\ o.id = i
  BY <1>0 DEF Filed, RegistryConsistent, Owners
<1>n. NoSiblings => Awaited(p, i)'
  <2> SUFFICES ASSUME NoSiblings, NEW g \in HandlesOf(p, i) PROVE task'[g] \notin Leaving
    BY DEF Awaited
  <2>1. g = h
    BY DEF HandlesOf, NoSiblings
  <2> QED
    BY <1>0, <1>t, <2>1 DEF Typed, Leaving
<1>1. CASE /\ HasLiveHandle(streams[p][i]) \/ HasLiveHandle(inactive[p][i])
           /\ UNCHANGED <<registry, shared, wr>>
  <2>1. UNCHANGED <<streams, inactive, shared>>
    BY <1>1 DEF registry
  <2>2. OnlyAt(p, i)
    BY <1>0, <1>t, <2>1 DEF OnlyAt, Typed
  <2>3. Claimants(p, i) => Claimants(p, i)'
    BY <1>0, <2>1 DEF Claimants
  <2>4. Attended(p, i)'
    <3> SUFFICES ASSUME NEW o \in {streams[p][i], inactive[p][i]}, o # None
                 PROVE  \E g \in HandlesOf(p, i) : object[g] = o
      BY <1>0, <2>1 DEF Attended
    <3>1. PICK g \in Handle : object[g] \in {streams[p][i], inactive[p][i]} /\ object[g] # None
      BY <1>1 DEF HasLiveHandle
    <3>2. g \in HandlesOf(p, i)
      BY <1>c, <3>1 DEF HandlesOf
    <3> QED
      BY <1>c, <3>1, <3>2
  <2> QED
    BY <1>n, <2>2, <2>3, <2>4 DEF Kept
<1>2. CASE /\ ~HasLiveHandle(streams[p][i]) /\ ~HasLiveHandle(inactive[p][i])
           /\ streams[p][i] = None /\ Forget(p, i)
  <2>1. inactive' = [inactive EXCEPT ![p][i] = None] /\ streams' = streams /\ shared' = shared
    BY <1>2 DEF Forget
  <2>2. OnlyAt(p, i)
    BY <1>0, <1>t, <2>1 DEF OnlyAt, Typed
  <2>3. Claimants(p, i) => Claimants(p, i)'
    BY <1>0, <2>1 DEF Claimants
  <2>4. streams'[p][i] = None /\ inactive'[p][i] = None
    BY <1>0, <1>2, <1>t, <2>1 DEF Typed
  <2>5. Attended(p, i)'
    BY <2>4 DEF Attended
  <2> QED
    BY <1>n, <2>2, <2>3, <2>5 DEF Kept
<1>3. CASE /\ ~HasLiveHandle(streams[p][i]) /\ ~HasLiveHandle(inactive[p][i])
           /\ streams[p][i] # None /\ Release(p, i)
  <2>1. /\ streams' = [streams EXCEPT ![p][i] = None] /\ inactive' = inactive
        /\ shared' = [shared EXCEPT ![streams[p][i]] = NewShared]
    BY <1>3 DEF Release
  <2>2. OnlyAt(p, i)
    BY <1>0, <1>3, <1>c, <1>t, <2>1 DEF OnlyAt, Typed
  <2>3. Claimants(p, i) => Claimants(p, i)'
    <3>1. \A g \in HandlesOf(p, i) : object[g] # None => shared'[object[g]] = shared[object[g]]
      BY <1>3, <1>t, <2>1 DEF HasLiveHandle, HandlesOf, Typed
    <3> QED
      BY <1>0, <3>1 DEF Claimants
  <2>4. streams'[p][i] = None /\ inactive'[p][i] = None
    BY <1>0, <1>3, <1>c, <1>t, <2>1 DEF Typed
  <2>5. Attended(p, i)'
    BY <2>4 DEF Attended
  <2> QED
    BY <1>n, <2>2, <2>3, <2>5 DEF Kept
<1> QED
  BY <1>1, <1>2, <1>3 DEF ReapStream

LEMMA OnDataKept ==
  ASSUME Typing, Filed, NEW p \in Peer, OnData(p), NEW i \in Id, i = Head(wire[p]).id
  PROVE  OnlyAt(p, i) /\ Kept(p, i)
<1> DEFINE f == Head(wire[p])
           o == Addressee(p, i)
           s == Admitted(p, i)
<1>0. /\ None \notin Obj /\ object' = object /\ task' = task
      /\ \A q \in Peer : conn[q] = "cleanup" <=> conn'[q] = "cleanup"
  <2>1. conn[p] = "active" /\ (conn' = conn \/ conn' = [conn EXCEPT ![p] = "terminating"])
    BY DEF OnData, Terminate
  <2> QED
    BY <2>1, MuxAssumption DEF OnData, Receives, Typing, FramesTyped
<1>t. Typed
  BY TypingTyped
<1>1. CASE ~Admits(p, f)
  <2>1. UNCHANGED <<streams, inactive, shared>>
    BY <1>1 DEF OnData
  <2>2. OnlyAt(p, i)
    BY <1>0, <2>1 DEF OnlyAt
  <2>3. UNCHANGED <<streams, inactive, shared, object, task>> /\ (conn[p] = "cleanup" <=> conn'[p] = "cleanup")
    BY <1>0, <2>1
  <2>4. /\ Claimants(p, i)' <=> Claimants(p, i)
        /\ Attended(p, i)' <=> Attended(p, i)
        /\ Awaited(p, i)' <=> Awaited(p, i)
    BY Zenon, <2>3 DEF Claimants, Attended, Awaited
  <2> QED
    BY <2>2, <2>4 DEF Kept
<1>2. CASE Admits(p, f)
  <2>1. o \in Obj /\ o.peer = p /\ o.id = i /\ o # None
    <3>1. RegistryTyped /\ Owners
      BY DEF Typing, Filed
    <3> QED
      BY <3>1, AddresseeOf
  <2>2. /\ s \in Shared
        /\ o \in {streams[p][i], inactive[p][i]} => s.claimed = shared[o].claimed
        /\ o \notin {streams[p][i], inactive[p][i]} => ~s.claimed
    <3>0. \A r \in Shared : /\ [r EXCEPT !.activated = TRUE] \in Shared
                            /\ [r EXCEPT !.activated = TRUE].claimed = r.claimed
      BY Zenon DEF Shared
    <3>1. CASE streams[p][i] # None
      <4>1. s = shared[streams[p][i]] /\ o = streams[p][i]
        BY <3>1 DEF Addressee, Admitted
      <4> HIDE DEF s, o
      <4> QED
        BY <1>0, <1>t, <3>1, <4>1 DEF Typed
    <3>2. CASE streams[p][i] = None /\ inactive[p][i] # None
      <4>1. shared[inactive[p][i]] \in Shared
        BY <1>0, <1>t, <3>2 DEF Typed
      <4>2. s = [shared[inactive[p][i]] EXCEPT !.activated = TRUE] /\ o = inactive[p][i]
        BY <3>2 DEF Admitted, Addressee
      <4> HIDE DEF s, o
      <4> QED
        BY <4>1, <4>2, <3>0
    <3>3. CASE streams[p][i] = None /\ inactive[p][i] = None
      <4>1. s = [NewShared EXCEPT !.activated = TRUE] /\ ~NewShared.claimed
        BY Zenon, NewSharedType, <3>3 DEF Admitted, NewShared
      <4>2. o \notin {streams[p][i], inactive[p][i]}
        BY <2>1, <3>3
      <4> HIDE DEF s, o
      <4> QED
        BY <4>1, <4>2, NewSharedType, <3>0
    <3> QED
      BY <3>1, <3>2, <3>3
  <2>3. /\ streams' = [streams EXCEPT ![p][i] = o]
        /\ inactive' = IF streams[p][i] # None THEN inactive
                       ELSE [inactive EXCEPT ![p][i] = None]
        /\ shared' = [shared EXCEPT ![o] = IF f.len > s.fc.receive_window THEN s
                                                                 ELSE Deliver(s, f)]
    BY <1>2 DEF OnData
  <2>5. /\ streams[p][i] # None => o = streams[p][i]
        /\ streams[p][i] = None /\ inactive[p][i] # None => o = inactive[p][i]
        /\ streams[p][i] = None /\ inactive[p][i] = None => o = Implicit(p, i)
    BY DEF Addressee
  <2>6. inactive[p][i] = None \/ streams[p][i] = None
    BY <1>0 DEF Filed, RegistryConsistent
  <2> HIDE DEF s, o
  <2>4. shared'[o].claimed = s.claimed /\ \A x \in Obj \ {o} : shared'[x] = shared[x]
    <3>1. Deliver(s, f).claimed = s.claimed
      BY <2>2 DEF Deliver, Shared
    <3> QED
      BY <1>t, <2>1, <2>3, <3>1 DEF Typed
  <2>7. OnlyAt(p, i)
    BY <1>0, <1>t, <2>1, <2>3, <2>4 DEF OnlyAt, Typed
  <2>8. streams'[p][i] = o /\ inactive'[p][i] = None
    BY <1>0, <1>t, <2>3, <2>6 DEF Typed
  <2>9. ASSUME Claimants(p, i) PROVE Claimants(p, i)'
    <3> SUFFICES ASSUME NEW h \in HandlesOf(p, i), object[h] # None
                 PROVE  shared'[object[h]].claimed
      BY <1>0 DEF Claimants
    <3>1. shared[object[h]].claimed /\ object[h] \in Obj /\ h \in Handle
      BY <2>9, <1>t DEF Claimants, Typed, HandlesOf
    <3>2. CASE object[h] # o
      BY <2>4, <3>1, <3>2
    <3>3. CASE object[h] = o
      <4>1. conn[p] # "cleanup" /\ h.peer = p /\ h.id = i
        BY DEF OnData, HandlesOf
      <4>2. o \in {streams[p][i], inactive[p][i]}
        BY <3>1, <3>3, <4>1 DEF Filed, RegistryConsistent
      <4> QED
        BY <2>2, <2>4, <3>1, <3>3, <4>2
    <3> QED
      BY <3>2, <3>3
  <2>10. ASSUME Attended(p, i) PROVE Attended(p, i)'
    <3> SUFFICES ASSUME shared'[o].claimed
                 PROVE  \E h \in HandlesOf(p, i) : object[h] = o \/ task[h] \in Leaving
      BY <1>0, <2>8 DEF Attended
    <3>1. o \in {streams[p][i], inactive[p][i]} /\ shared[o].claimed
      BY <2>2, <2>4
    <3> QED
      BY <2>1, <2>10, <3>1 DEF Attended
  <2>11. ASSUME Awaited(p, i) PROVE Awaited(p, i)'
    <3> SUFFICES ASSUME NEW h \in HandlesOf(p, i), task[h] \in Leaving, conn[p] # "cleanup"
                 PROVE  shared'[o].claimed
      BY <1>0, <2>1, <2>8 DEF Awaited
    <3>1. PICK e \in {streams[p][i], inactive[p][i]} : e # None /\ shared[e].claimed
      BY <2>11 DEF Awaited
    <3>2. e = o
      BY <2>5, <2>6, <3>1
    <3> QED
      BY <2>2, <2>4, <3>1, <3>2
  <2> QED
    BY <2>7, <2>9, <2>10, <2>11 DEF Kept
<1> QED
  BY <1>1, <1>2

(* The teardown empties both maps; no drop is awaited any more.             *)
LEMMA DropAllStreamsKeeps ==
  ASSUME Typing, NEW p \in Peer, DropAllStreams(p), NEW q \in Peer, NEW i \in Id
  PROVE  /\ Claimants(q, i) => Claimants(q, i)'
         /\ Attended(q, i) => Attended(q, i)'
         /\ Awaited(q, i) => Awaited(q, i)'
<1>0. /\ object' = object /\ task' = task
      /\ streams' = [streams EXCEPT ![p] = [j \in Id |-> None]]
      /\ inactive' = [inactive EXCEPT ![p] = [j \in Id |-> None]]
      /\ conn' = [conn EXCEPT ![p] = "cleanup"]
  BY DEF DropAllStreams
<1>t. Typed /\ conn \in [Peer -> ConnStates] /\ None \notin Obj
  BY TypingTyped, MuxAssumption DEF Typing, FramesTyped
<1>1. \A o \in Obj : shared'[o].claimed = shared[o].claimed
  BY <1>t DEF DropAllStreams, Typed, Shared
<1>2. /\ streams'[q][i] = IF q = p THEN None ELSE streams[q][i]
      /\ inactive'[q][i] = IF q = p THEN None ELSE inactive[q][i]
      /\ conn'[q] = IF q = p THEN "cleanup" ELSE conn[q]
  BY <1>0, <1>t DEF Typed
<1>3. /\ \A o \in {streams[q][i], inactive[q][i]} : o # None => o \in Obj
      /\ \A h \in HandlesOf(q, i) : object[h] # None => object[h] \in Obj
  BY <1>t DEF Typed, HandlesOf
<1>4. Claimants(q, i) => Claimants(q, i)'
  BY <1>0, <1>1, <1>3 DEF Claimants
<1>5. Attended(q, i) => Attended(q, i)'
  BY <1>0, <1>1, <1>2, <1>3 DEF Attended
<1>6. Awaited(q, i) => Awaited(q, i)'
  BY <1>0, <1>1, <1>2, <1>3 DEF Awaited
<1> QED
  BY <1>4, <1>5, <1>6

(* The two invariants: of every set of handles, and of those without        *)
(* siblings.                                                                *)
Slots == \A p \in Peer, i \in Id : Claimants(p, i) /\ Attended(p, i)

Drops == \A p \in Peer, i \in Id : Awaited(p, i)

LEMMA InitSlots == Init => Slots /\ Drops
<1> SUFFICES ASSUME Init PROVE Slots /\ Drops
  OBVIOUS
<1>1. \A h \in Handle : object[h] = None /\ task[h] \notin Leaving
  BY DEF Init, Leaving
<1>2. \A p \in Peer, i \in Id : streams[p][i] = None /\ inactive[p][i] = None
  BY DEF Init
<1> QED
  BY <1>1, <1>2 DEF Slots, Drops, Claimants, Attended, Awaited, HandlesOf

LEMMA KeptSlots ==
  ASSUME Typing, Filed, Slots, NEW p \in Peer, NEW i \in Id, OnlyAt(p, i), Kept(p, i)
  PROVE  Slots' /\ (NoSiblings /\ Drops => Drops')
<1>1. ASSUME NEW q \in Peer, NEW j \in Id
      PROVE  /\ Claimants(q, j)' /\ Attended(q, j)'
             /\ NoSiblings /\ Drops => Awaited(q, j)'
  <2>1. CASE q = p /\ j = i
    BY <2>1 DEF Kept, Slots, Drops
  <2>2. CASE q # p \/ j # i
    BY <2>2, OthersKept DEF Slots, Drops
  <2> QED
    BY <2>1, <2>2
<1> QED
  BY <1>1 DEF Slots, Drops

LEMMA GentleSlots ==
  ASSUME Typing, Filed, Slots, Gentle
  PROVE  Slots' /\ (Drops => Drops')
BY GentleKeeps DEF Slots, Drops

LEMMA NextSlots ==
  ASSUME Typing, Filed, Slots, [Next]_vars
  PROVE  Slots' /\ (NoSiblings /\ Drops => Drops')
<1>1. ASSUME NEW p \in Peer, Driver(p) PROVE Slots' /\ (NoSiblings /\ Drops => Drops')
  <2>1. CASE OnData(p)
    <3>1. Head(wire[p]).id \in Id
      BY <2>1, ReceivedFrame DEF OnData, Receives, StreamFrame, Typing
    <3>2. PICK i \in Id : i = Head(wire[p]).id
      BY <3>1
    <3>3. OnlyAt(p, i) /\ Kept(p, i)
      BY <2>1, <3>2, OnDataKept
    <3> QED
      BY <3>3, KeptSlots
  <2>2. CASE DropAllStreams(p)
    BY <2>2, DropAllStreamsKeeps DEF Slots, Drops
  <2>3. CASE ~(OnData(p) \/ DropAllStreams(p))
    <3>1. Gentle
      BY <1>1, <2>3, DriverStepsGentle DEF Driver
    <3> QED
      BY <3>1, GentleSlots
  <2> QED
    BY <2>1, <2>2, <2>3
<1>2. ASSUME NEW h \in Handle,
             \/ PollWrite(h) \/ PollRead(h) \/ PollFlush(h) \/ CloseInactive(h)
             \/ SendClose(h) \/ FinishClose(h) \/ DropShared(h) \/ DropSender(h) \/ PollStream(h)
      PROVE  Slots' /\ (NoSiblings /\ Drops => Drops')
  BY <1>2, HandleStepsGentle, GentleSlots
<1>3. ASSUME NEW h \in Handle, NewStream(h) \/ PollActivate(h) \/ ReapStream(h)
      PROVE  Slots' /\ (NoSiblings /\ Drops => Drops')
  <2>1. h.peer \in Peer /\ h.id \in Id /\ OnlyAt(h.peer, h.id) /\ Kept(h.peer, h.id)
    BY <1>3, HandlesAreObjects, NewStreamKept, PollActivateKept, ReapStreamKept
  <2> QED
    BY <2>1, KeptSlots
<1>4. CASE UNCHANGED vars
  <2>1. Gentle
    BY <1>4 DEF vars, registry, handles, driver, Gentle
  <2> QED
    BY <2>1, GentleSlots
<1> QED
  BY <1>1, <1>2, <1>3, <1>4 DEF Next

LEMMA SlotsInvariant == Spec => [](Typing /\ Filed /\ Slots)
<1>1. Typing /\ Filed /\ Slots /\ [Next]_vars => (Filed /\ Slots)'
  BY NextFiled, NextSlots
<1> QED
  BY <1>1, InitFiled, InitSlots, TypingInvariant, PTL DEF Spec

(* A slot outlives the handles of its stream only until the driver has seen *)
(* the end of the last one, however opening, adopting and dropping of       *)
(* several handles of an id interleave with the frames of the peer.         *)
THEOREM SpecNoSlotLeak == Spec => []NoSlotLeak
<1>1. Slots => NoSlotLeak
  <2> SUFFICES ASSUME Slots, NEW p \in Peer, NEW i \in Id,
                      streams[p][i] # None, shared[streams[p][i]].claimed
               PROVE  \E h \in HandlesOf(p, i) :
                        object[h] = streams[p][i] \/ task[h] \in {"dropping", "dropped"}
    BY DEF NoSlotLeak
  <2>1. Attended(p, i)
    BY DEF Slots
  <2> QED
    BY <2>1 DEF Attended, Leaving
<1> QED
  BY <1>1, SlotsInvariant, PTL

(* Where an id has one handle at each peer, what the peer opened and sent   *)
(* stays until that handle has claimed it, while the driver runs.  With     *)
(* siblings it does not hold: the end of the second one is reported by id,  *)
(* and meets whatever is filed there by then.                               *)
THEOREM SpecUnclaimedStreamsKept == NoSiblings => (Spec => UnclaimedStreamsKept)
<1> SUFFICES ASSUME NoSiblings PROVE Spec => UnclaimedStreamsKept
  OBVIOUS
<1>1. Typing /\ Filed /\ Slots /\ Drops /\ [Next]_vars => Drops'
  BY NextSlots
<1>2. ASSUME Typing, Filed, Slots, Drops, [Next]_vars PROVE UnclaimedKept
  <2> SUFFICES ASSUME NEW p \in Peer, NEW i \in Id, streams[p][i] # None,
                      ~shared[streams[p][i]].claimed, Up(p)
               PROVE  streams'[p][i] = streams[p][i]
    BY DEF UnclaimedKept
  <2>t. Typed
    BY <1>2, TypingTyped
  <2>1. ASSUME NEW q \in Peer, Driver(q) PROVE streams'[p][i] = streams[p][i]
    <3>1. CASE OnData(q)
      <4>1. \/ UNCHANGED streams
            \/ streams' = [streams EXCEPT ![q][Head(wire[q]).id] = Addressee(q, Head(wire[q]).id)]
        BY <3>1 DEF OnData
      <4> QED
        BY <2>t, <4>1 DEF Typed, Addressee
    <3>2. CASE DropAllStreams(q)
      BY <2>t, <3>2 DEF DropAllStreams, Up, Typed
    <3>3. CASE ~(OnData(q) \/ DropAllStreams(q))
      BY <1>2, <2>1, <3>3, DriverStepsGentle DEF Driver, Gentle
    <3> QED
      BY <3>1, <3>2, <3>3
  <2>2. ASSUME NEW h \in Handle, PollActivate(h) PROVE streams'[p][i] = streams[p][i]
    <3>1. h.peer \in Peer /\ h.id \in Id
      BY HandlesAreObjects
    <3>2. \/ UNCHANGED streams
          \/ streams[h.peer][h.id] = None
             /\ streams' = [streams EXCEPT ![h.peer][h.id] = object[h]]
      BY <2>2 DEF PollActivate, Adopt, ClaimSlot, AwaitSlot, Proceed
    <3> QED
      BY <2>t, <3>1, <3>2 DEF Typed
  <2>3. ASSUME NEW h \in Handle, ReapStream(h) PROVE streams'[p][i] = streams[p][i]
    <3>1. h.peer \in Peer /\ h.id \in Id
      BY HandlesAreObjects
    <3>2. OnlyAt(h.peer, h.id)
      BY <1>2, <2>3, ReapStreamKept
    <3>3. CASE p # h.peer \/ i # h.id
      BY <3>2, <3>3 DEF OnlyAt
    <3>4. CASE p = h.peer /\ i = h.id
      <4>1. task[h] \in Leaving /\ h \in HandlesOf(p, i) /\ conn[p] # "cleanup"
        BY <2>3, <3>4 DEF ReapStream, Ended, Leaving, HandlesOf, Up
      <4>2. PICK o \in {streams[p][i], inactive[p][i]} : o # None /\ shared[o].claimed
        BY <1>2, <4>1 DEF Drops, Awaited
      <4> QED
        BY <1>2, <4>2 DEF Filed, RegistryConsistent
    <3> QED
      BY <3>3, <3>4
  <2>4. ASSUME NEW h \in Handle, NewStream(h) PROVE streams'[p][i] = streams[p][i]
    BY <2>4 DEF NewStream
  <2>5. ASSUME NEW h \in Handle,
               \/ PollWrite(h) \/ PollRead(h) \/ PollFlush(h) \/ CloseInactive(h)
               \/ SendClose(h) \/ FinishClose(h) \/ DropShared(h) \/ DropSender(h) \/ PollStream(h)
        PROVE  streams'[p][i] = streams[p][i]
    BY <1>2, <2>5, HandleStepsGentle DEF Gentle
  <2>6. CASE UNCHANGED vars
    BY <2>6 DEF vars, registry
  <2> QED
    BY <1>2, <2>1, <2>2, <2>3, <2>4, <2>5, <2>6 DEF Next
<1>3. Init => Drops
  BY InitSlots
<1> QED
  BY <1>1, <1>2, <1>3, SlotsInvariant, PTL DEF Spec, UnclaimedStreamsKept

=============================================================================
