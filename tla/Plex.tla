-------------------------------- MODULE Plex --------------------------------
(***************************************************************************)
(* The in-memory pipes of futures-plex: two ring buffers joined to a       *)
(* duplex, each behind a BiLock that its reading half and its writing half *)
(* share, and closed without that lock.  A direction is named by the end   *)
(* that writes it.  Each half is polled by one task; the four tasks and    *)
(* the drops of the two ends interleave at every step that touches what    *)
(* the lock does not guard: the closed flag and the wakers of CloseState.  *)
(*                                                                         *)
(* A byte is the number under which it was written.  A task that has seen  *)
(* its direction end polls no more.  reunite and the blocking variants,    *)
(* which poll the same functions, are left out.  Definitions named         *)
(* Faulty... are plausible bugs that PROJECT.json lists as mutants.        *)
(***************************************************************************)
EXTENDS Naturals, Sequences

CONSTANTS
  End,      (* the two ends                               *)
  Cap,      (* max_buf_size                               *)
  None,     (* nobody                                     *)
  MaxSent,  (* bound: bytes written in each direction     *)
  Idle      (* bound: the halves that make idle calls     *)

ASSUME PlexAssumption ==
  /\ Cap \in Nat \ {0}
  /\ MaxSent \in [End -> Nat]
  /\ \E a, b \in End : a # b /\ End = {a, b}

Half == {"read", "write"} \X End
Reader(d) == <<"read", d>>
Writer(d) == <<"write", d>>
Peer(e) == CHOOSE f \in End : f # e

(* The end that owns a half, and the direction a half works on. *)
Owner(h) == IF h[1] = "write" THEN h[2] ELSE Peer(h[2])
Dir(h) == h[2]

ASSUME HalfAssumption == None \notin Half /\ Idle \subseteq Half

VARIABLES
  buffer, ptr, len, (* SimplexStream: the ring, where it starts, what it holds *)
  waker,    (* waker[h]: read_waker and write_waker, under the lock       *)
  closed,   (* CloseState::closed of a direction                          *)
  closer,   (* closer[h]: read_closer and write_closer                    *)
  lock,     (* the half that holds the BiLock of a direction, or None     *)
  waiting,  (* the half whose waker the BiLock keeps, or None             *)
  pc,       (* where the task of a half is, see TypeOK                    *)
  woken,    (* woken[h]: its waker was fired since it last polled         *)
  drop,     (* how far the drop of an end has come, see TypeOK            *)
  to_wake,  (* the wakers a drop has taken and not fired yet              *)
  delivered (* bytes read in each direction, for the properties           *)

ring  == <<buffer, ptr, len, delivered>>
vars  == <<ring, waker, closed, closer, lock, waiting, pc, woken, drop, to_wake>>

Init ==
  /\ buffer = [d \in End |-> [k \in 0 .. Cap - 1 |-> 0]]
  /\ ptr = [d \in End |-> 0]
  /\ len = [d \in End |-> 0]
  /\ waker = [h \in Half |-> FALSE]
  /\ closed = [d \in End |-> FALSE]
  /\ closer = [h \in Half |-> FALSE]
  /\ lock = [d \in End |-> None]
  /\ waiting = [d \in End |-> None]
  /\ pc = [h \in Half |-> "idle"]
  /\ woken = [h \in Half |-> FALSE]
  /\ drop = [e \in End |-> "up"]
  /\ to_wake = [e \in End |-> {}]
  /\ delivered = [d \in End |-> <<>>]

Sent(d) == Len(delivered[d]) + len[d]

Wake(hs) == woken' = [h \in Half |-> woken[h] \/ h \in hs]

(* BiLock: a poll that finds it taken leaves its waker, unlock fires it. *)
Acquire(h) ==
  IF lock[Dir(h)] = None
    THEN /\ lock' = [lock EXCEPT ![Dir(h)] = h]
         /\ pc' = [pc EXCEPT ![h] = "locked"]
         /\ UNCHANGED waiting
    ELSE /\ waiting' = [waiting EXCEPT ![Dir(h)] = h]
         /\ pc' = [pc EXCEPT ![h] = "wait"]
         /\ UNCHANGED lock

FaultyUnlockWaking(h, hs) ==
  /\ lock' = [lock EXCEPT ![Dir(h)] = None]
  /\ waiting' = [waiting EXCEPT ![Dir(h)] = None]
  /\ Wake(hs)

(* Give the lock back, having fired the wakers of hs while it was held. *)
UnlockWaking(h, hs) ==
  /\ lock' = [lock EXCEPT ![Dir(h)] = None]
  /\ waiting' = [waiting EXCEPT ![Dir(h)] = None]
  /\ Wake(hs \cup ({waiting[Dir(h)]} \ {None}))
-----------------------------------------------------------------------------
(* Polls.  A task polls first of its own accord and then when it is woken. *)
Poll(h) ==
  /\ pc[h] = "idle" \/ (pc[h] \in {"parked", "wait"} /\ woken[h])
  /\ drop[Owner(h)] = "up"
  /\ woken' = [woken EXCEPT ![h] = FALSE]
  /\ Acquire(h)
  /\ UNCHANGED <<ring, waker, closed, closer, drop, to_wake>>

(* get and get_mut: the first contiguous piece of the data, or of the room. *)
Readable(d) == IF ptr[d] + len[d] <= Cap THEN len[d] ELSE Cap - ptr[d]

WriteAt(d) == (ptr[d] + len[d]) % Cap

FaultyWritable(d) == IF len[d] = Cap THEN 0 ELSE Cap - WriteAt(d)

Writable(d) ==
  IF len[d] = Cap THEN 0
  ELSE IF WriteAt(d) < ptr[d] THEN ptr[d] - WriteAt(d)
  ELSE Cap - WriteAt(d)

(* The waker of a half is taken and fired. *)
FaultyTakeWaker(h) == {}

TakeWaker(h) == IF waker[h] THEN {h} ELSE {}

(* poll_get finds data, which the caller copies; advance makes room. *)
Read(d) ==
  LET h == Reader(d)
  IN  /\ pc[h] = "locked" /\ len[d] > 0
      /\ \E n \in 1 .. Readable(d) :
           /\ delivered' = [delivered EXCEPT ![d] =
                              @ \o [k \in 1 .. n |-> buffer[d][ptr[d] + k - 1]]]
           /\ ptr' = [ptr EXCEPT ![d] = (@ + n) % Cap]
           /\ len' = [len EXCEPT ![d] = @ - n]
      /\ waker' = [waker EXCEPT ![Writer(d)] = FALSE]
      /\ UnlockWaking(h, TakeWaker(Writer(d)))
      /\ pc' = [pc EXCEPT ![h] = "idle"]
      /\ UNCHANGED <<buffer, closed, closer, drop, to_wake>>

(* poll_mut finds room, which the caller fills; advance_mut. *)
Write(d) ==
  LET h == Writer(d)
  IN  /\ pc[h] = "locked" /\ ~closed[d] /\ len[d] < Cap
      /\ \E n \in 1 .. Writable(d) :
           /\ Sent(d) + n <= MaxSent[d]
           /\ buffer' = [buffer EXCEPT ![d] =
                           [k \in 0 .. Cap - 1 |->
                              IF k \in WriteAt(d) .. WriteAt(d) + n - 1
                                THEN Sent(d) + 1 + (k - WriteAt(d)) ELSE @[k]]]
           /\ len' = [len EXCEPT ![d] = @ + n]
      /\ waker' = [waker EXCEPT ![Reader(d)] = FALSE]
      /\ UnlockWaking(h, TakeWaker(Reader(d)))
      /\ pc' = [pc EXCEPT ![h] = "idle"]
      /\ UNCHANGED <<ptr, delivered, closed, closer, drop, to_wake>>

(* A call that moves no byte and yet takes the lock: poll_flush, an empty   *)
(* slice, poll_read_to and poll_write_from whose other stream is pending,   *)
(* a guard of poll_lock that is only looked through.                        *)
IdleCall(h) ==
  /\ pc[h] = "locked" /\ h \in Idle
  /\ pc' = [pc EXCEPT ![h] = "idle"]
  /\ UnlockWaking(h, {})
  /\ UNCHANGED <<ring, waker, closed, closer, drop, to_wake>>

(* The reader has seen the end, the writer a broken pipe. *)
Finish(h) ==
  /\ pc' = [pc EXCEPT ![h] = "ended"]
  /\ UnlockWaking(h, {})

FaultyAtEnd(h) ==
  closed[Dir(h)]

AtEnd(h) ==
  closed[Dir(h)] /\ (h[1] = "read" => len[Dir(h)] = 0)

PollEnded(h) ==
  /\ pc[h] = "locked" /\ AtEnd(h)
  /\ Finish(h)
  /\ UNCHANGED <<ring, waker, closed, closer, drop, to_wake>>

(* Nothing to read, or no room: park on the waker under the lock, then on   *)
(* the one that a close can reach, and only then look at the flag again.    *)
Blocked(h) == IF h[1] = "read" THEN len[Dir(h)] = 0 ELSE len[Dir(h)] = Cap

StartPark(h) ==
  /\ pc[h] = "locked" /\ ~closed[Dir(h)] /\ Blocked(h)
  /\ h[1] = "write" => Sent(Dir(h)) < MaxSent[Dir(h)]
  /\ waker' = [waker EXCEPT ![h] = TRUE]
  /\ pc' = [pc EXCEPT ![h] = "register"]
  /\ UNCHANGED <<ring, closed, closer, lock, waiting, woken, drop, to_wake>>

Register(h) ==
  /\ pc[h] = "register"
  /\ closer' = [closer EXCEPT ![h] = TRUE]
  /\ pc' = [pc EXCEPT ![h] = "recheck"]
  /\ UNCHANGED <<ring, waker, closed, lock, waiting, woken, drop, to_wake>>

FaultyRecheck(h) ==
  /\ pc[h] = "recheck"
  /\ pc' = [pc EXCEPT ![h] = "parked"]
  /\ UnlockWaking(h, {})
  /\ UNCHANGED <<ring, waker, closed, closer, drop, to_wake>>

Recheck(h) ==
  /\ pc[h] = "recheck"
  /\ IF closed[Dir(h)] THEN Finish(h)
     ELSE /\ pc' = [pc EXCEPT ![h] = "parked"]
          /\ UnlockWaking(h, {})
  /\ UNCHANGED <<ring, waker, closed, closer, drop, to_wake>>

(* poll_close of the writing half: publish the flag, then take and fire the *)
(* reader's waker, all with the lock held.                                  *)
StartClose(d) ==
  LET h == Writer(d)
  IN  /\ pc[h] = "locked"
      /\ closed' = [closed EXCEPT ![d] = TRUE]
      /\ pc' = [pc EXCEPT ![h] = "closing"]
      /\ UNCHANGED <<ring, waker, closer, lock, waiting, woken, drop, to_wake>>

TakeCloser(h) == IF closer[h] THEN {h} ELSE {}

FaultyFinishClose(d) ==
  LET h == Writer(d)
  IN  /\ pc[h] = "closing"
      /\ closer' = [closer EXCEPT ![h] = FALSE]
      /\ UnlockWaking(h, TakeCloser(h))
      /\ pc' = [pc EXCEPT ![h] = "ended"]
      /\ UNCHANGED <<ring, waker, closed, drop, to_wake>>

FinishClose(d) ==
  LET h == Writer(d)
  IN  /\ pc[h] = "closing"
      /\ closer' = [closer EXCEPT ![Reader(d)] = FALSE]
      /\ UnlockWaking(h, TakeCloser(Reader(d)))
      /\ pc' = [pc EXCEPT ![h] = "ended"]
      /\ UNCHANGED <<ring, waker, closed, drop, to_wake>>
-----------------------------------------------------------------------------
(* Drop for DuplexStream: no lock is taken, since the peer may hold it, or  *)
(* be the very code that drops us.  Neither half is in a poll: drop owns    *)
(* the end.                                                                 *)
Dropping(e, from, to) ==
  /\ drop[e] = from
  /\ drop' = [drop EXCEPT ![e] = to]
  /\ UNCHANGED <<ring, waker, lock, waiting, pc>>

CloseRead(e) ==
  /\ \A h \in Half : Owner(h) = e => lock[Dir(h)] # h
  /\ Dropping(e, "up", "read_closed")
  /\ closed' = [closed EXCEPT ![Peer(e)] = TRUE]
  /\ UNCHANGED <<closer, woken, to_wake>>

TakeWriter(e) ==
  LET h == Writer(Peer(e))
  IN  /\ Dropping(e, "read_closed", "read_taken")
      /\ to_wake' = [to_wake EXCEPT ![e] = @ \cup TakeCloser(h)]
      /\ closer' = [closer EXCEPT ![h] = FALSE]
      /\ UNCHANGED <<closed, woken>>

CloseWrite(e) ==
  /\ Dropping(e, "read_taken", "write_closed")
  /\ closed' = [closed EXCEPT ![e] = TRUE]
  /\ UNCHANGED <<closer, woken, to_wake>>

TakeReader(e) ==
  LET h == Reader(e)
  IN  /\ Dropping(e, "write_closed", "write_taken")
      /\ to_wake' = [to_wake EXCEPT ![e] = @ \cup TakeCloser(h)]
      /\ closer' = [closer EXCEPT ![h] = FALSE]
      /\ UNCHANGED <<closed, woken>>

FireWakers(e) ==
  /\ Dropping(e, "write_taken", "gone")
  /\ Wake(to_wake[e])
  /\ to_wake' = [to_wake EXCEPT ![e] = {}]
  /\ UNCHANGED <<closed, closer>>

DropStep(e) == TakeWriter(e) \/ CloseWrite(e) \/ TakeReader(e) \/ FireWakers(e)

(* The steps of a poll that has begun. *)
InPoll(h) ==
  \/ IdleCall(h) \/ PollEnded(h) \/ StartPark(h) \/ Register(h) \/ Recheck(h)
  \/ h[1] = "read" /\ Read(Dir(h))
  \/ h[1] = "write" /\ (Write(Dir(h)) \/ StartClose(Dir(h)) \/ FinishClose(Dir(h)))

Next ==
  \/ \E h \in Half : Poll(h) \/ InPoll(h)
  \/ \E e \in End : CloseRead(e) \/ DropStep(e)

Spec == Init /\ [][Next]_vars

(* A poll runs to its end, a task that was woken polls again, and a drop    *)
(* runs to its end.  The readers keep reading; nothing makes an application *)
(* write, close or drop.  With idle calls no half would be sure to get the  *)
(* lock, since BiLock keeps no queue: liveness is checked without them.     *)
Fairness ==
  /\ \A h \in Half : WF_vars(InPoll(h))
  /\ \A h \in Half : WF_vars((h[1] = "read" \/ woken[h]) /\ Poll(h))
  /\ \A e \in End : WF_vars(DropStep(e))

FairSpec == Spec /\ Fairness
-----------------------------------------------------------------------------
(* The values the state ranges over.  A task is outside a poll (idle), left *)
(* its waker with the BiLock (wait) or in the stream (parked), is inside a  *)
(* poll (locked, register, recheck, closing), or has ended.                 *)
TypeOK ==
  /\ buffer \in [End -> [0 .. Cap - 1 -> Nat]]
  /\ ptr \in [End -> 0 .. Cap - 1] /\ len \in [End -> 0 .. Cap]
  /\ waker \in [Half -> BOOLEAN] /\ closer \in [Half -> BOOLEAN]
  /\ closed \in [End -> BOOLEAN]
  /\ lock \in [End -> Half \cup {None}] /\ waiting \in [End -> Half \cup {None}]
  /\ pc \in [Half -> {"idle", "wait", "locked", "register", "recheck", "closing",
                      "parked", "ended"}]
  /\ woken \in [Half -> BOOLEAN]
  /\ drop \in [End -> {"up", "read_closed", "read_taken", "write_closed", "write_taken",
                       "gone"}]
  /\ to_wake \in [End -> SUBSET Half]
  /\ delivered \in [End -> Seq(Nat)]

(* Somebody has closed the direction of h and has yet to wake h: the other  *)
(* end in its drop, or the writer in poll_close.                            *)
CloseUnderWay(h) ==
  \/ \E e \in End : h \in to_wake[e]
  \/ closer[h] /\ \E e \in End \ {Owner(h)} :
       drop[e] \in IF h[1] = "write" THEN {"read_closed"} ELSE {"write_closed"}
  \/ closer[h] /\ h[1] = "read" /\ pc[Writer(Dir(h))] = "closing"

(* A task that sleeps has reason to, and someone to wake it: it waits for   *)
(* data or room there is none of, and a close that has been published is    *)
(* about to fire its waker.  No close is lost between the check and the     *)
(* registration of poll_get and poll_mut.                                   *)
NoLostWake ==
  \A h \in Half :
    pc[h] = "parked" /\ ~woken[h] /\ drop[Owner(h)] = "up" =>
      /\ Blocked(h) /\ waker[h]
      /\ closed[Dir(h)] => CloseUnderWay(h)

(* The same for a task that waits for the BiLock. *)
NoLostUnlock ==
  \A h \in Half :
    pc[h] = "wait" /\ ~woken[h] /\ drop[Owner(h)] = "up" =>
      waiting[Dir(h)] = h /\ lock[Dir(h)] \notin {None, h}

(* The ring, read from ptr on, is the queue of a ClosablePipe: bytes leave  *)
(* in order across every wrap, a reader ends after the last byte, and what  *)
(* poll_mut let in before a close is not lost by it.                        *)
Contents(d) == [k \in 1 .. len[d] |-> buffer[d][(ptr[d] + k - 1) % Cap]]

Abstract == INSTANCE ClosablePipe WITH
  Pipe <- End, queue <- [d \in End |-> Contents(d)],
  ended <- {d \in End : pc[Reader(d)] = "ended"}

ImplementsClosablePipe == Abstract!Spec

(* Every byte that was accepted is read, unless the reader goes away. *)
AcceptedIsRead ==
  \A d \in End : \A n \in 1 .. MaxSent[d] :
    Sent(d) >= n ~> (Len(delivered[d]) >= n \/ drop[Peer(d)] # "up")

(* A close reaches both sides: the reader sees the end, and a writer that   *)
(* waits for room is not left waiting.                                      *)
CloseIsSeen ==
  \A d \in End :
    /\ closed[d] ~> (pc[Reader(d)] = "ended" \/ drop[Peer(d)] # "up")
    /\ closed[d] ~> (pc[Writer(d)] \notin {"parked", "wait"} \/ drop[d] # "up")
=============================================================================
