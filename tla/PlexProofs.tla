------------------------------ MODULE PlexProofs ------------------------------
(***************************************************************************)
(* The pipes of futures-plex for every ring size and every amount written: *)
(* the state keeps its types, and neither a close nor an unlock is lost on *)
(* the way to a task that sleeps.                                          *)
(***************************************************************************)
EXTENDS Plex, Integers, SequenceTheorems, TLAPS

(* The two ends, and the halves of a direction. *)
LEMMA PeerFacts ==
  ASSUME NEW e \in End
  PROVE  /\ Peer(e) \in End /\ Peer(e) # e /\ Peer(Peer(e)) = e
         /\ \A f \in End : f = e \/ f = Peer(e)
<1>1. PICK a, b \in End : a # b /\ End = {a, b}
  BY PlexAssumption
<1>2. \A x \in End : Peer(x) \in End /\ Peer(x) # x
  <2> SUFFICES ASSUME NEW x \in End PROVE Peer(x) \in End /\ Peer(x) # x
    OBVIOUS
  <2>1. \E f \in End : f # x
    BY <1>1
  <2> QED
    BY <2>1 DEF Peer
<1> QED
  BY <1>1, <1>2

LEMMA HalfFacts ==
  /\ \A d \in End : /\ Reader(d) \in Half /\ Writer(d) \in Half /\ Reader(d) # Writer(d)
                    /\ Dir(Reader(d)) = d /\ Dir(Writer(d)) = d
                    /\ Owner(Reader(d)) = Peer(d) /\ Owner(Writer(d)) = d
                    /\ Reader(d)[1] = "read" /\ Writer(d)[1] = "write"
  /\ \A h \in Half : /\ Dir(h) \in End /\ Owner(h) \in End
                     /\ h = Reader(Dir(h)) \/ h = Writer(Dir(h))
                     /\ h # None
<1>1. \A h \in Half : h[1] \in {"read", "write"} /\ h[2] \in End /\ h = <<h[1], h[2]>>
  BY DEF Half
<1>2. \A h \in Half : h # None
  BY HalfAssumption
<1> QED
  BY <1>1, <1>2, PeerFacts DEF Half, Reader, Writer, Dir, Owner

-----------------------------------------------------------------------------
(* The ring: what lies between ptr and the place to write, in the pieces    *)
(* that get and get_mut hand out.                                           *)
LEMMA WrapFacts ==
  ASSUME NEW p \in 0 .. Cap - 1, NEW n \in 0 .. Cap
  PROVE  (p + n) % Cap = IF p + n < Cap THEN p + n ELSE p + n - Cap
BY PlexAssumption

LEMMA PieceFacts ==
  ASSUME NEW d \in End, ptr[d] \in 0 .. Cap - 1, len[d] \in 0 .. Cap
  PROVE  /\ Readable(d) \in Nat /\ Readable(d) <= len[d] /\ ptr[d] + Readable(d) <= Cap
         /\ WriteAt(d) \in 0 .. Cap - 1
         /\ Writable(d) \in Nat /\ len[d] + Writable(d) <= Cap
         /\ WriteAt(d) + Writable(d) <= Cap
<1>1. Cap \in Nat \ {0}
  BY PlexAssumption
<1>2. Readable(d) \in Nat /\ Readable(d) <= len[d] /\ ptr[d] + Readable(d) <= Cap
  BY <1>1 DEF Readable
<1>3. WriteAt(d) = IF ptr[d] + len[d] < Cap THEN ptr[d] + len[d] ELSE ptr[d] + len[d] - Cap
  BY WrapFacts DEF WriteAt
<1>4. WriteAt(d) \in 0 .. Cap - 1
  BY <1>1, <1>3
<1>5. /\ Writable(d) \in Nat /\ len[d] + Writable(d) <= Cap
      /\ WriteAt(d) + Writable(d) <= Cap
  BY <1>1, <1>3, <1>4 DEF Writable
<1> QED
  BY <1>2, <1>4, <1>5
-----------------------------------------------------------------------------
(* Types. *)
LEMMA AcquireType ==
  ASSUME TypeOK, NEW h \in Half, Acquire(h)
  PROVE  /\ lock' \in [End -> Half \cup {None}] /\ waiting' \in [End -> Half \cup {None}]
         /\ \E s \in {"locked", "wait"} : pc' = [pc EXCEPT ![h] = s]
<1>t. lock \in [End -> Half \cup {None}] /\ waiting \in [End -> Half \cup {None}]
  BY DEF TypeOK
<1>1. lock' \in [End -> Half \cup {None}]
  <2>1. lock' = lock \/ lock' = [lock EXCEPT ![Dir(h)] = h]
    BY Zenon DEF Acquire
  <2> QED
    BY <1>t, <2>1
<1>2. waiting' \in [End -> Half \cup {None}]
  <2>1. waiting' = waiting \/ waiting' = [waiting EXCEPT ![Dir(h)] = h]
    BY Zenon DEF Acquire
  <2> QED
    BY <1>t, <2>1
<1>3. \E s \in {"locked", "wait"} : pc' = [pc EXCEPT ![h] = s]
  BY DEF Acquire
<1> QED
  BY <1>1, <1>2, <1>3

LEMMA UnlockType ==
  ASSUME TypeOK, NEW h \in Half, NEW hs, UnlockWaking(h, hs)
  PROVE  /\ lock' \in [End -> Half \cup {None}] /\ waiting' \in [End -> Half \cup {None}]
         /\ woken' \in [Half -> BOOLEAN]
BY DEF TypeOK, UnlockWaking, Wake

LEMMA ReadType == ASSUME TypeOK, NEW d \in End, Read(d) PROVE TypeOK'
<1> DEFINE h == Reader(d)
<1>1. Cap \in Nat \ {0} /\ h \in Half
  BY PlexAssumption, HalfFacts
<1>2. PICK n \in 1 .. Readable(d) :
        /\ delivered' = [delivered EXCEPT ![d] =
                           @ \o [k \in 1 .. n |-> buffer[d][ptr[d] + k - 1]]]
        /\ ptr' = [ptr EXCEPT ![d] = (@ + n) % Cap]
        /\ len' = [len EXCEPT ![d] = @ - n]
  BY DEF Read
<1>3. /\ ptr[d] \in 0 .. Cap - 1 /\ len[d] \in 0 .. Cap
      /\ n \in 1 .. len[d] /\ ptr[d] + n <= Cap
  BY <1>1, PieceFacts DEF TypeOK
<1>4. len[d] - n \in 0 .. Cap /\ (ptr[d] + n) % Cap \in 0 .. Cap - 1
  <2>1. n \in 0 .. Cap
    BY <1>1, <1>3
  <2>2. (ptr[d] + n) % Cap = IF ptr[d] + n < Cap THEN ptr[d] + n ELSE ptr[d] + n - Cap
    BY <1>3, <2>1, WrapFacts
  <2> QED
    BY <1>1, <1>3, <2>1, <2>2
<1>5. [k \in 1 .. n |-> buffer[d][ptr[d] + k - 1]] \in Seq(Nat)
  <2>1. \A k \in 1 .. n : ptr[d] + k - 1 \in 0 .. Cap - 1
    BY <1>1, <1>3
  <2>2. buffer[d] \in [0 .. Cap - 1 -> Nat]
    BY DEF TypeOK
  <2>3. \A k \in 1 .. n : buffer[d][ptr[d] + k - 1] \in Nat
    BY <2>1, <2>2
  <2>4. n \in Nat
    BY <1>3
  <2> QED
    BY <2>3, <2>4
<1>6. delivered' \in [End -> Seq(Nat)]
  BY <1>2, <1>5 DEF TypeOK
<1>7. ptr' \in [End -> 0 .. Cap - 1] /\ len' \in [End -> 0 .. Cap]
  BY <1>2, <1>4 DEF TypeOK
<1>8. waker' \in [Half -> BOOLEAN]
  BY DEF TypeOK, Read
<1>9. /\ lock' \in [End -> Half \cup {None}] /\ waiting' \in [End -> Half \cup {None}]
      /\ woken' \in [Half -> BOOLEAN]
  BY <1>1, UnlockType DEF Read
<1> QED
  BY <1>1, <1>6, <1>7, <1>8, <1>9 DEF TypeOK, Read

LEMMA WriteType == ASSUME TypeOK, NEW d \in End, Write(d) PROVE TypeOK'
<1> DEFINE h == Writer(d)
<1>1. Cap \in Nat \ {0} /\ h \in Half
  BY PlexAssumption, HalfFacts
<1>2. PICK n \in 1 .. Writable(d) :
        /\ buffer' = [buffer EXCEPT ![d] =
                        [k \in 0 .. Cap - 1 |->
                           IF k \in WriteAt(d) .. WriteAt(d) + n - 1
                             THEN Sent(d) + 1 + (k - WriteAt(d)) ELSE @[k]]]
        /\ len' = [len EXCEPT ![d] = @ + n]
  BY Zenon DEF Write
<1>3. /\ ptr[d] \in 0 .. Cap - 1 /\ len[d] \in 0 .. Cap
      /\ n \in Nat /\ len[d] + n <= Cap /\ WriteAt(d) \in Nat
  BY <1>1, PieceFacts DEF TypeOK
<1>4. Sent(d) \in Nat
  BY <1>3 DEF TypeOK, Sent
<1>5. \A k \in WriteAt(d) .. WriteAt(d) + n - 1 : Sent(d) + 1 + (k - WriteAt(d)) \in Nat
  BY <1>3, <1>4
<1> DEFINE filled == [k \in 0 .. Cap - 1 |->
                        IF k \in WriteAt(d) .. WriteAt(d) + n - 1
                          THEN Sent(d) + 1 + (k - WriteAt(d)) ELSE buffer[d][k]]
<1>6. filled \in [0 .. Cap - 1 -> Nat]
  <2>1. \A k \in 0 .. Cap - 1 : buffer[d][k] \in Nat
    BY DEF TypeOK
  <2> QED
    BY <1>5, <2>1
<1>7. buffer' = [buffer EXCEPT ![d] = filled]
  BY <1>2
<1> HIDE DEF filled
<1>8. buffer' \in [End -> [0 .. Cap - 1 -> Nat]]
  BY <1>6, <1>7 DEF TypeOK
<1>9. len' \in [End -> 0 .. Cap]
  <2>1. len[d] + n \in 0 .. Cap
    BY <1>1, <1>3
  <2> QED
    BY <1>2, <2>1 DEF TypeOK
<1>10. waker' \in [Half -> BOOLEAN]
  BY DEF TypeOK, Write
<1>11. /\ lock' \in [End -> Half \cup {None}] /\ waiting' \in [End -> Half \cup {None}]
       /\ woken' \in [Half -> BOOLEAN]
  BY <1>1, UnlockType DEF Write
<1> QED
  BY <1>8, <1>9, <1>10, <1>11 DEF TypeOK, Write

LEMMA InPollType == ASSUME TypeOK, NEW h \in Half, InPoll(h) PROVE TypeOK'
<1>1. Dir(h) \in End /\ Writer(Dir(h)) \in Half /\ Reader(Dir(h)) \in Half
  BY HalfFacts
<1>2. CASE IdleCall(h) \/ PollEnded(h)
  <2>1. CASE IdleCall(h)
    <3>1. UnlockWaking(h, {})
      BY <2>1, Zenon DEF IdleCall
    <3>2. /\ lock' \in [End -> Half \cup {None}] /\ waiting' \in [End -> Half \cup {None}]
          /\ woken' \in [Half -> BOOLEAN]
      BY <3>1, UnlockType, Zenon
    <3>3. pc' = [pc EXCEPT ![h] = "idle"] /\ UNCHANGED <<ring, waker, closed, closer, drop, to_wake>>
      BY <2>1, Zenon DEF IdleCall
    <3> QED
      BY <3>2, <3>3 DEF TypeOK, ring
  <2>2. CASE PollEnded(h)
    <3>1. UnlockWaking(h, {})
      BY <2>2, Zenon DEF PollEnded, Finish
    <3>2. /\ lock' \in [End -> Half \cup {None}] /\ waiting' \in [End -> Half \cup {None}]
          /\ woken' \in [Half -> BOOLEAN]
      BY <3>1, UnlockType, Zenon
    <3>3. pc' = [pc EXCEPT ![h] = "ended"] /\ UNCHANGED <<ring, waker, closed, closer, drop, to_wake>>
      BY <2>2, Zenon DEF PollEnded, Finish
    <3> QED
      BY <3>2, <3>3 DEF TypeOK, ring
  <2> QED
    BY <1>2, <2>1, <2>2
<1>3. CASE StartPark(h) \/ Register(h)
  <2>1. CASE StartPark(h)
    BY <1>1, <2>1 DEF StartPark, TypeOK, ring
  <2>2. CASE Register(h)
    BY <1>1, <2>2 DEF Register, TypeOK, ring
  <2> QED
    BY <1>3, <2>1, <2>2
<1>4. CASE Recheck(h)
  BY <1>4, UnlockType DEF Recheck, Finish, TypeOK, ring
<1>5. CASE Read(Dir(h)) \/ Write(Dir(h))
  BY <1>1, <1>5, ReadType, WriteType
<1>6. CASE StartClose(Dir(h))
  BY <1>1, <1>6 DEF StartClose, TypeOK, ring
<1>7. CASE FinishClose(Dir(h))
  BY <1>1, <1>7, UnlockType DEF FinishClose, TypeOK, ring
<1> QED
  BY <1>2, <1>3, <1>4, <1>5, <1>6, <1>7 DEF InPoll

LEMMA DropType ==
  ASSUME TypeOK, NEW e \in End, CloseRead(e) \/ DropStep(e) PROVE TypeOK'
<1>1. Writer(Peer(e)) \in Half /\ Reader(e) \in Half /\ Peer(e) \in End
  BY HalfFacts, PeerFacts
<1>2. CASE CloseRead(e) \/ CloseWrite(e)
  BY <1>1, <1>2 DEF CloseRead, CloseWrite, Dropping, TypeOK, ring
<1>3. CASE TakeWriter(e)
  BY <1>1, <1>3 DEF TakeWriter, TakeCloser, Dropping, TypeOK, ring
<1>4. CASE TakeReader(e)
  BY <1>1, <1>4 DEF TakeReader, TakeCloser, Dropping, TypeOK, ring
<1>5. CASE FireWakers(e)
  BY <1>5 DEF FireWakers, Wake, Dropping, TypeOK, ring
<1> QED
  BY <1>2, <1>3, <1>4, <1>5 DEF DropStep

LEMMA TypeInductive == TypeOK /\ [Next]_vars => TypeOK'
<1> SUFFICES ASSUME TypeOK, [Next]_vars PROVE TypeOK'
  OBVIOUS
<1>1. ASSUME NEW h \in Half, Poll(h) PROVE TypeOK'
  <2>1. woken' \in [Half -> BOOLEAN]
    BY <1>1 DEF Poll, TypeOK
  <2> QED
    BY <1>1, <2>1, AcquireType DEF Poll, TypeOK, ring
<1>2. CASE UNCHANGED vars
  BY <1>2 DEF vars, ring, TypeOK
<1> QED
  BY <1>1, <1>2, InPollType, DropType DEF Next

LEMMA InitTyped == Init => TypeOK
BY PlexAssumption DEF Init, TypeOK

(* futures-plex never indexes outside its ring, holds more than its         *)
(* capacity, or leaves a task in a state a poll or a drop does not know.    *)
THEOREM SpecTypeOK == Spec => []TypeOK
BY InitTyped, TypeInductive, PTL DEF Spec
-----------------------------------------------------------------------------
(* The lock.  A half is in a poll exactly while it holds it, and one that   *)
(* waits for it, unwoken, is the one the BiLock would wake.                 *)
Polling == {"locked", "register", "recheck", "closing"}

Locking ==
  /\ \A h \in Half : lock[Dir(h)] = h <=> pc[h] \in Polling
  /\ \A d \in End : lock[d] # None => Dir(lock[d]) = d
  /\ \A d \in End : waiting[d] # None => lock[d] # None
  /\ \A h \in Half : pc[h] = "wait" /\ woken[h] = FALSE => waiting[Dir(h)] = h

(* Sleep.  What a half on its way to park has registered, what it still     *)
(* knows when it is parked, and that a close taken from it will be fired.   *)
OnTheWay(h) ==
  /\ pc[h] \in {"register", "recheck"} => Blocked(h) /\ waker[h] = TRUE
  /\ pc[h] = "recheck" => closer[h] = TRUE \/ closed[Dir(h)] = TRUE

Reachable(h) == closer[h] = TRUE \/ \E e \in End : h \in to_wake[e]

Asleep(h) == pc[h] = "parked" /\ woken[h] = FALSE

Resting(h) ==
  Asleep(h) =>
    /\ Blocked(h) /\ waker[h] = TRUE /\ Reachable(h)
    /\ closed[Dir(h)] = TRUE /\ drop[Owner(h)] = "up" => CloseUnderWay(h)

(* A drop takes the wakers of a direction after it has closed it.           *)
Published ==
  \A e \in End : /\ drop[e] = "read_closed" => closed[Peer(e)] = TRUE
                 /\ drop[e] = "write_closed" => closed[e] = TRUE

IInv == TypeOK /\ Locking /\ Published /\ \A h \in Half : OnTheWay(h) /\ Resting(h)

LEMMA AcquireKeepsLocks ==
  ASSUME TypeOK, Locking, NEW h \in Half, pc[h] \notin Polling, Acquire(h),
         woken' = [woken EXCEPT ![h] = FALSE]
  PROVE  Locking'
<1>1. Dir(h) \in End /\ \A g \in Half : Dir(g) = Dir(h) => g = h \/ g = Reader(Dir(h)) \/ g = Writer(Dir(h))
  BY HalfFacts
<1>2. CASE lock[Dir(h)] = None
  <2>1. /\ lock' = [lock EXCEPT ![Dir(h)] = h] /\ pc' = [pc EXCEPT ![h] = "locked"]
        /\ waiting' = waiting /\ waiting[Dir(h)] = None
    BY <1>1, <1>2 DEF Acquire, Locking
  <2>2. ASSUME NEW g \in Half PROVE lock'[Dir(g)] = g <=> pc'[g] \in Polling
    <3>1. CASE Dir(g) = Dir(h)
      <4>1. pc[g] \notin Polling /\ lock'[Dir(g)] = h
        BY <1>1, <1>2, <2>1, <3>1, HalfFacts DEF Locking, TypeOK
      <4>2. pc'[g] = IF g = h THEN "locked" ELSE pc[g]
        BY <2>1 DEF TypeOK
      <4> QED
        BY <4>1, <4>2 DEF Polling
    <3>2. CASE Dir(g) # Dir(h)
      BY <1>1, <2>1, <3>2 DEF Locking, TypeOK
    <3> QED
      BY <3>1, <3>2
  <2>3. ASSUME NEW g \in Half, pc'[g] = "wait", woken'[g] = FALSE
        PROVE  waiting'[Dir(g)] = g
    BY <2>1, <2>3 DEF Locking, TypeOK
  <2>4. ASSUME NEW d \in End PROVE /\ lock'[d] # None => Dir(lock'[d]) = d
                                   /\ waiting'[d] # None => lock'[d] # None
    BY <1>1, <2>1, HalfFacts DEF Locking, TypeOK
  <2> QED
    BY <2>2, <2>3, <2>4 DEF Locking
<1>3. CASE lock[Dir(h)] # None
  <2>1. /\ waiting' = [waiting EXCEPT ![Dir(h)] = h] /\ pc' = [pc EXCEPT ![h] = "wait"]
        /\ lock' = lock
    BY <1>3 DEF Acquire
  <2>2. \A g \in Half : lock'[Dir(g)] = g <=> pc'[g] \in Polling
    BY <2>1 DEF Locking, Polling, TypeOK
  <2>3. ASSUME NEW g \in Half, pc'[g] = "wait", woken'[g] = FALSE
        PROVE  waiting'[Dir(g)] = g
    <3>1. CASE Dir(g) = Dir(h)
      <4>1. lock[Dir(h)] \in Half /\ Dir(lock[Dir(h)]) = Dir(h) /\ lock[Dir(h)] # h
        BY <1>1, <1>3 DEF Locking, TypeOK
      <4>2. g # lock[Dir(h)]
        BY <2>1, <2>3, <3>1, <4>1 DEF Locking, Polling, TypeOK
      <4>3. g = h
        BY <3>1, <4>1, <4>2, HalfFacts
      <4> QED
        BY <1>1, <2>1, <4>3 DEF TypeOK
    <3>2. CASE Dir(g) # Dir(h)
      BY <1>1, <2>1, <2>3, <3>2 DEF Locking, TypeOK
    <3> QED
      BY <3>1, <3>2
  <2> QED
    BY <1>1, <1>3, <2>1, <2>2, <2>3 DEF Locking, TypeOK
<1> QED
  BY <1>2, <1>3

LEMMA UnlockKeepsLocks ==
  ASSUME TypeOK, Locking, NEW h \in Half, pc[h] \in Polling, NEW hs, UnlockWaking(h, hs),
         NEW s, s \notin Polling, s # "wait", pc' = [pc EXCEPT ![h] = s]
  PROVE  Locking'
<1>1. Dir(h) \in End /\ lock[Dir(h)] = h /\ h # None
  BY HalfFacts DEF Locking
<1>2. /\ lock' = [lock EXCEPT ![Dir(h)] = None] /\ waiting' = [waiting EXCEPT ![Dir(h)] = None]
      /\ woken' = [g \in Half |-> woken[g] \/ g \in hs \cup ({waiting[Dir(h)]} \ {None})]
  BY DEF UnlockWaking, Wake
<1>3. ASSUME NEW g \in Half PROVE lock'[Dir(g)] = g <=> pc'[g] \in Polling
  BY <1>1, <1>2, HalfFacts DEF Locking, TypeOK
<1>4. ASSUME NEW g \in Half, pc'[g] = "wait", woken'[g] = FALSE
      PROVE  waiting'[Dir(g)] = g
  <2>1. pc[g] = "wait" /\ woken[g] = FALSE /\ g # waiting[Dir(h)]
    BY <1>2, <1>4, HalfFacts DEF TypeOK
  <2> QED
    BY <1>1, <1>2, <2>1, HalfFacts DEF Locking, TypeOK
<1> QED
  BY <1>1, <1>2, <1>3, <1>4 DEF Locking, TypeOK

LEMMA StayKeepsLocks ==
  ASSUME TypeOK, Locking, NEW h \in Half, pc[h] \in Polling, UNCHANGED <<lock, waiting, woken>>,
         NEW s \in Polling, pc' = [pc EXCEPT ![h] = s]
  PROVE  Locking'
BY DEF Locking, Polling, TypeOK

LEMMA DropKeepsLocks ==
  ASSUME TypeOK, Locking, UNCHANGED <<lock, waiting, pc>>,
         \A h \in Half : woken'[h] = FALSE => woken[h] = FALSE
  PROVE  Locking'
BY DEF Locking, TypeOK

LEMMA InPollKeepsLocks ==
  ASSUME TypeOK, Locking, NEW h \in Half, InPoll(h) PROVE Locking'
<1>1. h[1] = "read" => h = Reader(Dir(h))
  BY HalfFacts
<1>2. h[1] = "write" => h = Writer(Dir(h))
  BY HalfFacts
<1>3. CASE IdleCall(h)
  BY <1>3, UnlockKeepsLocks DEF IdleCall, Polling
<1>4. CASE PollEnded(h)
  BY <1>4, UnlockKeepsLocks DEF PollEnded, Finish, Polling
<1>5. CASE StartPark(h)
  BY <1>5, StayKeepsLocks DEF StartPark, Polling
<1>6. CASE Register(h)
  BY <1>6, StayKeepsLocks DEF Register, Polling
<1>7. CASE Recheck(h)
  BY <1>7, UnlockKeepsLocks DEF Recheck, Finish, Polling
<1>8. CASE h[1] = "read" /\ Read(Dir(h))
  BY <1>1, <1>8, UnlockKeepsLocks DEF Read, Polling
<1>9. CASE h[1] = "write" /\ Write(Dir(h))
  BY <1>2, <1>9, UnlockKeepsLocks DEF Write, Polling
<1>10. CASE h[1] = "write" /\ StartClose(Dir(h))
  BY <1>2, <1>10, StayKeepsLocks DEF StartClose, Polling
<1>11. CASE h[1] = "write" /\ FinishClose(Dir(h))
  BY <1>2, <1>11, UnlockKeepsLocks DEF FinishClose, Polling
<1> QED
  BY <1>3, <1>4, <1>5, <1>6, <1>7, <1>8, <1>9, <1>10, <1>11 DEF InPoll

LEMMA LockingInductive == TypeOK /\ Locking /\ [Next]_vars => Locking'
<1> SUFFICES ASSUME TypeOK, Locking, [Next]_vars PROVE Locking'
  OBVIOUS
<1>1. ASSUME NEW h \in Half, Poll(h) PROVE Locking'
  <2>1. pc[h] \notin Polling
    BY <1>1 DEF Poll, Polling
  <2> QED
    BY <1>1, <2>1, AcquireKeepsLocks DEF Poll
<1>2. ASSUME NEW e \in End, CloseRead(e) \/ DropStep(e) PROVE Locking'
  <2>1. UNCHANGED <<lock, waiting, pc>>
    BY <1>2 DEF CloseRead, DropStep, TakeWriter, CloseWrite, TakeReader, FireWakers, Dropping
  <2>2. \A h \in Half : woken'[h] = FALSE => woken[h] = FALSE
    BY <1>2 DEF CloseRead, DropStep, TakeWriter, CloseWrite, TakeReader, FireWakers, Wake, TypeOK
  <2> QED
    BY <2>1, <2>2, DropKeepsLocks
<1>3. CASE UNCHANGED vars
  BY <1>3, DropKeepsLocks DEF vars
<1> QED
  BY <1>1, <1>2, <1>3, InPollKeepsLocks DEF Next

LEMMA PublishedInductive == TypeOK /\ Published /\ [Next]_vars => Published'
<1> SUFFICES ASSUME TypeOK, Published, [Next]_vars PROVE Published'
  OBVIOUS
<1>1. ASSUME NEW h \in Half, Poll(h) \/ InPoll(h) PROVE Published'
  <2>1. drop' = drop
    BY <1>1 DEF Poll, InPoll, IdleCall, PollEnded, StartPark, Register, Recheck, Read, Write,
                StartClose, FinishClose
  <2>2. \A e \in End : closed[e] = TRUE => closed'[e] = TRUE
    BY <1>1 DEF TypeOK, Poll, InPoll, IdleCall, PollEnded, StartPark, Register, Recheck, Read,
                Write, StartClose, FinishClose
  <2> QED
    BY <2>1, <2>2, PeerFacts DEF Published
<1>2. ASSUME NEW e \in End, CloseRead(e) PROVE Published'
  <2>1. /\ drop[e] = "up" /\ drop' = [drop EXCEPT ![e] = "read_closed"]
        /\ closed' = [closed EXCEPT ![Peer(e)] = TRUE]
    BY Zenon, <1>2 DEF CloseRead, Dropping
  <2> QED
    BY <2>1, PeerFacts DEF Published, TypeOK
<1>3. ASSUME NEW e \in End, CloseWrite(e) PROVE Published'
  <2>1. /\ drop[e] = "read_taken" /\ drop' = [drop EXCEPT ![e] = "write_closed"]
        /\ closed' = [closed EXCEPT ![e] = TRUE]
    BY Zenon, <1>3 DEF CloseWrite, Dropping
  <2> QED
    BY <2>1, PeerFacts DEF Published, TypeOK
<1>4. ASSUME NEW e \in End, TakeWriter(e) \/ TakeReader(e) \/ FireWakers(e) PROVE Published'
  <2>1. closed' = closed
    BY <1>4 DEF TakeWriter, TakeReader, FireWakers
  <2>2. \A f \in End : drop'[f] \in {"read_closed", "write_closed"} => drop'[f] = drop[f]
    BY <1>4 DEF TakeWriter, TakeReader, FireWakers, Dropping, TypeOK
  <2> QED
    BY <2>1, <2>2 DEF Published
<1>5. CASE UNCHANGED vars
  BY <1>5 DEF vars, Published
<1> QED
  BY <1>1, <1>2, <1>3, <1>4, <1>5 DEF Next, DropStep
-----------------------------------------------------------------------------
(* A half that a step leaves alone, in a direction it does not change.      *)
LEMMA Quiet ==
  ASSUME TypeOK, TypeOK', NEW g \in Half, OnTheWay(g), Resting(g),
         pc'[g] = pc[g], waker'[g] = waker[g], closer'[g] = closer[g],
         len'[Dir(g)] = len[Dir(g)], closed'[Dir(g)] = closed[Dir(g)],
         woken'[g] = FALSE => woken[g] = FALSE, UNCHANGED <<to_wake, drop>>,
         pc[Writer(Dir(g))] = "closing" => pc'[Writer(Dir(g))] = "closing"
  PROVE  OnTheWay(g)' /\ Resting(g)'
<1>1. Blocked(g)' <=> Blocked(g)
  BY DEF Blocked
<1>2. Reachable(g)' <=> Reachable(g)
  BY DEF Reachable
<1>3. CloseUnderWay(g) => CloseUnderWay(g)'
  BY DEF CloseUnderWay
<1>4. OnTheWay(g)'
  BY <1>1 DEF OnTheWay
<1>5. Asleep(g)' => Asleep(g)
  BY DEF Asleep
<1> QED
  BY <1>1, <1>2, <1>3, <1>4, <1>5 DEF Resting

(* One that is outside a poll and not parked has nothing to keep.           *)
LEMMA Awake ==
  ASSUME NEW g \in Half, pc'[g] \notin {"register", "recheck", "parked"}
  PROVE  OnTheWay(g)' /\ Resting(g)'
BY DEF OnTheWay, Resting, Asleep

Sleep == \A h \in Half : OnTheWay(h) /\ Resting(h)

LEMMA PollKeepsSleep ==
  ASSUME TypeOK, TypeOK', Sleep, NEW h \in Half, Poll(h) PROVE Sleep'
<1>1. PICK s \in {"locked", "wait"} : pc' = [pc EXCEPT ![h] = s]
  BY AcquireType DEF Poll
<1>2. pc[h] # "closing"
  BY DEF Poll
<1>3. ASSUME NEW g \in Half PROVE OnTheWay(g)' /\ Resting(g)'
  <2>1. CASE g = h
    BY <1>1, <2>1, Awake DEF TypeOK
  <2>2. CASE g # h
    <3>1. UNCHANGED <<len, waker, closer, closed, to_wake, drop>>
      BY DEF Poll, ring
    <3>2. pc'[g] = pc[g] /\ (woken'[g] = FALSE => woken[g] = FALSE)
      BY <1>1, <2>2 DEF Poll, TypeOK
    <3>3. pc[Writer(Dir(g))] = "closing" => pc'[Writer(Dir(g))] = "closing"
      BY <1>1, <1>2, HalfFacts DEF TypeOK
    <3> QED
      BY <3>1, <3>2, <3>3, Quiet DEF Sleep
  <2> QED
    BY <2>1, <2>2
<1> QED
  BY <1>3 DEF Sleep

(* Steps of a poll that touch only the half that makes them. *)
LEMMA OwnStepKeepsSleep ==
  ASSUME TypeOK, TypeOK', Locking, Sleep, NEW h \in Half,
         IdleCall(h) \/ PollEnded(h) \/ StartPark(h) \/ Register(h) \/ Recheck(h)
  PROVE  Sleep'
<1>1. pc[h] # "closing" /\ \E s : pc' = [pc EXCEPT ![h] = s]
  BY DEF IdleCall, PollEnded, StartPark, Register, Recheck, Finish
<1>2. UNCHANGED <<len, closed, to_wake, drop>>
  BY DEF IdleCall, PollEnded, StartPark, Register, Recheck, ring
<1>3. \A g \in Half : woken'[g] = FALSE => woken[g] = FALSE
  BY DEF IdleCall, PollEnded, StartPark, Register, Recheck, Finish, UnlockWaking, Wake, TypeOK
<1>4. \A g \in Half \ {h} : waker'[g] = waker[g] /\ closer'[g] = closer[g] /\ pc'[g] = pc[g]
  BY <1>1 DEF IdleCall, PollEnded, StartPark, Register, Recheck, TypeOK
<1>5. ASSUME NEW g \in Half, g # h PROVE OnTheWay(g)' /\ Resting(g)'
  <2>1. pc[Writer(Dir(g))] = "closing" => pc'[Writer(Dir(g))] = "closing"
    BY <1>1, <1>4, HalfFacts
  <2> QED
    BY <1>2, <1>3, <1>4, <1>5, <2>1, Quiet DEF Sleep
<1>6. OnTheWay(h)' /\ Resting(h)'
  <2>1. CASE IdleCall(h) \/ PollEnded(h)
    BY <2>1, Awake DEF IdleCall, PollEnded, Finish, TypeOK
  <2>2. CASE StartPark(h)
    BY <2>2 DEF StartPark, OnTheWay, Resting, Asleep, Blocked, TypeOK, ring
  <2>3. CASE Register(h)
    BY <2>3 DEF Register, Sleep, OnTheWay, Resting, Asleep, Blocked, TypeOK, ring
  <2>4. CASE Recheck(h) /\ closed[Dir(h)] = TRUE
    BY <2>4, Awake DEF Recheck, Finish, TypeOK
  <2>5. CASE Recheck(h) /\ closed[Dir(h)] # TRUE
    <3>1. pc[h] = "recheck" /\ pc' = [pc EXCEPT ![h] = "parked"]
          /\ UNCHANGED <<len, waker, closed, closer>>
      BY <2>5 DEF Recheck, TypeOK, ring
    <3>2. Blocked(h) /\ waker[h] = TRUE /\ closer[h] = TRUE
      BY <2>5, <3>1 DEF Sleep, OnTheWay
    <3>3. Blocked(h)'
      BY <3>1, <3>2 DEF Blocked
    <3> QED
      BY <2>5, <3>1, <3>2, <3>3 DEF OnTheWay, Resting, Asleep, Reachable, TypeOK
  <2> QED
    BY <2>1, <2>2, <2>3, <2>4, <2>5
<1> QED
  BY <1>5, <1>6 DEF Sleep

(* Bytes moved: the other half, if it slept, is woken by its waker.         *)
LEMMA MoveKeepsSleep ==
  ASSUME TypeOK, TypeOK', Locking, Sleep, NEW d \in End, NEW h \in Half, NEW o \in Half,
         \/ h = Reader(d) /\ o = Writer(d)
         \/ h = Writer(d) /\ o = Reader(d), pc[h] = "locked",
         pc' = [pc EXCEPT ![h] = "idle"], waker' = [waker EXCEPT ![o] = FALSE],
         UnlockWaking(h, TakeWaker(o)), UNCHANGED <<closed, closer, drop, to_wake>>,
         \A f \in End \ {d} : len'[f] = len[f]
  PROVE  Sleep'
<1>1. Dir(h) = d /\ Dir(o) = d /\ h # o
  BY HalfFacts
<1>2. \A g \in Half : woken'[g] = FALSE => woken[g] = FALSE /\ g \notin TakeWaker(o)
  BY DEF UnlockWaking, Wake, TypeOK
<1>3. OnTheWay(h)' /\ Resting(h)'
  BY Awake DEF TypeOK
<1>4. OnTheWay(o)' /\ Resting(o)'
  <2>1. pc'[o] = pc[o] /\ pc[o] \notin Polling
    BY <1>1 DEF Locking, Polling, TypeOK
  <2>2. ~Asleep(o)'
    BY <1>2, <2>1 DEF Sleep, Resting, Asleep, TakeWaker
  <2> QED
    BY <2>1, <2>2 DEF OnTheWay, Resting, Polling
<1>5. ASSUME NEW g \in Half, g # h, g # o PROVE OnTheWay(g)' /\ Resting(g)'
  <2>1. Dir(g) \in End \ {d} /\ Writer(Dir(g)) # h
    BY <1>1, <1>5, HalfFacts
  <2>2. /\ pc'[g] = pc[g] /\ waker'[g] = waker[g] /\ len'[Dir(g)] = len[Dir(g)]
        /\ pc'[Writer(Dir(g))] = pc[Writer(Dir(g))]
    BY <1>5, <2>1, HalfFacts DEF TypeOK
  <2> QED
    BY <1>2, <2>2, Quiet DEF Sleep
<1> QED
  BY <1>3, <1>4, <1>5 DEF Sleep

LEMMA ReadKeepsSleep ==
  ASSUME TypeOK, TypeOK', Locking, Sleep, NEW d \in End, Read(d) PROVE Sleep'
<1>1. \A f \in End \ {d} : len'[f] = len[f]
  BY DEF Read, TypeOK
<1> QED
  BY <1>1, MoveKeepsSleep, HalfFacts DEF Read

LEMMA WriteKeepsSleep ==
  ASSUME TypeOK, TypeOK', Locking, Sleep, NEW d \in End, Write(d) PROVE Sleep'
<1>1. \A f \in End \ {d} : len'[f] = len[f]
  BY DEF Write, TypeOK
<1> QED
  BY <1>1, MoveKeepsSleep, HalfFacts DEF Write

(* poll_close: the flag, then the waker of the reader.                      *)
LEMMA CloseKeepsSleep ==
  ASSUME TypeOK, TypeOK', Locking, Sleep, NEW d \in End, StartClose(d) \/ FinishClose(d)
  PROVE  Sleep'
<1> DEFINE h == Writer(d)
           o == Reader(d)
<1>1. /\ h \in Half /\ o \in Half /\ h # o /\ Dir(h) = d /\ Dir(o) = d
      /\ o[1] = "read" /\ Owner(o) = Peer(d)
  BY HalfFacts
<1>2. pc[h] \in Polling
  BY DEF StartClose, FinishClose, Polling
<1>3. pc[o] \notin Polling
  BY <1>1, <1>2 DEF Locking
<1>4. \E s \in {"closing", "ended"} : pc' = [pc EXCEPT ![h] = s]
  BY DEF StartClose, FinishClose
<1>5. OnTheWay(h)' /\ Resting(h)'
  BY <1>1, <1>4, Awake DEF TypeOK
<1>6. UNCHANGED <<len, waker, to_wake, drop>>
  BY DEF StartClose, FinishClose, ring
<1>7. \A g \in Half : woken'[g] = FALSE => woken[g] = FALSE
  BY DEF StartClose, FinishClose, UnlockWaking, Wake, TypeOK
<1>8. OnTheWay(o)' /\ Resting(o)'
  <2>1. pc'[o] = pc[o]
    BY <1>1, <1>4 DEF TypeOK
  <2>2. OnTheWay(o)'
    BY <1>3, <2>1 DEF OnTheWay, Polling
  <2>3. ASSUME Asleep(o)' PROVE Asleep(o) /\ Blocked(o)' /\ waker'[o] = TRUE /\ Reachable(o)
    BY <1>1, <1>6, <1>7, <2>1, <2>3 DEF Asleep, Sleep, Resting, Blocked
  <2>4. ASSUME Asleep(o)' PROVE Reachable(o)' /\ CloseUnderWay(o)'
    <3>1. CASE StartClose(d)
      <4>1. closer' = closer /\ to_wake' = to_wake /\ pc'[h] = "closing"
        BY <1>1, <3>1 DEF StartClose, TypeOK
      <4>2. Reachable(o)
        BY <2>3, <2>4
      <4>3. Reachable(o)'
        BY <4>1, <4>2 DEF Reachable
      <4>4. CloseUnderWay(o)'
        BY <1>1, <4>1, <4>2 DEF Reachable, CloseUnderWay
      <4> QED
        BY <4>3, <4>4
    <3>2. CASE FinishClose(d)
      <4>1. closer[o] # TRUE
        BY <1>1, <2>4, <3>2 DEF FinishClose, UnlockWaking, Wake, TakeCloser, Asleep, TypeOK
      <4> QED
        BY <1>6, <2>3, <2>4, <4>1 DEF Reachable, CloseUnderWay
    <3> QED
      BY <3>1, <3>2
  <2> QED
    BY <2>2, <2>3, <2>4 DEF Resting
<1>9. ASSUME NEW g \in Half, g # h, g # o PROVE OnTheWay(g)' /\ Resting(g)'
  <2>1. Dir(g) \in End \ {d} /\ Writer(Dir(g)) \in Half \ {h}
    BY <1>1, <1>9, HalfFacts
  <2>2. pc'[g] = pc[g] /\ pc'[Writer(Dir(g))] = pc[Writer(Dir(g))]
    BY <1>4, <1>9, <2>1 DEF TypeOK
  <2>3. closed'[Dir(g)] = closed[Dir(g)] /\ closer'[g] = closer[g]
    BY <1>1, <1>9, <2>1 DEF StartClose, FinishClose, TypeOK
  <2> QED
    BY <1>6, <1>7, <2>1, <2>2, <2>3, Quiet DEF Sleep
<1> QED
  BY <1>5, <1>8, <1>9 DEF Sleep

(* A drop.  Its flag comes before it takes a waker, and the waker it took   *)
(* is fired at its end.                                                     *)
LEMMA DropStepKeepsSleep ==
  ASSUME TypeOK, TypeOK', Published, Sleep, NEW e \in End, CloseRead(e) \/ DropStep(e)
  PROVE  Sleep'
<1>1. UNCHANGED <<len, waker, pc>>
  BY DEF CloseRead, DropStep, TakeWriter, CloseWrite, TakeReader, FireWakers, Dropping, ring
<1>2. \A g \in Half : woken'[g] = FALSE => woken[g] = FALSE
  <2>1. UNCHANGED woken \/ Wake(to_wake[e])
    BY Zenon DEF CloseRead, DropStep, TakeWriter, CloseWrite, TakeReader, FireWakers
  <2> QED
    BY <2>1 DEF Wake, TypeOK
<1>3. \A f \in End : closed[f] = TRUE => closed'[f] = TRUE
  <2>1. \/ UNCHANGED closed
        \/ closed' = [closed EXCEPT ![Peer(e)] = TRUE] \/ closed' = [closed EXCEPT ![e] = TRUE]
    BY Zenon DEF CloseRead, DropStep, TakeWriter, CloseWrite, TakeReader, FireWakers
  <2> QED
    BY <2>1, PeerFacts DEF TypeOK
<1>d. PICK to \in {"read_closed", "read_taken", "write_closed", "write_taken", "gone"} :
        drop' = [drop EXCEPT ![e] = to]
  <2>1. CASE CloseRead(e) \/ CloseWrite(e)
    BY <2>1 DEF CloseRead, CloseWrite, Dropping
  <2>2. CASE TakeWriter(e) \/ TakeReader(e)
    BY <2>2 DEF TakeWriter, TakeReader, Dropping
  <2>3. CASE FireWakers(e)
    BY <2>3 DEF FireWakers, Dropping
  <2> QED
    BY <2>1, <2>2, <2>3 DEF DropStep
<1>4. \A f \in End \ {e} : drop'[f] = drop[f]
  BY <1>d DEF TypeOK
<1>5. drop'[e] # "up"
  BY <1>d DEF TypeOK
<1>6. ASSUME NEW g \in Half, closer[g] = TRUE, closer'[g] # TRUE
      PROVE  closed'[Dir(g)] = TRUE /\ g \in to_wake'[e]
  <2>1. CASE TakeWriter(e)
    <3>1. g = Writer(Peer(e)) /\ drop[e] = "read_closed"
      BY <1>6, <2>1, PeerFacts, HalfFacts DEF TakeWriter, Dropping, TypeOK
    <3>2. closed[Peer(e)] = TRUE /\ Dir(g) = Peer(e)
      BY <3>1, PeerFacts, HalfFacts DEF Published
    <3> QED
      BY <1>3, <1>6, <2>1, <3>1, <3>2, PeerFacts DEF TakeWriter, TakeCloser, TypeOK
  <2>2. CASE TakeReader(e)
    <3>1. g = Reader(e) /\ drop[e] = "write_closed"
      BY <1>6, <2>2, HalfFacts DEF TakeReader, Dropping, TypeOK
    <3>2. closed[e] = TRUE /\ Dir(g) = e
      BY <3>1, HalfFacts DEF Published
    <3> QED
      BY <1>3, <1>6, <2>2, <3>1, <3>2 DEF TakeReader, TakeCloser, TypeOK
  <2> QED
    BY <1>6, <2>1, <2>2 DEF CloseRead, DropStep, CloseWrite, FireWakers
<1>7. ASSUME NEW g \in Half, NEW f \in End, g \in to_wake[f], g \notin to_wake'[f]
      PROVE  woken'[g] = TRUE
  <2>1. CASE FireWakers(e)
    <3>1. f = e
      BY <1>7, <2>1 DEF FireWakers, TypeOK
    <3>2. woken' = [h \in Half |-> woken[h] \/ h \in to_wake[e]]
      BY <2>1 DEF FireWakers, Wake
    <3>3. g \in to_wake[e]
      BY <1>7, <3>1
    <3> QED
      BY <3>2, <3>3
  <2>2. ASSUME NEW X, to_wake' = [to_wake EXCEPT ![e] = @ \cup X] PROVE FALSE
    BY <1>7, <2>2 DEF TypeOK
  <2> QED
    BY <1>7, <2>1, <2>2 DEF CloseRead, DropStep, CloseWrite, TakeWriter, TakeReader
<1>8. ASSUME NEW g \in Half PROVE OnTheWay(g)'
  BY <1>1, <1>3, <1>6, HalfFacts DEF Sleep, OnTheWay, Blocked
<1>9. ASSUME NEW g \in Half, Asleep(g)' PROVE Asleep(g) /\ Blocked(g)' /\ waker'[g] = TRUE
  BY <1>1, <1>2, <1>9 DEF Sleep, Resting, Asleep, Blocked
<1>10. ASSUME NEW g \in Half, Asleep(g)' PROVE Reachable(g)'
  BY <1>6, <1>7, <1>9, <1>10 DEF Sleep, Resting, Asleep, Reachable
<1>11. ASSUME NEW g \in Half, Asleep(g)', closed'[Dir(g)] = TRUE, drop'[Owner(g)] = "up"
       PROVE  CloseUnderWay(g)'
  <2>1. Owner(g) # e /\ drop[Owner(g)] = "up"
    BY <1>4, <1>5, <1>11, HalfFacts
  <2>2. CASE \E f \in End : g \in to_wake'[f]
    BY <2>2 DEF CloseUnderWay
  <2>3. CASE ~\E f \in End : g \in to_wake'[f]
    <3>1. closer'[g] = TRUE /\ closer[g] = TRUE /\ ~\E f \in End : g \in to_wake[f]
      BY <1>7, <1>10, <1>11, <2>3
         DEF Reachable, Asleep, CloseRead, DropStep, TakeWriter, CloseWrite, TakeReader,
             FireWakers, TypeOK
    <3>2. CASE closed[Dir(g)] = TRUE
      <4>1. CloseUnderWay(g)
        BY <1>9, <1>11, <2>1, <3>2 DEF Sleep, Resting
      <4>2. ASSUME drop[e] = IF g[1] = "write" THEN "read_closed" ELSE "write_closed"
            PROVE  FALSE
        <5>1. g[1] = "write" => g = Writer(Peer(e))
          BY <2>1, PeerFacts, HalfFacts
        <5>2. g[1] # "write" => g = Reader(e)
          BY <2>1, PeerFacts, HalfFacts
        <5>3. TakeWriter(e) \/ TakeReader(e)
          BY <4>2 DEF CloseRead, DropStep, CloseWrite, TakeWriter, TakeReader, FireWakers,
                      Dropping
        <5> QED
          BY <3>1, <4>2, <5>1, <5>2, <5>3 DEF TakeWriter, TakeReader, Dropping, TypeOK
      <4>3. ASSUME NEW f \in End \ {Owner(g)} PROVE f = e
        BY <2>1, PeerFacts, HalfFacts
      <4> QED
        BY <1>1, <3>1, <4>1, <4>2, <4>3 DEF CloseUnderWay
    <3>3. CASE closed[Dir(g)] # TRUE
      <4>1. CASE CloseRead(e)
        <5>1. Dir(g) = Peer(e)
          BY <1>11, <3>3, <4>1, PeerFacts, HalfFacts DEF CloseRead, TypeOK
        <5>2. g[1] = "write"
          BY <2>1, <5>1, PeerFacts, HalfFacts
        <5>3. drop'[e] = "read_closed"
          BY <4>1 DEF CloseRead, Dropping, TypeOK
        <5> QED
          BY <2>1, <3>1, <5>2, <5>3 DEF CloseUnderWay
      <4>2. CASE CloseWrite(e)
        <5>1. Dir(g) = e
          BY <1>11, <3>3, <4>2, HalfFacts DEF CloseWrite, TypeOK
        <5>2. g[1] # "write"
          BY <2>1, <5>1, PeerFacts, HalfFacts
        <5>3. drop'[e] = "write_closed"
          BY <4>2 DEF CloseWrite, Dropping, TypeOK
        <5> QED
          BY <2>1, <3>1, <5>2, <5>3 DEF CloseUnderWay
      <4> QED
        BY <1>11, <3>3, <4>1, <4>2 DEF DropStep, TakeWriter, TakeReader, FireWakers
    <3> QED
      BY <3>2, <3>3
  <2> QED
    BY <2>2, <2>3
<1> QED
  BY <1>8, <1>9, <1>10, <1>11 DEF Sleep, Resting

LEMMA Invariance == IInv /\ [Next]_vars => IInv'
<1> SUFFICES ASSUME IInv, [Next]_vars PROVE IInv'
  OBVIOUS
<1>1. TypeOK /\ TypeOK' /\ Locking /\ Published /\ Sleep
  BY TypeInductive DEF IInv, Sleep
<1>2. ASSUME NEW h \in Half, InPoll(h) PROVE Sleep'
  BY <1>1, <1>2, HalfFacts, OwnStepKeepsSleep, ReadKeepsSleep, WriteKeepsSleep, CloseKeepsSleep
     DEF InPoll
<1>3. ASSUME UNCHANGED vars PROVE Sleep'
  BY <1>1, <1>3, Quiet DEF vars, ring, Sleep
<1>4. ASSUME NEW h \in Half, Poll(h) PROVE Sleep'
  BY <1>1, <1>4, PollKeepsSleep
<1>5. ASSUME NEW e \in End, CloseRead(e) \/ DropStep(e) PROVE Sleep'
  BY <1>1, <1>5, DropStepKeepsSleep
<1>6. Sleep'
  BY <1>2, <1>3, <1>4, <1>5 DEF Next
<1> QED
  BY <1>1, <1>6, LockingInductive, PublishedInductive DEF IInv, Sleep

LEMMA InitInvariant == Init => IInv
<1> SUFFICES ASSUME Init PROVE IInv
  OBVIOUS
<1>1. Locking
  BY HalfFacts DEF Init, Locking, Polling
<1>2. Published
  BY DEF Init, Published
<1>3. ASSUME NEW h \in Half PROVE pc[h] = "idle"
  BY DEF Init
<1> QED
  BY <1>1, <1>2, <1>3, InitTyped DEF IInv, OnTheWay, Resting, Asleep

LEMMA WakesFollow == IInv => NoLostWake /\ NoLostUnlock
<1> SUFFICES ASSUME IInv PROVE NoLostWake /\ NoLostUnlock
  OBVIOUS
<1>1. ASSUME NEW h \in Half, pc[h] = "wait", ~woken[h]
      PROVE  waiting[Dir(h)] = h /\ lock[Dir(h)] \notin {None, h}
  <2>1. woken[h] = FALSE
    BY <1>1 DEF IInv, TypeOK
  <2> QED
    BY <1>1, <2>1, HalfFacts DEF IInv, Locking, Polling
<1>2. ASSUME NEW h \in Half, pc[h] = "parked", ~woken[h], drop[Owner(h)] = "up"
      PROVE  Blocked(h) /\ waker[h] /\ (closed[Dir(h)] => CloseUnderWay(h))
  <2>1. Resting(h) /\ Asleep(h)
    BY <1>2 DEF IInv, Asleep, TypeOK
  <2>2. closed[Dir(h)] => closed[Dir(h)] = TRUE
    BY HalfFacts DEF IInv, TypeOK
  <2> QED
    BY <1>2, <2>1, <2>2 DEF Resting
<1> QED
  BY <1>1, <1>2 DEF NoLostWake, NoLostUnlock

(* No close is lost between a poll's look at the flag and the registration  *)
(* of its waker, in any interleaving of the polls and the drops.            *)
THEOREM SpecNoLostWake == Spec => []NoLostWake
BY InitInvariant, Invariance, WakesFollow, PTL DEF Spec

(* Whoever waits for the BiLock is the one that its holder will wake.       *)
THEOREM SpecNoLostUnlock == Spec => []NoLostUnlock
BY InitInvariant, Invariance, WakesFollow, PTL DEF Spec
-----------------------------------------------------------------------------
(* The ring buffers of futures-plex implement the closable pipe: what get   *)
(* and get_mut hand out across a wrap is the head of a queue and the room   *)
(* behind it, and a reader ends only on an empty one.                       *)
Bytes == [0 .. Cap - 1 -> Nat]

(* What a ring b holds that starts at p and is m long, and where the k-th   *)
(* byte lies: before the wrap or behind it.                                 *)
Ring(b, p, m) == [k \in 1 .. m |-> b[(p + k - 1) % Cap]]

Place(p, k) == IF p + k <= Cap THEN p + k - 1 ELSE p + k - 1 - Cap

LEMMA PlaceFacts ==
  ASSUME NEW p \in 0 .. Cap - 1, NEW k \in 1 .. Cap
  PROVE  Place(p, k) \in 0 .. Cap - 1 /\ (p + k - 1) % Cap = Place(p, k)
<1>1. Cap \in Nat \ {0}
  BY PlexAssumption
<1> QED
  BY <1>1 DEF Place

LEMMA RingFacts ==
  ASSUME NEW b \in Bytes, NEW p \in 0 .. Cap - 1, NEW m \in 0 .. Cap
  PROVE  /\ Ring(b, p, m) \in Seq(Nat) /\ Len(Ring(b, p, m)) = m
         /\ \A k \in 1 .. m : Ring(b, p, m)[k] = b[Place(p, k)]
<1>1. Cap \in Nat \ {0} /\ m \in Nat
  BY PlexAssumption
<1>2. \A k \in 1 .. m : k \in 1 .. Cap
  BY <1>1
<1>3. \A k \in 1 .. m : Place(p, k) \in 0 .. Cap - 1 /\ (p + k - 1) % Cap = Place(p, k)
  BY <1>2, PlaceFacts
<1>4. \A k \in 1 .. m : b[(p + k - 1) % Cap] \in Nat
  BY <1>3 DEF Bytes
<1>5. \A k \in 1 .. m : Ring(b, p, m)[k] = b[Place(p, k)]
  BY <1>3 DEF Ring
<1>6. Ring(b, p, m) \in [1 .. m -> Nat]
  BY <1>4 DEF Ring
<1>7. Ring(b, p, m) \in Seq(Nat) /\ Len(Ring(b, p, m)) = m
  BY <1>1, <1>6
<1> QED
  BY <1>5, <1>7

(* A piece that does not wrap, taken from the front. *)
LEMMA TakeFacts ==
  ASSUME NEW b \in Bytes, NEW p \in 0 .. Cap - 1, NEW m \in 0 .. Cap,
         NEW n \in 1 .. m, p + n <= Cap
  PROVE  /\ [k \in 1 .. n |-> b[p + k - 1]] = SubSeq(Ring(b, p, m), 1, n)
         /\ Ring(b, (p + n) % Cap, m - n) = SubSeq(Ring(b, p, m), n + 1, m)
<1> DEFINE piece == [k \in 1 .. n |-> b[p + k - 1]]
           q     == (p + n) % Cap
           s     == Ring(b, p, m)
<1>1. /\ Cap \in Nat \ {0} /\ m \in Nat /\ n \in Nat /\ n \in 0 .. Cap /\ m - n \in 0 .. Cap
      /\ n <= m /\ m <= Cap
  BY PlexAssumption
<1>2. q = IF p + n < Cap THEN p + n ELSE p + n - Cap
  BY <1>1, WrapFacts
<1>3. q \in 0 .. Cap - 1
  BY <1>1, <1>2
<1>4. s \in Seq(Nat) /\ Len(s) = m /\ \A k \in 1 .. m : s[k] = b[Place(p, k)]
  BY RingFacts
<1>5. piece \in Seq(Nat) /\ Len(piece) = n /\ \A k \in 1 .. n : piece[k] = b[p + k - 1]
  <2>1. \A k \in 1 .. n : p + k - 1 \in 0 .. Cap - 1
    BY <1>1
  <2>2. \A k \in 1 .. n : b[p + k - 1] \in Nat
    BY <2>1 DEF Bytes
  <2> QED
    BY <1>1, <2>2
<1>6. /\ SubSeq(s, 1, n) \in Seq(Nat) /\ Len(SubSeq(s, 1, n)) = n
      /\ \A k \in 1 .. n : SubSeq(s, 1, n)[k] = s[k]
  <2> HIDE DEF s
  <2> QED
    BY <1>1, <1>4
<1>7. /\ SubSeq(s, n + 1, m) \in Seq(Nat) /\ Len(SubSeq(s, n + 1, m)) = m - n
      /\ \A k \in 1 .. m - n : SubSeq(s, n + 1, m)[k] = s[n + k]
  <2> HIDE DEF s
  <2> QED
    BY <1>1, <1>4
<1>8. piece = SubSeq(s, 1, n)
  <2>1. \A k \in 1 .. n : k \in 1 .. m /\ Place(p, k) = p + k - 1
    BY <1>1 DEF Place
  <2>2. \A k \in 1 .. n : piece[k] = SubSeq(s, 1, n)[k]
    BY <1>4, <1>5, <1>6, <2>1
  <2> HIDE DEF piece, s
  <2> QED
    BY <1>5, <1>6, <2>2, SeqEqual
<1>9. Ring(b, q, m - n) = SubSeq(s, n + 1, m)
  <2> HIDE DEF q, s
  <2>1. /\ Ring(b, q, m - n) \in Seq(Nat) /\ Len(Ring(b, q, m - n)) = m - n
        /\ \A k \in 1 .. m - n : Ring(b, q, m - n)[k] = b[Place(q, k)]
    BY <1>1, <1>3, RingFacts
  <2>2. \A k \in 1 .. m - n : n + k \in 1 .. m /\ Place(q, k) = Place(p, n + k)
    BY <1>1, <1>2 DEF Place
  <2>3. \A k \in 1 .. m - n : Ring(b, q, m - n)[k] = SubSeq(s, n + 1, m)[k]
    BY <1>4, <1>7, <2>1, <2>2
  <2> QED
    BY <1>7, <2>1, <2>3, SeqEqual
<1> QED
  BY <1>8, <1>9

(* A piece that does not wrap, put behind the end. *)
Filled(b, w, n, sent) ==
  [k \in 0 .. Cap - 1 |-> IF k \in w .. w + n - 1 THEN sent + 1 + (k - w) ELSE b[k]]

Numbered(n, sent) == [k \in 1 .. n |-> sent + k]

Behind(p, m) == (p + m) % Cap

LEMMA PutFacts ==
  ASSUME NEW b \in Bytes, NEW p \in 0 .. Cap - 1, NEW m \in 0 .. Cap, NEW n \in Nat,
         NEW sent \in Nat, m + n <= Cap, Behind(p, m) + n <= Cap
  PROVE  Ring(Filled(b, Behind(p, m), n, sent), p, m + n) = Ring(b, p, m) \o Numbered(n, sent)
<1> DEFINE w == Behind(p, m)
           r == m + n
           c == Filled(b, w, n, sent)
<1> DEFINE added == Numbered(n, sent)
           s     == Ring(b, p, m)
           t     == Ring(c, p, r)
<1>1. Cap \in Nat \ {0} /\ m \in Nat /\ r \in 0 .. Cap /\ r = m + n
  BY PlexAssumption
<1>2. w = IF p + m < Cap THEN p + m ELSE p + m - Cap
  BY <1>1, WrapFacts DEF Behind
<1>0. c \in Bytes
  <2>1. w \in Nat
    BY <1>1, <1>2
  <2> HIDE DEF w
  <2>2. \A k \in w .. w + n - 1 : sent + 1 + (k - w) \in Nat
    BY <2>1
  <2> QED
    BY <2>2 DEF Filled, Bytes
<1>3. s \in Seq(Nat) /\ Len(s) = m /\ \A k \in 1 .. m : s[k] = b[Place(p, k)]
  BY RingFacts
<1>4. t \in Seq(Nat) /\ Len(t) = m + n /\ \A k \in 1 .. m + n : t[k] = c[Place(p, k)]
  BY <1>0, <1>1, RingFacts
<1>5. added \in Seq(Nat) /\ Len(added) = n /\ \A k \in 1 .. n : added[k] = sent + k
  <2>1. added \in [1 .. n -> Nat]
    BY DEF Numbered
  <2> QED
    BY <2>1 DEF Numbered
<1> DEFINE u == s \o added
<1> HIDE DEF s, t, added
<1>6. /\ u \in Seq(Nat) /\ Len(u) = m + n
      /\ \A k \in 1 .. m + n : u[k] = IF k <= m THEN s[k] ELSE added[k - m]
  BY <1>3, <1>5, ConcatProperties
<1> HIDE DEF u
<1>7. ASSUME NEW k \in 1 .. m + n PROVE t[k] = u[k]
  <2>1. Place(p, k) \in 0 .. Cap - 1
    BY <1>1, PlaceFacts
  <2>2. CASE k <= m
    <3>1. Place(p, k) \notin w .. w + n - 1
      BY <1>1, <1>2, <2>2 DEF Place
    <3>2. c[Place(p, k)] = b[Place(p, k)]
      BY <2>1, <3>1 DEF Filled
    <3>3. u[k] = s[k]
      BY <1>6, <2>2
    <3>4. k \in 1 .. m
      BY <1>1, <2>2
    <3> QED
      BY <1>3, <1>4, <3>2, <3>3, <3>4
  <2>3. CASE k > m
    <3>1. /\ Place(p, k) \in w .. w + n - 1 /\ Place(p, k) - w = k - m - 1
          /\ k - m \in 1 .. n
      BY <1>1, <1>2, <2>3 DEF Place
    <3>2. c[Place(p, k)] = sent + 1 + (k - m - 1)
      BY <2>1, <3>1 DEF Filled
    <3>3. u[k] = added[k - m]
      BY <1>1, <1>6, <2>3
    <3>4. added[k - m] = sent + (k - m)
      BY <1>5, <3>1
    <3>5. sent + (k - m) = sent + 1 + (k - m - 1)
      BY <1>1
    <3> QED
      BY <1>4, <3>2, <3>3, <3>4, <3>5
  <2>4. k <= m \/ k > m
    BY <1>1
  <2> QED
    BY <2>2, <2>3, <2>4
<1>8. t = u
  BY <1>1, <1>4, <1>6, <1>7, SeqEqual
<1> QED
  BY <1>8 DEF s, t, u, added
-----------------------------------------------------------------------------
(* The steps of the halves and of the drops, as steps of the pipe. *)
Queue == [d \in End |-> Contents(d)]
Ended == {d \in End : pc[Reader(d)] = "ended"}

LEMMA QueueFacts ==
  ASSUME TypeOK, NEW d \in End
  PROVE  /\ Queue[d] = Ring(buffer[d], ptr[d], len[d]) /\ Len(Queue[d]) = len[d]
         /\ buffer[d] \in Bytes /\ ptr[d] \in 0 .. Cap - 1 /\ len[d] \in 0 .. Cap
<1>1. buffer[d] \in Bytes /\ ptr[d] \in 0 .. Cap - 1 /\ len[d] \in 0 .. Cap
  BY DEF TypeOK, Bytes
<1>2. Queue[d] = Ring(buffer[d], ptr[d], len[d])
  BY DEF Queue, Contents, Ring
<1> QED
  BY <1>1, <1>2, RingFacts

LEMMA QueueStays == UNCHANGED <<buffer, ptr, len>> => UNCHANGED Queue
BY DEF Queue, Contents

LEMMA EndedStays ==
  ASSUME \A d \in End : pc'[Reader(d)] = "ended" <=> pc[Reader(d)] = "ended"
  PROVE  UNCHANGED Ended
BY DEF Ended

LEMMA ReadDelivers == ASSUME TypeOK, NEW d \in End, Read(d) PROVE Abstract!Deliver(d)
<1>1. Cap \in Nat \ {0} /\ Reader(d) \in Half
  BY PlexAssumption, HalfFacts
<1>2. PICK n \in 1 .. Readable(d) :
        /\ delivered' = [delivered EXCEPT ![d] =
                           @ \o [k \in 1 .. n |-> buffer[d][ptr[d] + k - 1]]]
        /\ ptr' = [ptr EXCEPT ![d] = (@ + n) % Cap]
        /\ len' = [len EXCEPT ![d] = @ - n]
  BY Zenon DEF Read
<1>3. n \in 1 .. len[d] /\ ptr[d] + n <= Cap /\ buffer' = buffer
  BY <1>1, QueueFacts, PieceFacts DEF Read
<1>4. /\ [k \in 1 .. n |-> buffer[d][ptr[d] + k - 1]] = SubSeq(Queue[d], 1, n)
      /\ Ring(buffer[d], (ptr[d] + n) % Cap, len[d] - n) = SubSeq(Queue[d], n + 1, len[d])
  <2>1. /\ buffer[d] \in Bytes /\ ptr[d] \in 0 .. Cap - 1 /\ len[d] \in 0 .. Cap
        /\ Queue[d] = Ring(buffer[d], ptr[d], len[d])
    BY QueueFacts
  <2>2. /\ [k \in 1 .. n |-> buffer[d][ptr[d] + k - 1]]
             = SubSeq(Ring(buffer[d], ptr[d], len[d]), 1, n)
        /\ Ring(buffer[d], (ptr[d] + n) % Cap, len[d] - n)
             = SubSeq(Ring(buffer[d], ptr[d], len[d]), n + 1, len[d])
    <3>1. /\ buffer[d] \in Bytes /\ ptr[d] \in 0 .. Cap - 1 /\ len[d] \in 0 .. Cap
          /\ n \in 1 .. len[d] /\ ptr[d] + n <= Cap
      BY <1>3, <2>1, Zenon
    <3> QED
      BY <3>1, TakeFacts, Zenon
  <2> QED
    BY <2>1, <2>2
<1>5. Contents(d)' = SubSeq(Queue[d], n + 1, Len(Queue[d]))
  <2>1. len'[d] = len[d] - n /\ ptr'[d] = (ptr[d] + n) % Cap
    BY <1>2 DEF TypeOK
  <2>2. Contents(d)' = Ring(buffer[d], (ptr[d] + n) % Cap, len[d] - n)
    BY <1>3, <2>1 DEF Contents, Ring
  <2> QED
    BY <1>4, <2>2, QueueFacts
<1>6. \A e \in End \ {d} : Contents(e)' = Contents(e)
  BY <1>2, <1>3 DEF Contents, TypeOK
<1>7. Queue' = [Queue EXCEPT ![d] = SubSeq(@, n + 1, Len(@))]
  BY <1>5, <1>6 DEF Queue
<1>8. n \in 1 .. Len(Queue[d])
  BY <1>3, QueueFacts
<1>9. delivered' = [delivered EXCEPT ![d] = @ \o SubSeq(Queue[d], 1, n)]
  BY <1>2, <1>4
<1>10. UNCHANGED <<closed, Ended>>
  BY <1>1, EndedStays, HalfFacts DEF Read, TypeOK
<1> QED
  BY <1>7, <1>8, <1>9, <1>10 DEF Abstract!Deliver, Queue, Ended

LEMMA WriteAccepts == ASSUME TypeOK, TypeOK', NEW d \in End, Write(d) PROVE Abstract!Accept(d)
<1>1. Cap \in Nat \ {0} /\ Writer(d) \in Half
  BY PlexAssumption, HalfFacts
<1>2. PICK n \in 1 .. Writable(d) :
        /\ buffer' = [buffer EXCEPT ![d] =
                        [k \in 0 .. Cap - 1 |->
                           IF k \in WriteAt(d) .. WriteAt(d) + n - 1
                             THEN Sent(d) + 1 + (k - WriteAt(d)) ELSE @[k]]]
        /\ len' = [len EXCEPT ![d] = @ + n]
  BY DEF Write
<1> DEFINE last == Len(delivered[d]) + len[d]
<1>3. /\ n \in Nat /\ n >= 1 /\ len[d] + n <= Cap /\ WriteAt(d) + n <= Cap
      /\ last \in Nat /\ ptr' = ptr
  <2>1. delivered[d] \in Seq(Nat) /\ ptr' = ptr
    BY DEF Write, TypeOK
  <2>2. ptr[d] \in 0 .. Cap - 1 /\ len[d] \in 0 .. Cap
    BY DEF TypeOK
  <2>3. n \in Nat /\ n >= 1 /\ len[d] + n <= Cap /\ WriteAt(d) + n <= Cap
    BY <1>1, <2>2, PieceFacts
  <2> QED
    BY <2>1, <2>2, <2>3
<1>4. /\ buffer'[d] = Filled(buffer[d], WriteAt(d), n, last)
      /\ buffer'[d] \in Bytes /\ len'[d] = len[d] + n
  BY <1>2 DEF TypeOK, Sent, Bytes, Filled
<1>5. Ring(buffer'[d], ptr[d], len[d] + n) = Queue[d] \o Numbered(n, last)
  <2> HIDE DEF last
  <2>1. /\ buffer[d] \in Bytes /\ ptr[d] \in 0 .. Cap - 1 /\ len[d] \in 0 .. Cap
        /\ Queue[d] = Ring(buffer[d], ptr[d], len[d])
    BY QueueFacts
  <2>2. buffer'[d] = Filled(buffer[d], Behind(ptr[d], len[d]), n, last)
    BY <1>4 DEF WriteAt, Behind
  <2>3. Behind(ptr[d], len[d]) + n <= Cap
    BY <1>3 DEF WriteAt, Behind
  <2>4. len[d] + n <= Cap /\ n \in Nat /\ last \in Nat
    BY <1>3
  <2>5. Ring(Filled(buffer[d], Behind(ptr[d], len[d]), n, last), ptr[d], len[d] + n)
          = Ring(buffer[d], ptr[d], len[d]) \o Numbered(n, last)
    BY <2>1, <2>3, <2>4, PutFacts
  <2> QED
    BY <2>1, <2>2, <2>5, Zenon
<1>6. Contents(d)' = Queue[d] \o Numbered(n, last)
  <2>1. Contents(d)' = Ring(buffer'[d], ptr[d], len[d] + n)
    BY <1>3, <1>4 DEF Contents, Ring
  <2> QED
    BY <1>5, <2>1
<1>7. \A e \in End \ {d} : Contents(e)' = Contents(e)
  BY <1>2, <1>3 DEF Contents, TypeOK
<1>8. Queue' = [Queue EXCEPT ![d] = @ \o Numbered(n, last)]
  BY <1>6, <1>7 DEF Queue
<1>9. n \in 1 .. Cap - Len(Queue[d]) /\ last = Len(delivered[d]) + Len(Queue[d])
  <2>1. Len(Queue[d]) = len[d] /\ len[d] \in 0 .. Cap
    BY QueueFacts
  <2>2. n \in 1 .. Cap - len[d]
    BY <1>1, <1>3, <2>1
  <2> QED
    BY <2>1, <2>2
<1>10. UNCHANGED <<delivered, closed, Ended>> /\ ~closed[d]
  BY <1>1, EndedStays, HalfFacts DEF Write, TypeOK
<1> HIDE DEF last
<1> QED
  BY <1>8, <1>9, <1>10 DEF Abstract!Accept, Queue, Ended, Numbered

(* A reader ends after it saw the flag and nothing to read, and what it saw *)
(* stays so while it holds the lock; a writer's end is none of the pipe's.  *)
LEMMA FinishEnds ==
  ASSUME TypeOK, NEW h \in Half, Finish(h), closed[Dir(h)],
         h[1] = "read" => len[Dir(h)] = 0, UNCHANGED <<ring, closed>>
  PROVE  [Abstract!Next]_(Abstract!vars)
<1>1. UNCHANGED <<Queue, delivered, closed>>
  BY QueueStays DEF ring
<1>2. pc' = [pc EXCEPT ![h] = "ended"] /\ Dir(h) \in End
  BY HalfFacts DEF Finish
<1>3. CASE h = Writer(Dir(h))
  <2>1. UNCHANGED Ended
    BY <1>2, <1>3, EndedStays, HalfFacts DEF TypeOK
  <2> QED
    BY <1>1, <2>1 DEF Abstract!vars, Queue, Ended
<1>4. CASE h = Reader(Dir(h))
  <2>1. Ended' = Ended \cup {Dir(h)}
    <3>1. pc'[h] = "ended" /\ \A g \in Half \ {h} : pc'[g] = pc[g]
      BY <1>2 DEF TypeOK
    <3>2. \A d \in End \ {Dir(h)} : Reader(d) \in Half \ {h}
      BY HalfFacts
    <3> QED
      BY <1>2, <1>4, <3>1, <3>2 DEF Ended
  <2>2. Queue[Dir(h)] = <<>>
    <3>1. len[Dir(h)] = 0
      BY <1>2, <1>4, HalfFacts
    <3> QED
      BY <1>2, <3>1 DEF Queue, Contents
  <2>3. Abstract!ReachEnd(Dir(h))
    BY <1>1, <2>1, <2>2 DEF Abstract!ReachEnd, Queue, Ended
  <2> QED
    BY <1>2, <2>3 DEF Abstract!Next
<1> QED
  BY <1>2, <1>3, <1>4, HalfFacts

LEMMA CloseCloses ==
  ASSUME NEW d \in End, closed' = [closed EXCEPT ![d] = TRUE], UNCHANGED ring,
         UNCHANGED Ended
  PROVE  Abstract!Next
<1>1. UNCHANGED <<Queue, delivered>>
  BY QueueStays DEF ring
<1>2. Abstract!Close(d)
  BY <1>1 DEF Abstract!Close, Queue, Ended
<1> QED
  BY <1>2 DEF Abstract!Next

LEMMA Stutter ==
  ASSUME UNCHANGED ring, UNCHANGED closed, UNCHANGED Ended
  PROVE  UNCHANGED Abstract!vars
BY QueueStays DEF ring, Abstract!vars, Queue, Ended

(* A half moves within its polls, or ends as the writer of its direction. *)
LEMMA MoveStutters ==
  ASSUME TypeOK, NEW h \in Half, NEW s, pc[h] # "ended", s # "ended" \/ h[1] = "write",
         pc' = [pc EXCEPT ![h] = s], UNCHANGED ring, UNCHANGED closed
  PROVE  UNCHANGED Abstract!vars
<1>1. ASSUME NEW d \in End PROVE pc'[Reader(d)] = "ended" <=> pc[Reader(d)] = "ended"
  <2>1. Reader(d) \in Half /\ Reader(d)[1] = "read"
    BY HalfFacts
  <2> QED
    BY <2>1 DEF TypeOK
<1>2. UNCHANGED Ended
  BY <1>1, EndedStays
<1> QED
  BY <1>2, Stutter

LEMMA PollSteps ==
  ASSUME IInv, NEW h \in Half, InPoll(h)
  PROVE  [Abstract!Next]_(Abstract!vars)
<1>1. TypeOK /\ OnTheWay(h) /\ Dir(h) \in End
  BY HalfFacts DEF IInv
<1>2. CASE IdleCall(h)
  BY <1>1, <1>2, MoveStutters DEF IdleCall
<1>3. CASE PollEnded(h)
  <2>1. /\ Finish(h) /\ closed[Dir(h)] /\ UNCHANGED <<ring, closed>>
        /\ h[1] = "read" => len[Dir(h)] = 0
    BY <1>3 DEF PollEnded, AtEnd
  <2> QED
    BY <1>1, <2>1, FinishEnds
<1>4. CASE StartPark(h)
  BY <1>1, <1>4, MoveStutters DEF StartPark
<1>5. CASE Register(h)
  BY <1>1, <1>5, MoveStutters DEF Register
<1>6. CASE Recheck(h) /\ closed[Dir(h)]
  <2>1. /\ Finish(h) /\ UNCHANGED <<ring, closed>>
        /\ h[1] = "read" => len[Dir(h)] = 0
    BY <1>1, <1>6 DEF Recheck, OnTheWay, Blocked
  <2> QED
    BY <1>1, <1>6, <2>1, FinishEnds
<1>7. CASE Recheck(h) /\ ~closed[Dir(h)]
  BY <1>1, <1>7, MoveStutters DEF Recheck
<1>8. CASE h[1] = "read" /\ Read(Dir(h))
  BY <1>1, <1>8, ReadDelivers DEF Abstract!Next
<1>9. CASE h[1] = "write" /\ Write(Dir(h))
  <2>1. TypeOK'
    BY <1>1, <1>9, WriteType
  <2> QED
    BY <1>1, <1>9, <2>1, WriteAccepts DEF Abstract!Next
<1>10. CASE h[1] = "write" /\ StartClose(Dir(h))
  <2>1. Writer(Dir(h)) = h
    BY <1>10, HalfFacts
  <2>2. \A d \in End : pc'[Reader(d)] = "ended" <=> pc[Reader(d)] = "ended"
    BY <1>1, <1>10, <2>1, HalfFacts DEF StartClose, TypeOK
  <2>3. UNCHANGED Ended
    BY <2>2, EndedStays
  <2>4. closed' = [closed EXCEPT ![Dir(h)] = TRUE] /\ UNCHANGED ring
    BY <1>10 DEF StartClose
  <2> QED
    BY <1>1, <2>3, <2>4, CloseCloses
<1>11. CASE h[1] = "write" /\ FinishClose(Dir(h))
  <2>1. Writer(Dir(h)) = h
    BY <1>11, HalfFacts
  <2>2. /\ pc[h] # "ended" /\ pc' = [pc EXCEPT ![h] = "ended"] /\ h[1] = "write"
        /\ UNCHANGED ring /\ UNCHANGED closed
    BY <1>11, <2>1 DEF FinishClose
  <2> QED
    BY <1>1, <2>2, MoveStutters
<1> QED
  BY <1>2, <1>3, <1>4, <1>5, <1>6, <1>7, <1>8, <1>9, <1>10, <1>11 DEF InPoll

LEMMA DropSteps ==
  ASSUME NEW e \in End, CloseRead(e) \/ DropStep(e)
  PROVE  [Abstract!Next]_(Abstract!vars)
<1>1. UNCHANGED ring /\ UNCHANGED pc
  BY DEF CloseRead, DropStep, TakeWriter, CloseWrite, TakeReader, FireWakers, Dropping
<1>2. UNCHANGED Ended
  BY <1>1 DEF Ended
<1>3. CASE CloseRead(e)
  BY <1>1, <1>2, <1>3, PeerFacts, CloseCloses DEF CloseRead
<1>4. CASE CloseWrite(e)
  BY <1>1, <1>2, <1>4, CloseCloses DEF CloseWrite
<1>5. CASE TakeWriter(e) \/ TakeReader(e) \/ FireWakers(e)
  BY <1>1, <1>2, <1>5, Stutter DEF TakeWriter, TakeReader, FireWakers
<1> QED
  BY <1>3, <1>4, <1>5 DEF DropStep

LEMMA PlexPipeStep == IInv /\ [Next]_vars => [Abstract!Next]_(Abstract!vars)
<1> SUFFICES ASSUME IInv, [Next]_vars PROVE [Abstract!Next]_(Abstract!vars)
  OBVIOUS
<1>1. ASSUME NEW h \in Half, Poll(h) PROVE [Abstract!Next]_(Abstract!vars)
  <2>1. PICK s \in {"locked", "wait"} : pc' = [pc EXCEPT ![h] = s]
    BY <1>1 DEF Poll, Acquire
  <2>2. pc[h] # "ended" /\ UNCHANGED ring /\ UNCHANGED closed
    BY <1>1 DEF Poll
  <2> QED
    BY <2>1, <2>2, MoveStutters DEF IInv
<1>2. CASE UNCHANGED vars
  BY <1>2, Stutter DEF vars, Ended
<1> QED
  BY <1>1, <1>2, PollSteps, DropSteps DEF Next

LEMMA PlexPipeInit == Init => Abstract!Init
<1> SUFFICES ASSUME Init PROVE Abstract!Init
  OBVIOUS
<1>1. ASSUME NEW d \in End PROVE Contents(d) = <<>>
  <2>1. len[d] = 0
    BY DEF Init
  <2> QED
    BY <2>1 DEF Contents
<1>2. {d \in End : pc[Reader(d)] = "ended"} = {}
  BY HalfFacts DEF Init
<1> QED
  BY <1>1, <1>2 DEF Init, Abstract!Init

(* Bytes come out in the order they went in, across every wrap of the ring; *)
(* none is accepted after a close, and none that was accepted is lost by a  *)
(* reader that sees the end.                                                *)
THEOREM SpecImplementsClosablePipe == Spec => ImplementsClosablePipe
<1>1. Init => Abstract!Init
  BY PlexPipeInit
<1>2. IInv /\ [Next]_vars => [Abstract!Next]_(Abstract!vars)
  BY PlexPipeStep
<1> QED
  BY <1>1, <1>2, InitInvariant, Invariance, PTL DEF Spec, ImplementsClosablePipe, Abstract!Spec
=============================================================================
