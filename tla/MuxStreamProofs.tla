--------------------------- MODULE MuxStreamProofs ---------------------------
(***************************************************************************)
(* What a stream carries, for every set of ids, limits and numbers of      *)
(* writes: an application reads every byte of its peer before the end of   *)
(* the stream, and a frame that finds no stream is left over from one that *)
(* has been reaped.                                                        *)
(*                                                                         *)
(* The frames of an id go from the channel of a handle, or from an owed    *)
(* close, into the pending frame of its driver, from there onto the wire,  *)
(* and from the wire into the buffer of the other side.  The invariant     *)
(* follows them along that way: the first opens the stream, none carries   *)
(* data behind one that ends it, and no byte is lost or counted twice.     *)
(***************************************************************************)
EXTENDS MuxSlotProofs

(* The frames of stream i, by what they do to it. *)
Data(f, i) == f # None /\ f.kind = "data" /\ f.id = i
Ends(f, i) == f # None /\ f.kind \in {"fin", "rst"} /\ f.id = i
Body(f, i) == f # None /\ f.kind \in {"data", "fin"} /\ f.id = i
Opens(f, i) == Data(f, i) /\ f.syn
Foreign(f, i) == ~Data(f, i) /\ ~Ends(f, i)

(* One unit of payload to a data frame, and none to one that ends it. *)
Sound(f) ==
  /\ f.kind = "data" => f.len = 1
  /\ f.kind \in {"fin", "rst"} => f.len = 0 /\ ~f.syn

DataAt(s, i) == {k \in 1..Len(s) : Data(s[k], i)}
Count(s, i) == Cardinality(DataAt(s, i))
One(f, i) == IF Data(f, i) THEN 1 ELSE 0
HasEnd(s, i) == \E k \in 1..Len(s) : Ends(s[k], i)
HasSyn(s, i) == \E k \in 1..Len(s) : Opens(s[k], i)
HasBody(s, i) == \E k \in 1..Len(s) : Body(s[k], i)

(* No data behind an end; nothing of a stream before what opens it. *)
Ordered(s, i) == \A k, l \in 1..Len(s) : Ends(s[k], i) /\ k < l => ~Data(s[l], i)
Led(s, i) == \A k \in 1..Len(s) : Body(s[k], i) => \E l \in 1..k : Opens(s[l], i)

(* Two queues, and two frames, that are the same to stream i. *)
Alike(s, t, i) ==
  /\ Count(s, i) = Count(t, i)
  /\ HasEnd(s, i) <=> HasEnd(t, i)
  /\ HasSyn(s, i) <=> HasSyn(t, i)
  /\ HasBody(s, i) <=> HasBody(t, i)
  /\ Ordered(s, i) => Ordered(t, i)
  /\ Led(s, i) => Led(t, i)

AlikeFrame(f, g, i) == f = g \/ (Foreign(f, i) /\ Foreign(g, i))

LEMMA CountType ==
  ASSUME NEW S, NEW s \in Seq(S), NEW i
  PROVE  Count(s, i) \in Nat /\ IsFiniteSet(DataAt(s, i))
<1>1. IsFiniteSet(1..Len(s))
  BY FS_Interval
<1>2. IsFiniteSet(DataAt(s, i))
  BY <1>1, FS_Subset DEF DataAt
<1> QED
  BY <1>2, FS_CardinalityType DEF Count

LEMMA OfNothing ==
  ASSUME NEW i
  PROVE  /\ Count(<<>>, i) = 0 /\ Ordered(<<>>, i) /\ Led(<<>>, i)
         /\ ~HasEnd(<<>>, i) /\ ~HasSyn(<<>>, i) /\ ~HasBody(<<>>, i)
<1>1. DataAt(<<>>, i) = {}
  BY DEF DataAt
<1>2. Count(<<>>, i) = 0
  BY <1>1, FS_EmptySet DEF Count
<1> QED
  BY <1>2 DEF Ordered, Led, HasEnd, HasSyn, HasBody

LEMMA OfAppend ==
  ASSUME NEW S, NEW s \in Seq(S), NEW f \in S, NEW i
  PROVE  LET t == Append(s, f)
         IN  /\ Count(t, i) = Count(s, i) + One(f, i)
             /\ HasEnd(t, i) <=> HasEnd(s, i) \/ Ends(f, i)
             /\ HasSyn(t, i) <=> HasSyn(s, i) \/ Opens(f, i)
             /\ HasBody(t, i) <=> HasBody(s, i) \/ Body(f, i)
             /\ Ordered(s, i) /\ (HasEnd(s, i) => ~Data(f, i)) => Ordered(t, i)
             /\ Led(s, i) /\ (HasSyn(s, i) \/ (Body(f, i) => Opens(f, i))) => Led(t, i)
<1> DEFINE n == Len(s)
           t == Append(s, f)
<1>1. /\ n \in Nat /\ Len(t) = n + 1 /\ t[n + 1] = f
      /\ \A k \in 1..n : t[k] = s[k]
      /\ 1..(n + 1) = (1..n) \cup {n + 1}
  OBVIOUS
<1> HIDE DEF t, n
<1>2. Count(t, i) = Count(s, i) + One(f, i)
  <2>1. /\ n + 1 \notin DataAt(s, i)
        /\ DataAt(t, i) = IF Data(f, i) THEN DataAt(s, i) \cup {n + 1} ELSE DataAt(s, i)
    BY <1>1 DEF DataAt, n
  <2>2. Cardinality(DataAt(s, i)) \in Nat /\ IsFiniteSet(DataAt(s, i))
    BY CountType DEF Count
  <2>3. Cardinality(DataAt(s, i) \cup {n + 1}) = Cardinality(DataAt(s, i)) + 1
    BY <2>1, <2>2, FS_AddElement
  <2> QED
    BY <2>1, <2>2, <2>3 DEF Count, One
<1>3. HasEnd(t, i) <=> HasEnd(s, i) \/ Ends(f, i)
  BY <1>1 DEF HasEnd, n
<1>4. HasSyn(t, i) <=> HasSyn(s, i) \/ Opens(f, i)
  BY <1>1 DEF HasSyn, n
<1>5. HasBody(t, i) <=> HasBody(s, i) \/ Body(f, i)
  BY <1>1 DEF HasBody, n
<1>6. ASSUME Ordered(s, i), HasEnd(s, i) => ~Data(f, i) PROVE Ordered(t, i)
  BY <1>1, <1>6 DEF Ordered, HasEnd, n
<1>7. ASSUME Led(s, i), HasSyn(s, i) \/ (Body(f, i) => Opens(f, i)) PROVE Led(t, i)
  BY <1>1, <1>7 DEF Led, HasSyn, n
<1> QED
  BY <1>2, <1>3, <1>4, <1>5, <1>6, <1>7 DEF t

LEMMA OfTail ==
  ASSUME NEW S, NEW s \in Seq(S), s # <<>>, NEW i
  PROVE  LET f == Head(s)
             t == Tail(s)
         IN  /\ Count(s, i) = One(f, i) + Count(t, i)
             /\ Count(t, i) \in Nat
             /\ HasEnd(s, i) <=> Ends(f, i) \/ HasEnd(t, i)
             /\ HasSyn(s, i) <=> Opens(f, i) \/ HasSyn(t, i)
             /\ HasBody(s, i) <=> Body(f, i) \/ HasBody(t, i)
             /\ Ordered(s, i) => Ordered(t, i) /\ (Ends(f, i) => Count(t, i) = 0)
             /\ Led(s, i) => (Body(f, i) => Opens(f, i)) /\ (~Opens(f, i) => Led(t, i))
<1> DEFINE n == Len(s)
           f == Head(s)
           t == Tail(s)
<1>1. /\ n \in Nat /\ n > 0 /\ Len(t) = n - 1 /\ f = s[1] /\ t \in Seq(S)
      /\ \A k \in 1..(n - 1) : t[k] = s[k + 1]
  OBVIOUS
<1> HIDE DEF t, n, f
<1>a. /\ \A k \in 1..n : k = 1 \/ (k - 1 \in 1..(n - 1) /\ s[k] = t[k - 1])
      /\ \A k \in 1..(n - 1) : k + 1 \in 1..n
  BY <1>1
<1>2. Count(s, i) = One(f, i) + Count(t, i) /\ Count(t, i) \in Nat
  <2> DEFINE B == {k \in DataAt(s, i) : k # 1}
             shift == [k \in DataAt(t, i) |-> k + 1]
  <2>1. shift \in Bijection(DataAt(t, i), B)
    <3>1. DataAt(t, i) \subseteq 1..(n - 1) /\ DataAt(s, i) \subseteq 1..n
      BY <1>1 DEF DataAt, n
    <3>2. \A k \in DataAt(t, i) : k + 1 \in B
      BY <1>1, <1>a, <3>1 DEF DataAt, n
    <3>3. \A k \in B : k - 1 \in DataAt(t, i) /\ (k - 1) + 1 = k
      BY <1>1, <1>a, <3>1 DEF DataAt, n
    <3>4. \A k, l \in DataAt(t, i) : k + 1 = l + 1 => k = l
      BY <1>1, <3>1
    <3> HIDE DEF B
    <3>5. shift \in [DataAt(t, i) -> B]
      BY <3>2
    <3>6. shift \in Injection(DataAt(t, i), B)
      BY <3>4, <3>5 DEF Injection, IsInjective
    <3>7. shift \in Surjection(DataAt(t, i), B)
      BY <3>3, <3>5 DEF Surjection
    <3> QED
      BY <3>6, <3>7 DEF Bijection
  <2>2. /\ Cardinality(DataAt(t, i)) \in Nat /\ IsFiniteSet(DataAt(t, i))
        /\ IsFiniteSet(DataAt(s, i))
    BY <1>1, CountType DEF Count
  <2>3. Cardinality(B) = Cardinality(DataAt(t, i)) /\ IsFiniteSet(B)
    <3> HIDE DEF shift, B
    <3>1. ExistsBijection(DataAt(t, i), B)
      BY <2>1 DEF ExistsBijection
    <3> QED
      BY <2>2, <3>1, FS_Bijection
  <2>4. 1 \in DataAt(s, i) <=> Data(f, i)
    BY <1>1 DEF DataAt, n
  <2>5. 1 \notin B /\ DataAt(s, i) = IF Data(f, i) THEN B \cup {1} ELSE B
    BY <2>4
  <2> HIDE DEF B
  <2>6. Cardinality(B \cup {1}) = Cardinality(B) + 1
    BY <2>3, <2>5, FS_AddElement
  <2> QED
    BY <2>2, <2>3, <2>5, <2>6 DEF Count, One
<1>3. HasEnd(s, i) <=> Ends(f, i) \/ HasEnd(t, i)
  BY <1>1, <1>a DEF HasEnd, n
<1>4. HasSyn(s, i) <=> Opens(f, i) \/ HasSyn(t, i)
  BY <1>1, <1>a DEF HasSyn, n
<1>5. HasBody(s, i) <=> Body(f, i) \/ HasBody(t, i)
  BY <1>1, <1>a DEF HasBody, n
<1>6. ASSUME Ordered(s, i) PROVE Ordered(t, i) /\ (Ends(f, i) => Count(t, i) = 0)
  <2>1. Ordered(t, i)
    <3> SUFFICES ASSUME NEW k \in 1..(n - 1), NEW l \in 1..(n - 1), Ends(t[k], i), k < l
                 PROVE  ~Data(t[l], i)
      BY <1>1 DEF Ordered
    <3>1. k + 1 \in 1..n /\ l + 1 \in 1..n /\ k + 1 < l + 1 /\ t[k] = s[k + 1] /\ t[l] = s[l + 1]
      BY <1>1
    <3> QED
      BY <1>6, <3>1 DEF Ordered, n
  <2>2. ASSUME Ends(f, i) PROVE Count(t, i) = 0
    <3>1. \A l \in 1..(n - 1) : ~Data(t[l], i)
      <4> SUFFICES ASSUME NEW l \in 1..(n - 1) PROVE ~Data(t[l], i)
        OBVIOUS
      <4>1. 1 \in 1..n /\ l + 1 \in 1..n /\ 1 < l + 1 /\ t[l] = s[l + 1]
        BY <1>1
      <4> QED
        BY <1>1, <1>6, <2>2, <4>1 DEF Ordered, n
    <3>2. DataAt(t, i) = {}
      BY <1>1, <3>1 DEF DataAt
    <3> QED
      BY <3>2, FS_EmptySet DEF Count
  <2> QED
    BY <2>1, <2>2
<1>7. ASSUME Led(s, i)
      PROVE  (Body(f, i) => Opens(f, i)) /\ (~Opens(f, i) => Led(t, i))
  <2>1. Body(f, i) => Opens(f, i)
    <3>1. 1 \in 1..n /\ 1..1 = {1}
      BY <1>1
    <3> QED
      BY <1>1, <1>7, <3>1 DEF Led, n
  <2>2. ASSUME ~Opens(f, i) PROVE Led(t, i)
    <3> SUFFICES ASSUME NEW k \in 1..(n - 1), Body(t[k], i)
                 PROVE  \E l \in 1..k : Opens(t[l], i)
      BY <1>1 DEF Led
    <3>1. k + 1 \in 1..n /\ t[k] = s[k + 1]
      BY <1>1
    <3>2. PICK l \in 1..(k + 1) : Opens(s[l], i)
      BY <1>7, <3>1 DEF Led, n
    <3>3. l # 1
      BY <1>1, <2>2, <3>2
    <3>4. l - 1 \in 1..k /\ l - 1 \in 1..(n - 1) /\ s[l] = t[l - 1]
      BY <1>1, <1>a, <3>1, <3>3
    <3> QED
      BY <3>2, <3>4
  <2> QED
    BY <2>1, <2>2
<1> QED
  BY <1>2, <1>3, <1>4, <1>5, <1>6, <1>7 DEF t, f

LEMMA AlikeSteps ==
  ASSUME NEW S, NEW s \in Seq(S), NEW i
  PROVE  /\ Alike(s, s, i)
         /\ \A f \in S : Foreign(f, i) => Alike(s, Append(s, f), i)
         /\ s # <<>> /\ Foreign(Head(s), i) => Alike(s, Tail(s), i)
<1>0. /\ Count(s, i) \in Nat
      /\ \A f : Foreign(f, i) => One(f, i) = 0 /\ ~Ends(f, i) /\ ~Body(f, i) /\ ~Opens(f, i)
                                 /\ ~Data(f, i)
  BY CountType DEF Foreign, One, Data, Ends, Body, Opens
<1>1. ASSUME NEW f \in S, Foreign(f, i) PROVE Alike(s, Append(s, f), i)
  BY <1>0, <1>1, OfAppend DEF Alike
<1>2. ASSUME s # <<>>, Foreign(Head(s), i) PROVE Alike(s, Tail(s), i)
  BY <1>0, <1>2, OfTail DEF Alike
<1> QED
  BY <1>1, <1>2 DEF Alike

-----------------------------------------------------------------------------
(* One id at one peer.  A stream not yet on the wire is as it was created,  *)
(* or closed for writing; one whose SYN is still owed has sent nothing.     *)
Intact == {f \in AnyFrame : Sound(f)}
Own(h) == {f \in StreamFrame : Sound(f) /\ f.id = h.id}

Queues ==
  /\ \A h \in Handle : channel[h] \in Seq(Own(h))
  /\ \A p \in Peer :
       /\ pending_write_frame[p] # None => Sound(pending_write_frame[p])
       /\ wire[p] \in Seq(Intact)
  /\ \A p \in Peer, i \in Id : owed_close[p][i] \in {None, Fin(i), Rst(i)}

Quiet(p, i) ==
  inactive[p][i] # None =>
    LET s == shared[inactive[p][i]]
    IN  /\ s.fc = Flow!NewController /\ s.buffer = 0 /\ ~s.syn_pending
        /\ s.state \in {"Open", "SendClosed"}

Unopened(p, i) ==
  streams[p][i] # None /\ shared[streams[p][i]].syn_pending =>
    shared[streams[p][i]].fc.send_window > 0

(* A handle and the entry e, or the inactive Shared n, of its id. *)
Idle(h) ==
  /\ task[h] \in {"new", "reaped"} \cup Leaving =>
       object[h] = None /\ rd[h] # "eof" /\ wr[h] # "mid"
  /\ task[h] \in {"new", "reaped"} => channel[h] = <<>>
  /\ task[h] = "new" =>
       written[h] = 0 /\ taken[h] = 0 /\ inactive[h.peer][h.id] = None
  /\ owed_close[h.peer][h.id] # None => task[h] = "reaped"
  /\ HasEnd(channel[h], h.id) => task[h] \notin {"new", "live"}
  /\ Ordered(channel[h], h.id)

BeforeSyn(h) ==
  LET n == inactive[h.peer][h.id]
  IN  /\ n # None /\ object[h] = n =>
           channel[h] = <<>> /\ wr[h] # "mid" /\ task[h] # "closing"
      /\ n # None /\ shared[n].state = "SendClosed" =>
           task[h] \notin {"new", "live", "closing"}

OwingSyn(h) ==
  LET e == streams[h.peer][h.id]
  IN  e # None /\ shared[e].syn_pending =>
        /\ task[h] # "new"
        /\ object[h] = e => /\ channel[h] = <<>>
                            /\ wr[h] = "mid" \/ Full(h) \/ shared[e].state = "Closed"

Closing(h) ==
  LET e == streams[h.peer][h.id]
  IN  e # None /\ shared[e].state = "SendClosed" =>
        task[h] \notin {"new", "live", "closing"}

AtEof(h) ==
  LET e == streams[h.peer][h.id]
  IN  conn[h.peer] = "active" /\ rd[h] = "eof" =>
        e # None /\ object[h] = e /\ ~CanRead(shared[e].state) /\ shared[e].buffer = 0

Attends(h) == Idle(h) /\ BeforeSyn(h) /\ OwingSyn(h) /\ Closing(h) /\ AtEof(h)

Side(p, i) ==
  Up(p) => Quiet(p, i) /\ Unopened(p, i) /\ \A h \in HandlesOf(p, i) : Attends(h)

-----------------------------------------------------------------------------
(* What one side shows of a stream to what flows in, *)
Gone(p, i) == \E h \in HandlesOf(p, i) : task[h] = "reaped"
Opened(p, i) == streams[p][i] # None \/ Gone(p, i) \/ ~Up(p)
SeenEnd(p, i) == streams[p][i] # None /\ ~CanRead(shared[streams[p][i]].state)
SeenFin(p, i) == streams[p][i] # None /\ shared[streams[p][i]].state = "RecvClosed"
Buffered(p, i) == IF streams[p][i] = None THEN 0 ELSE shared[streams[p][i]].buffer

(* and to what flows out. *)
Wired(q, i) == Up(q) /\ streams[q][i] # None /\ ~shared[streams[q][i]].syn_pending
Finished(g) == task[g] \notin {"new", "live"}
Exhausted(q, i) == \A g \in HandlesOf(q, i) : Count(channel[g], i) = 0 /\ Finished(g)

(* The flow of stream i to p. *)
Sent(p, i) ==
  LET q == Other(p)
  IN  \/ HasBody(wire[p], i) \/ Body(pending_write_frame[q], i) \/ owed_close[q][i] # None
      \/ \E g \in HandlesOf(q, i) : HasBody(channel[g], i)
      => Opened(q, i)

HalfClosed(p, i) == Up(p) /\ SeenFin(p, i) => Opened(Other(p), i)

Reached(p, i) ==
  LET q == Other(p)
  IN  Wired(q, i) /\ conn[p] = "active" /\ ~Opened(p, i) =>
        \/ HasSyn(wire[p], i) \/ Opens(pending_write_frame[q], i)
        \/ \E g \in HandlesOf(q, i) : HasSyn(channel[g], i)

LedIn(p, i) ==
  LET q == Other(p)
      f == pending_write_frame[q]
  IN  conn[p] = "active" /\ ~Opened(p, i) =>
        /\ Led(wire[p], i)
        /\ HasSyn(wire[p], i) \/ (Body(f, i) => Opens(f, i))
        /\ \/ HasSyn(wire[p], i) \/ Opens(f, i)
           \/ /\ \A g \in HandlesOf(q, i) : Led(channel[g], i)
              /\ Up(q) => ~Body(owed_close[q][i], i)

LastOfAll(p, i) ==
  LET q == Other(p)
      f == pending_write_frame[q]
  IN  /\ Ordered(wire[p], i)
      /\ HasEnd(wire[p], i) => ~Data(f, i) /\ Exhausted(q, i)
      /\ Ends(f, i) => Exhausted(q, i)

NoneBehind(p, i) ==
  LET q == Other(p)
  IN  conn[p] = "active" /\ SeenEnd(p, i) =>
        Count(wire[p], i) = 0 /\ ~Data(pending_write_frame[q], i) /\ Exhausted(q, i)

Balance(p, i) ==
  LET q == Other(p)
  IN  \A h \in HandlesOf(p, i), g \in HandlesOf(q, i) :
        conn[p] = "active" /\ conn[q] = "active" /\ task[h] # "reaped" =>
          written[g] = (taken[h] + Buffered(p, i)) + Count(wire[p], i)
                       + One(pending_write_frame[q], i) + Count(channel[g], i)

Flows(p, i) ==
  /\ Sent(p, i) /\ HalfClosed(p, i) /\ Reached(p, i) /\ LedIn(p, i)
  /\ LastOfAll(p, i) /\ NoneBehind(p, i) /\ Balance(p, i)

Streaming == \A p \in Peer, i \in Id : Side(p, i) /\ Flows(p, i)
-----------------------------------------------------------------------------
LEMMA TwoPeers ==
  ASSUME NEW p \in Peer
  PROVE  /\ Other(p) \in Peer /\ Other(p) # p /\ Other(Other(p)) = p
         /\ \A r \in Peer : r = p \/ r = Other(p)
<1>1. PICK a \in Peer, b \in Peer : a # b /\ Peer = {a, b}
  BY WireAssumption
<1>2. \A r \in Peer : Other(r) \in Peer /\ Other(r) # r
  BY <1>1 DEF Other
<1> QED
  BY <1>1, <1>2

LEMMA OnlyHandle ==
  ASSUME NoSiblings, NEW h \in Handle
  PROVE  HandlesOf(h.peer, h.id) = {h}
<1>1. \A g \in Handle : g.peer = h.peer /\ g.id = h.id => g = h
  BY DEF NoSiblings
<1> QED
  BY <1>1 DEF HandlesOf

LEMMA NoneIsNoFrame == None \notin StreamFrame /\ None \notin Obj
BY WireAssumption, MuxAssumption DEF StreamFrame, FrameType

LEMMA ReceivedUpTo ==
  ASSUME Typing, NEW p \in Peer, NEW i \in Id
  PROVE  /\ Buffered(p, i) \in Nat /\ Count(wire[p], i) \in Nat
         /\ \A h \in HandlesOf(p, i) : taken[h] + Buffered(p, i) \in Nat
<1>1. Buffered(p, i) \in Nat
  <2>1. streams[p][i] # None => shared[streams[p][i]] \in Shared
    BY TypingTyped DEF Typed
  <2> QED
    BY <2>1 DEF Buffered, Shared
<1>2. Count(wire[p], i) \in Nat
  BY CountType DEF Typing, FramesTyped
<1>3. \A h \in HandlesOf(p, i) : taken[h] \in Nat
  BY DEF Typing, HandlesTyped, HandlesOf
<1> QED
  BY <1>1, <1>2, <1>3

LEMMA EntryOf ==
  ASSUME Typing, Filed, NEW p \in Peer, NEW i \in Id
  PROVE  /\ \A o \in {streams[p][i], inactive[p][i]} :
              o # None => o \in Obj /\ o.peer = p /\ o.id = i /\ shared[o] \in Shared
         /\ streams[p][i] = None \/ inactive[p][i] = None
<1>1. Typed
  BY TypingTyped
<1>2. streams[p][i] \in Obj \cup {None} /\ inactive[p][i] \in Obj \cup {None}
  BY <1>1 DEF Typed
<1>3. \A o \in Obj : shared[o] \in Shared
  BY <1>1 DEF Typed
<1> QED
  BY <1>2, <1>3 DEF Filed, Owners, RegistryConsistent

(* What may change of one side without disturbing the stream it receives,   *)
RecvKept(p, i) ==
  /\ Up(p)' => Up(p)
  /\ conn'[p] = "active" => conn[p] = "active"
  /\ Opened(p, i) => Opened(p, i)'
  /\ conn'[p] = "active" /\ SeenEnd(p, i)' => SeenEnd(p, i)
  /\ Up(p)' /\ SeenFin(p, i)' => SeenFin(p, i)
  /\ \A h \in HandlesOf(p, i) :
       conn'[p] = "active" /\ task'[h] # "reaped" =>
         task[h] # "reaped" /\ taken'[h] + Buffered(p, i)' = taken[h] + Buffered(p, i)

(* and the one it sends.                                                    *)
SendKept(q, i) ==
  /\ Up(q)' => Up(q)
  /\ conn'[q] = "active" => conn[q] = "active"
  /\ Opened(q, i) => Opened(q, i)'
  /\ Wired(q, i)' => Wired(q, i) \/ Opened(Other(q), i)
  /\ owed_close'[q][i] = owed_close[q][i]
  /\ AlikeFrame(pending_write_frame[q], pending_write_frame'[q], i)
  /\ \A g \in HandlesOf(q, i) :
       /\ Finished(g) => Finished(g)'
       /\ Alike(channel[g], channel'[g], i)
       /\ written'[g] = written[g]

LEMMA FrameAlike ==
  ASSUME NEW f, NEW g, NEW i, AlikeFrame(f, g, i)
  PROVE  /\ Data(f, i) <=> Data(g, i)
         /\ Ends(f, i) <=> Ends(g, i)
         /\ Body(f, i) <=> Body(g, i)
         /\ Opens(f, i) <=> Opens(g, i)
         /\ One(f, i) = One(g, i)
BY DEF AlikeFrame, Foreign, Data, Ends, Body, Opens, One

LEMMA FlowsKept ==
  ASSUME NEW p \in Peer, NEW i \in Id, Flows(p, i), RecvKept(p, i), SendKept(Other(p), i),
         Alike(wire[p], wire'[p], i)
  PROVE  Flows(p, i)'
<1> DEFINE q == Other(p)
           f == pending_write_frame[q]
           g == pending_write_frame'[q]
<1>f. /\ Data(f, i) <=> Data(g, i)
      /\ Ends(f, i) <=> Ends(g, i)
      /\ Body(f, i) <=> Body(g, i)
      /\ Opens(f, i) <=> Opens(g, i)
      /\ One(f, i) = One(g, i)
  BY FrameAlike DEF SendKept
<1>1. Sent(p, i)'
  BY <1>f DEF Flows, Sent, SendKept, Alike
<1>2. HalfClosed(p, i)'
  BY DEF Flows, HalfClosed, SendKept, RecvKept
<1>3. Reached(p, i)'
  <2>1. Wired(q, i)' => Wired(q, i) \/ Opened(p, i)
    BY TwoPeers DEF SendKept
  <2> QED
    BY <1>f, <2>1 DEF Flows, Reached, SendKept, RecvKept, Alike
<1>4. LedIn(p, i)'
  BY <1>f DEF Flows, LedIn, SendKept, RecvKept, Alike
<1>5. LastOfAll(p, i)'
  BY <1>f DEF Flows, LastOfAll, Exhausted, SendKept, Alike
<1>6. NoneBehind(p, i)'
  BY <1>f DEF Flows, NoneBehind, Exhausted, SendKept, RecvKept, Alike
<1>7. Balance(p, i)'
  <2> SUFFICES ASSUME NEW h \in HandlesOf(p, i), NEW k \in HandlesOf(q, i),
                      conn'[p] = "active", conn'[q] = "active", task'[h] # "reaped"
               PROVE  written'[k] = (taken'[h] + Buffered(p, i)') + Count(wire'[p], i)
                                    + One(g, i) + Count(channel'[k], i)
    BY DEF Balance
  <2>1. written[k] = (taken[h] + Buffered(p, i)) + Count(wire[p], i)
                                    + One(f, i) + Count(channel[k], i)
    BY DEF Flows, Balance, RecvKept, SendKept
  <2> QED
    BY <1>f, <2>1 DEF RecvKept, SendKept, Alike
<1> QED
  BY <1>1, <1>2, <1>3, <1>4, <1>5, <1>6, <1>7 DEF Flows

(* A step of another stream, or of the other peer, leaves a side as it is.  *)
Steady(r, j) ==
  /\ Up(r)' => Up(r)
  /\ conn'[r] = "active" => conn[r] = "active"
  /\ streams'[r][j] = streams[r][j] /\ inactive'[r][j] = inactive[r][j]
  /\ owed_close'[r][j] = owed_close[r][j]
  /\ \A o \in {streams[r][j], inactive[r][j]} :
       o # None => /\ shared'[o].state = shared[o].state
                   /\ shared'[o].fc = shared[o].fc
                   /\ shared'[o].buffer = shared[o].buffer
                   /\ shared'[o].syn_pending = shared[o].syn_pending
  /\ \A h \in HandlesOf(r, j) :
       /\ task'[h] = task[h] /\ object'[h] = object[h] /\ channel'[h] = channel[h]
       /\ written'[h] = written[h] /\ taken'[h] = taken[h]
       /\ wr'[h] = "mid" <=> wr[h] = "mid"
       /\ rd'[h] = "eof" => rd[h] = "eof"

LEMMA SteadySide ==
  ASSUME NEW r, NEW j, Steady(r, j), Side(r, j)
  PROVE  Side(r, j)'
<1> SUFFICES ASSUME Up(r)' PROVE Quiet(r, j)' /\ Unopened(r, j)' /\ \A h \in HandlesOf(r, j) : Attends(h)'
  BY DEF Side
<1>0. Quiet(r, j) /\ Unopened(r, j) /\ \A h \in HandlesOf(r, j) : Attends(h)
  BY DEF Side, Steady
<1>1. Quiet(r, j)' /\ Unopened(r, j)'
  <2>1. Quiet(r, j)'
    BY <1>0 DEF Quiet, Steady
  <2>2. Unopened(r, j)'
    BY <1>0 DEF Unopened, Steady
  <2> QED
    BY <2>1, <2>2
<1>2. ASSUME NEW h \in HandlesOf(r, j) PROVE Attends(h)'
  <2>0. Attends(h) /\ h.peer = r /\ h.id = j
    BY <1>0 DEF HandlesOf
  <2>1. Idle(h)'
    BY <2>0 DEF Attends, Idle, Steady
  <2>2. BeforeSyn(h)'
    BY <2>0 DEF Attends, BeforeSyn, Steady
  <2>3. OwingSyn(h)' /\ Closing(h)'
    BY <2>0 DEF Attends, OwingSyn, Closing, Steady, Full
  <2>4. AtEof(h)'
    BY <2>0 DEF Attends, AtEof, Steady
  <2> QED
    BY <2>1, <2>2, <2>3, <2>4 DEF Attends
<1> QED
  BY <1>1, <1>2

LEMMA SteadyReceives ==
  ASSUME NEW r \in Peer, NEW j \in Id, Steady(r, j)
  PROVE  RecvKept(r, j) /\ (Opened(r, j) => Opened(r, j)')
<1>1. Opened(r, j) => Opened(r, j)'
  BY DEF Steady, Opened, Gone
<1> QED
  BY <1>1 DEF Steady, RecvKept, SeenEnd, SeenFin, Buffered

LEMMA SteadyKept ==
  ASSUME Typing, NEW r \in Peer, NEW j \in Id, Steady(r, j),
         AlikeFrame(pending_write_frame[r], pending_write_frame'[r], j)
  PROVE  RecvKept(r, j) /\ SendKept(r, j)
<1>1. \A h \in HandlesOf(r, j) : Alike(channel[h], channel'[h], j)
  BY DEF Steady, Alike
<1> QED
  BY <1>1, SteadyReceives DEF Steady, SendKept, Wired, Finished

(* A step at stream i of peer p, seen from everywhere else. *)
Elsewhere(p, i) ==
  /\ \A r \in Peer, j \in Id : r # p \/ j # i => Steady(r, j)
  /\ \A r \in Peer, j \in Id :
       j # i => /\ Alike(wire[r], wire'[r], j)
                /\ AlikeFrame(pending_write_frame[r], pending_write_frame'[r], j)
  /\ pending_write_frame'[Other(p)] = pending_write_frame[Other(p)]

LEMMA ElsewhereKept ==
  ASSUME Typing, Streaming, NEW p \in Peer, NEW i \in Id, Elsewhere(p, i),
         Side(p, i)', Flows(p, i)', Flows(Other(p), i)'
  PROVE  Streaming'
<1> SUFFICES ASSUME NEW r \in Peer, NEW j \in Id PROVE Side(r, j)' /\ Flows(r, j)'
  BY DEF Streaming
<1>1. Side(r, j)'
  BY SteadySide DEF Streaming, Elsewhere
<1>2. CASE j = i
  BY <1>1, <1>2, TwoPeers
<1>3. CASE j # i
  <2>1. RecvKept(r, j) /\ SendKept(Other(r), j)
    BY <1>3, SteadyKept, TwoPeers DEF Elsewhere
  <2> QED
    BY <1>1, <1>3, <2>1, FlowsKept DEF Streaming, Elsewhere
<1> QED
  BY <1>2, <1>3

(* A step of a handle touches the Shareds of its stream only. *)
Solo(h) ==
  /\ \A r \in Peer, j \in Id :
       r # h.peer \/ j # h.id =>
         /\ streams'[r][j] = streams[r][j] /\ inactive'[r][j] = inactive[r][j]
         /\ owed_close'[r][j] = owed_close[r][j]
  /\ \A o \in Obj : o.peer # h.peer \/ o.id # h.id => shared'[o] = shared[o]
  /\ \A g \in Handle :
       g # h => /\ task'[g] = task[g] /\ object'[g] = object[g] /\ channel'[g] = channel[g]
                /\ written'[g] = written[g] /\ taken'[g] = taken[g]
                /\ wr'[g] = "mid" <=> wr[g] = "mid"
                /\ rd'[g] = "eof" => rd[g] = "eof"
  /\ conn' = conn

LEMMA SoloSteady ==
  ASSUME Typing, Filed, NEW h \in Handle, Solo(h), NEW r \in Peer, NEW j \in Id,
         r # h.peer \/ j # h.id
  PROVE  Steady(r, j)
<1>1. \A o \in {streams[r][j], inactive[r][j]} : o # None => shared'[o] = shared[o]
  BY TypingTyped DEF Solo, Filed, Owners, Typed
<1>2. \A g \in HandlesOf(r, j) : g \in Handle /\ g # h
  BY DEF HandlesOf
<1> QED
  BY <1>1, <1>2 DEF Solo, Steady, Up

LEMMA SoloElsewhere ==
  ASSUME Typing, Filed, NEW h \in Handle, Solo(h), UNCHANGED <<pending_write_frame, wire>>
  PROVE  /\ Elsewhere(h.peer, h.id)
         /\ RecvKept(Other(h.peer), h.id) /\ SendKept(Other(h.peer), h.id)
<1>1. /\ h.peer \in Peer /\ h.id \in Id
      /\ Other(h.peer) \in Peer /\ Other(h.peer) # h.peer
  BY HandlesAreObjects, TwoPeers
<1>2. \A r \in Peer, j \in Id :
        /\ Alike(wire[r], wire'[r], j)
        /\ AlikeFrame(pending_write_frame[r], pending_write_frame'[r], j)
  BY DEF Alike, AlikeFrame
<1> QED
  BY <1>1, <1>2, SoloSteady, SteadyKept DEF Elsewhere

(* The step of a handle that leaves the pending frame and the wire alone.   *)
LEMMA SoloStreaming ==
  ASSUME Typing, Filed, Streaming, NEW h \in Handle, Solo(h),
         UNCHANGED <<pending_write_frame, wire>>,
         Side(h.peer, h.id)', RecvKept(h.peer, h.id),
         SendKept(h.peer, h.id) \/ Flows(Other(h.peer), h.id)'
  PROVE  Streaming'
<1> DEFINE p == h.peer
           i == h.id
           q == Other(p)
<1>1. p \in Peer /\ i \in Id /\ q \in Peer /\ Other(q) = p
  BY HandlesAreObjects, TwoPeers
<1>2. Elsewhere(p, i) /\ RecvKept(q, i) /\ SendKept(q, i)
  BY SoloElsewhere
<1>3. Alike(wire[p], wire'[p], i) /\ Alike(wire[q], wire'[q], i)
  BY DEF Alike
<1>4. Flows(p, i) /\ Flows(q, i)
  BY <1>1 DEF Streaming
<1>5. Flows(p, i)'
  BY <1>1, <1>2, <1>3, <1>4, FlowsKept
<1>6. Flows(q, i)'
  BY <1>1, <1>2, <1>3, <1>4, FlowsKept
<1> QED
  BY <1>1, <1>2, <1>5, <1>6, ElsewhereKept

-----------------------------------------------------------------------------
(* The one handle of a stream stands for its side. *)
LEMMA SideOf ==
  ASSUME NoSiblings, NEW h \in Handle,
         Up(h.peer)' => Quiet(h.peer, h.id)' /\ Unopened(h.peer, h.id)' /\ Attends(h)'
  PROVE  Side(h.peer, h.id)'
<1>1. HandlesOf(h.peer, h.id) = {h}
  BY OnlyHandle
<1> QED
  BY <1>1 DEF Side

LEMMA OfSide ==
  ASSUME NEW h \in Handle, Up(h.peer), Side(h.peer, h.id)
  PROVE  /\ Quiet(h.peer, h.id) /\ Unopened(h.peer, h.id)
         /\ Idle(h) /\ BeforeSyn(h) /\ OwingSyn(h) /\ Closing(h) /\ AtEof(h)
BY DEF Side, Attends, HandlesOf

LEMMA ObjectOf ==
  ASSUME Typing, Filed, NEW h \in Handle, object[h] # None, Up(h.peer)
  PROVE  LET o == object[h]
             e == streams[h.peer][h.id]
             n == inactive[h.peer][h.id]
         IN  /\ o \in Obj /\ o.peer = h.peer /\ o.id = h.id /\ shared[o] \in Shared
             /\ \/ e # None /\ n = None /\ o = e /\ shared[o].activated
                \/ e = None /\ n # None /\ o = n /\ ~shared[o].activated
<1>1. h.peer \in Peer /\ h.id \in Id /\ conn[h.peer] # "cleanup"
  BY HandlesAreObjects DEF Up
<1>2. object[h] \in Obj /\ object[h].peer = h.peer /\ object[h].id = h.id
  BY TypingTyped DEF Typed, Filed, Owners
<1>3. shared[object[h]] \in Shared
  BY <1>2, TypingTyped DEF Typed
<1> QED
  BY <1>1, <1>2, <1>3 DEF Filed, RegistryConsistent

(* A call that neither sends nor takes anything. *)
LEMMA HandleKept ==
  ASSUME NoSiblings, NEW h \in Handle,
         UNCHANGED <<conn, owed_close, channel, written, taken, pending_write_frame>>,
         streams'[h.peer][h.id] = streams[h.peer][h.id],
         LET e == streams[h.peer][h.id]
         IN  e # None => /\ shared'[e].state = shared[e].state
                         /\ shared'[e].buffer = shared[e].buffer
                         /\ shared'[e].syn_pending = shared[e].syn_pending,
         task[h] = "reaped" <=> task'[h] = "reaped",
         Finished(h) => Finished(h)'
  PROVE  RecvKept(h.peer, h.id) /\ SendKept(h.peer, h.id)
<1> DEFINE p == h.peer
           i == h.id
<1>1. HandlesOf(p, i) = {h}
  BY OnlyHandle
<1>2. /\ Opened(p, i) => Opened(p, i)'
      /\ SeenEnd(p, i)' <=> SeenEnd(p, i)
      /\ SeenFin(p, i)' <=> SeenFin(p, i)
      /\ Wired(p, i)' <=> Wired(p, i)
      /\ Buffered(p, i)' = Buffered(p, i)
  BY <1>1 DEF Opened, Gone, SeenEnd, SeenFin, Wired, Buffered, Up
<1>3. Alike(channel[h], channel'[h], i)
  BY DEF Alike
<1> QED
  BY <1>1, <1>2, <1>3 DEF RecvKept, SendKept, AlikeFrame, Up

LEMMA NewStreamStreaming ==
  ASSUME NoSiblings, Typing, Filed, Streaming, NEW h \in Handle, NewStream(h)
  PROVE  Streaming'
<1> DEFINE p == h.peer
           i == h.id
           e == streams[p][i]
           n == inactive[p][i]
           existing == IF e # None THEN e ELSE n
           o == IF existing # None THEN existing ELSE h
<1>0. /\ p \in Peer /\ i \in Id /\ h \in Obj /\ h # None /\ Side(p, i)
      /\ task[h] = "new" /\ task' = [task EXCEPT ![h] = "live"]
      /\ object' = [object EXCEPT ![h] = o] /\ conn' = conn /\ streams' = streams
      /\ owed_close' = owed_close /\ UNCHANGED <<pending_write_frame, wire>>
      /\ UNCHANGED <<channel, rd, wr, written, taken>>
  BY HandlesAreObjects, MuxAssumption DEF NewStream, driver, Streaming
<1>t. Typed /\ HandlesOf(p, i) = {h}
  BY TypingTyped, OnlyHandle
<1>1. /\ e # None => e \in Obj /\ e.peer = p /\ e.id = i
      /\ n # None => n \in Obj /\ n.peer = p /\ n.id = i
      /\ e # h /\ n # h /\ (e = None \/ n = None)
  <2>1. e \in Obj \cup {None} /\ n \in Obj \cup {None}
    BY <1>0, <1>t DEF Typed
  <2>2. \A x \in {e, n} : x # None => x.peer = p /\ x.id = i
    BY <1>0 DEF Filed, Owners
  <2>3. e # h /\ n # h
    BY Zenon, <1>0 DEF Filed, Fresh, Entries
  <2>4. e = None \/ n = None
    BY <1>0 DEF Filed, RegistryConsistent
  <2> QED
    BY <2>1, <2>2, <2>3, <2>4
<1>2. /\ \A x \in Obj : x.peer # p \/ x.id # i => shared'[x] = shared[x]
      /\ \A x \in {e, n} : x # None => /\ shared'[x].state = shared[x].state
                                       /\ shared'[x].fc = shared[x].fc
                                       /\ shared'[x].buffer = shared[x].buffer
                                       /\ shared'[x].syn_pending = shared[x].syn_pending
  <2>1. CASE existing # None
    <3>1. shared' = [shared EXCEPT ![existing].claimed = TRUE]
      BY <2>1 DEF NewStream
    <3>2. existing \in Obj /\ existing.peer = p /\ existing.id = i
      BY <1>1, <2>1
    <3> HIDE DEF existing
    <3> QED
      BY <1>1, <1>t, <3>1, <3>2 DEF Typed, Shared
  <2>2. CASE existing = None
    <3>1. shared' = [shared EXCEPT ![h] = [NewShared EXCEPT !.claimed = TRUE]]
      BY <2>2 DEF NewStream
    <3> HIDE DEF existing
    <3> QED
      BY <1>0, <1>1, <1>t, <3>1 DEF Typed
  <2> QED
    BY <2>1, <2>2
<1>3. IF existing # None THEN inactive' = inactive
      ELSE /\ inactive' = [inactive EXCEPT ![p][i] = h]
           /\ shared'[h] = [NewShared EXCEPT !.claimed = TRUE]
  BY <1>0, <1>t DEF NewStream, Typed
<1>4. Solo(h)
  <2>1. \A r \in Peer, j \in Id : r # p \/ j # i => inactive'[r][j] = inactive[r][j]
    BY <1>0, <1>3, <1>t DEF Typed
  <2>2. \A g \in Handle : g # h => task'[g] = task[g] /\ object'[g] = object[g]
    BY <1>0, <1>t DEF Typed
  <2> HIDE DEF o, existing, e, n
  <2> QED
    BY <1>0, <1>2, <2>1, <2>2 DEF Solo
<1>5. RecvKept(p, i) /\ SendKept(p, i)
  <2>1. task'[h] # "reaped" /\ task[h] # "reaped" /\ ~Finished(h)
    BY <1>0, <1>t DEF Typed, Finished
  <2>2. UNCHANGED <<conn, owed_close, channel, written, taken, pending_write_frame>>
    BY <1>0
  <2> QED
    BY <1>0, <1>2, <2>1, <2>2, HandleKept
<1>6. Side(p, i)'
  <2> SUFFICES ASSUME Up(p) PROVE Quiet(p, i)' /\ Unopened(p, i)' /\ Attends(h)'
    BY <1>0, SideOf DEF Up
  <2>1. Quiet(p, i) /\ Unopened(p, i) /\ Idle(h) /\ BeforeSyn(h) /\ OwingSyn(h) /\ Closing(h)
    BY <1>0, OfSide
  <2>2. /\ n = None /\ object[h] = None /\ channel[h] = <<>> /\ owed_close[p][i] = None
        /\ rd[h] # "eof" /\ wr[h] # "mid" /\ Ordered(channel[h], i) /\ ~HasEnd(channel[h], i)
    BY <1>0, <2>1 DEF Idle
  <2>3. object'[h] = o /\ task'[h] = "live"
    BY <1>0, <1>t DEF Typed
  <2>4. IF e # None THEN inactive'[p][i] = None /\ o = e
        ELSE /\ inactive'[p][i] = h /\ o = h
             /\ shared'[h].fc = Flow!NewController /\ shared'[h].buffer = 0
             /\ ~shared'[h].syn_pending /\ shared'[h].state = "Open"
    <3>1. CASE e # None
      BY <1>3, <2>2, <3>1
    <3>2. CASE e = None
      <4>1. /\ o = h /\ inactive' = [inactive EXCEPT ![p][i] = h]
            /\ shared'[h] = [NewShared EXCEPT !.claimed = TRUE]
        BY <1>3, <2>2, <3>2
      <4>2. inactive'[p][i] = h
        BY <1>0, <1>t, <4>1 DEF Typed
      <4> QED
        BY <3>2, <4>1, <4>2 DEF NewShared
    <3> QED
      BY <3>1, <3>2
  <2> HIDE DEF o, existing
  <2>5. Quiet(p, i)' /\ Unopened(p, i)'
    BY <1>0, <1>2, <2>1, <2>4 DEF Quiet, Unopened
  <2>6. Idle(h)'
    BY <1>0, <2>2, <2>3 DEF Idle, Leaving
  <2>7. BeforeSyn(h)'
    BY <1>0, <2>2, <2>3, <2>4 DEF BeforeSyn
  <2>8. OwingSyn(h)' /\ Closing(h)' /\ AtEof(h)'
    <3>1. e # None => ~shared'[e].syn_pending /\ shared'[e].state # "SendClosed"
      BY <1>0, <1>2, <2>1 DEF OwingSyn, Closing
    <3> QED
      BY <1>0, <2>2, <3>1 DEF OwingSyn, Closing, AtEof
  <2> QED
    BY <2>5, <2>6, <2>7, <2>8 DEF Attends
<1> QED
  BY <1>0, <1>4, <1>5, <1>6, SoloStreaming

(* Once the driver of a side is gone, its handles disturb nothing. *)
LEMMA DownStreaming ==
  ASSUME NoSiblings, Typing, Filed, Streaming, NEW h \in Handle, Solo(h), ~Up(h.peer),
         UNCHANGED <<pending_write_frame, wire, owed_close, channel, written>>,
         Finished(h) => Finished(h)'
  PROVE  Streaming'
<1> DEFINE p == h.peer
           i == h.id
<1>0. p \in Peer /\ i \in Id /\ conn' = conn /\ ~Up(p)' /\ conn'[p] # "active"
  BY HandlesAreObjects DEF Solo, Up
<1>1. HandlesOf(p, i) = {h}
  BY OnlyHandle
<1>2. Side(p, i)'
  BY <1>0 DEF Side
<1>3. RecvKept(p, i)
  BY <1>0 DEF RecvKept, Opened
<1>4. SendKept(p, i)
  <2>1. Alike(channel[h], channel'[h], i)
    BY DEF Alike
  <2> QED
    BY <1>0, <1>1, <2>1 DEF SendKept, Opened, Wired, AlikeFrame
<1> QED
  BY <1>2, <1>3, <1>4, SoloStreaming

LEMMA PollActivateStreaming ==
  ASSUME NoSiblings, Typing, Filed, Streaming, NEW h \in Handle, PollActivate(h)
  PROVE  Streaming'
<1> DEFINE p == h.peer
           i == h.id
           e == streams[p][i]
           n == inactive[p][i]
           o == object[h]
<1>0. /\ p \in Peer /\ i \in Id /\ Side(p, i)
      /\ task[h] = "live" /\ task' = task /\ conn' = conn
      /\ UNCHANGED <<owed_close, channel, rd, written, taken, pending_write_frame, wire>>
      /\ o \in Obj /\ o # None /\ o.peer = p /\ o.id = i /\ ~shared[o].activated
      /\ wr[h] = "idle"
  BY HandlesAreObjects, MuxAssumption
     DEF PollActivate, driver, Streaming, Typing, HandlesTyped, LiveHasShared, Filed, Owners
<1>t. Typed /\ HandlesOf(p, i) = {h} /\ wr \in [Handle -> WrStates]
  BY TypingTyped, OnlyHandle DEF Typing, HandlesTyped
<1>e. e # None => e \in Obj /\ e.peer = p /\ e.id = i
  BY <1>0, <1>t DEF Typed, Filed, Owners
<1>1. Solo(h)
  <2>1. CASE Adopt(h) /\ e # None
    <3>1. e \in Obj /\ e.peer = p /\ e.id = i
      BY <1>0, <1>e, <2>1
    <3>2. /\ object' = [object EXCEPT ![h] = e] /\ streams' = streams
          /\ shared' = [shared EXCEPT ![e] = [[shared[e] EXCEPT !.activated = TRUE]
                                                          EXCEPT !.claimed = TRUE]]
          /\ inactive' = [inactive EXCEPT ![p][i] = None]
          /\ wr' = [wr EXCEPT ![h] = "mid"]
      BY <2>1 DEF Adopt
    <3> QED
      BY <1>0, <1>t, <3>1, <3>2 DEF Solo, Typed
  <2>2. CASE ClaimSlot(h)
    <3>1. /\ streams' = [streams EXCEPT ![p][i] = o] /\ inactive' = [inactive EXCEPT ![p][i] = None]
          /\ shared' = [shared EXCEPT ![o] = [[shared[o] EXCEPT !.activated = TRUE]
                                                          EXCEPT !.syn_pending = TRUE]]
          /\ object' = object /\ wr' = [wr EXCEPT ![h] = "mid"]
      BY <2>2 DEF ClaimSlot
    <3>2. \A x \in Obj : x.peer # p \/ x.id # i => shared'[x] = shared[x]
      BY <1>0, <1>t, <3>1 DEF Typed
    <3> QED
      BY <1>0, <1>t, <3>1, <3>2 DEF Solo, Typed
  <2>3. CASE AwaitSlot(h) \/ Proceed(h)
    BY <1>0, <1>t, <2>3 DEF AwaitSlot, Proceed, Solo
  <2> QED
    BY <2>1, <2>2, <2>3 DEF PollActivate
<1>2. CASE ~Up(p)
  BY <1>0, <1>1, <1>2, DownStreaming DEF Finished
<1>3. CASE Up(p)
  <2>0. /\ Quiet(p, i) /\ Unopened(p, i)
        /\ Idle(h) /\ BeforeSyn(h) /\ OwingSyn(h) /\ Closing(h) /\ AtEof(h)
    BY <1>0, <1>3, OfSide
  <2>1. e = None /\ n = o
    BY <1>0, <1>3, ObjectOf
  <2>2. channel[h] = <<>> /\ (conn[p] = "active" => rd[h] # "eof") /\ shared[o].fc = Flow!NewController
        /\ shared[o].state = "Open" /\ shared[o].buffer = 0 /\ ~shared[o].syn_pending
    BY <1>0, <1>3, <2>0, <2>1 DEF BeforeSyn, AtEof, Quiet
  <2>3. CASE ClaimSlot(h)
    <3>1. /\ streams' = [streams EXCEPT ![p][i] = o] /\ inactive' = [inactive EXCEPT ![p][i] = None]
          /\ shared' = [shared EXCEPT ![o] = [[shared[o] EXCEPT !.activated = TRUE]
                                                          EXCEPT !.syn_pending = TRUE]]
          /\ object' = object /\ wr' = [wr EXCEPT ![h] = "mid"]
      BY <2>3 DEF ClaimSlot
    <3>2. streams'[p][i] = o /\ inactive'[p][i] = None /\ wr'[h] = "mid" /\ object'[h] = o
      BY <1>0, <1>t, <3>1 DEF Typed
    <3>3. /\ shared'[o].state = "Open" /\ shared'[o].buffer = 0 /\ shared'[o].syn_pending
          /\ shared'[o].fc = Flow!NewController
      BY <1>0, <1>t, <2>2, <3>1 DEF Typed, Shared
    <3>4. RecvKept(p, i)
      <4>1. ~SeenEnd(p, i)' /\ ~SeenFin(p, i)'
        BY <3>2, <3>3 DEF SeenEnd, SeenFin, CanRead
      <4>2. Buffered(p, i)' = 0 /\ Buffered(p, i) = 0 /\ Opened(p, i)'
        BY <1>0, <2>1, <3>2, <3>3 DEF Buffered, Opened
      <4> QED
        BY <1>0, <4>1, <4>2 DEF RecvKept, Up
    <3>5. SendKept(p, i)
      <4>1. ~Wired(p, i)' /\ Opened(p, i)'
        BY <1>0, <3>2, <3>3 DEF Wired, Opened
      <4> QED
        BY <1>0, <1>t, <4>1 DEF SendKept, Up, AlikeFrame, Alike, Finished
    <3>6. Quiet(p, i)' /\ Unopened(p, i)'
      <4>1. DEFAULT_CREDIT \in Nat \ {0}
        BY MuxAssumption
      <4> QED
        BY <3>2, <3>3, <4>1 DEF Quiet, Unopened, Flow!NewController
    <3>7. Idle(h)'
      BY <1>0, <2>0 DEF Idle, Leaving
    <3>8. BeforeSyn(h)' /\ OwingSyn(h)' /\ Closing(h)' /\ AtEof(h)'
      BY <1>0, <2>2, <3>2, <3>3 DEF BeforeSyn, OwingSyn, Closing, AtEof
    <3> QED
      BY <1>0, <1>1, <3>4, <3>5, <3>6, <3>7, <3>8, SideOf, SoloStreaming DEF Attends
  <2>4. CASE AwaitSlot(h)
    <3>1. UNCHANGED <<streams, inactive, object, shared>> /\ wr'[h] = "slot"
      BY <1>t, <2>4 DEF AwaitSlot
    <3>2. RecvKept(p, i) /\ SendKept(p, i)
      BY <1>0, <3>1, HandleKept DEF Finished
    <3>3. Quiet(p, i)' /\ Unopened(p, i)'
      BY <2>0, <3>1 DEF Quiet, Unopened
    <3>4. Idle(h)' /\ BeforeSyn(h)'
      BY <1>0, <2>0, <3>1 DEF Idle, BeforeSyn, Leaving
    <3>5. OwingSyn(h)' /\ Closing(h)' /\ AtEof(h)'
      BY <1>0, <2>0, <2>1, <3>1 DEF OwingSyn, Closing, AtEof
    <3> QED
      BY <1>0, <1>1, <3>2, <3>3, <3>4, <3>5, SideOf, SoloStreaming DEF Attends
  <2> QED
    BY <1>3, <2>1, <2>3, <2>4 DEF PollActivate
<1> QED
  BY <1>2, <1>3

(* Writing.  The first frame of a stream finds an empty channel; a later    *)
(* one follows the first, wherever that is by now.                          *)
LEMMA SendAppends ==
  ASSUME NoSiblings, Typing, NEW h \in Handle,
         Flows(Other(h.peer), h.id), RecvKept(Other(h.peer), h.id), Side(h.peer, h.id),
         Up(h.peer), task[h] = "live", streams[h.peer][h.id] # None,
         NEW f \in StreamFrame,
         Data(f, h.id) \/ Ends(f, h.id),
         channel' = [channel EXCEPT ![h] = Append(@, f)],
         IF shared[streams[h.peer][h.id]].syn_pending
           THEN channel[h] = <<>> /\ Opens(f, h.id) ELSE TRUE,
         written'[h] = written[h] + One(f, h.id),
         UNCHANGED <<streams, owed_close, taken, conn, pending_write_frame, wire>>
  PROVE  Flows(Other(h.peer), h.id)'
<1> DEFINE p == h.peer
           i == h.id
           q == Other(p)
           c == channel[h]
           d == Append(channel[h], f)
<1>0. p \in Peer /\ i \in Id /\ q \in Peer /\ Other(q) = p /\ HandlesOf(p, i) = {h}
  BY HandlesAreObjects, TwoPeers, OnlyHandle
<1>1. channel'[h] = d /\ c \in Seq(StreamFrame)
  BY DEF Typing, FramesTyped
<1>2. /\ Count(d, i) = Count(c, i) + One(f, i)
      /\ HasSyn(d, i) <=> HasSyn(c, i) \/ Opens(f, i)
      /\ Led(c, i) /\ (HasSyn(c, i) \/ (Body(f, i) => Opens(f, i))) => Led(d, i)
  BY <1>1, OfAppend
<1>3. Opened(p, i) /\ Opened(p, i)' /\ ~Finished(h)
  BY DEF Opened, Finished
<1>4. Led(<<>>, i)
  BY OfNothing
<1> HIDE DEF d
<1>5. Sent(q, i)'
  BY <1>0, <1>3 DEF Sent
<1>6. HalfClosed(q, i)'
  BY <1>0, <1>3 DEF HalfClosed
<1>7. Reached(q, i)'
  BY <1>0, <1>1, <1>2 DEF Reached, RecvKept, Flows, Wired
<1>8. LedIn(q, i)'
  <2>1. CASE shared[streams[p][i]].syn_pending
    <3>1. Led(d, i)
      BY <1>2, <1>4, <2>1
    <3> SUFFICES ASSUME conn'[q] = "active", ~Opened(q, i)' PROVE LedIn(q, i)'
      BY DEF LedIn
    <3>2. conn[q] = "active" /\ ~Opened(q, i) /\ LedIn(q, i)
      BY DEF RecvKept, Flows
    <3>3. \A g \in HandlesOf(p, i) : Led(channel'[g], i)
      BY <1>0, <1>1, <3>1
    <3> QED
      BY <1>0, <3>2, <3>3 DEF LedIn
  <2>2. CASE ~shared[streams[p][i]].syn_pending
    <3>1. Wired(p, i)
      BY <2>2 DEF Wired
    <3> QED
      BY <1>0, <1>1, <1>2, <3>1 DEF LedIn, Reached, RecvKept, Flows
  <2> QED
    BY <2>1, <2>2
<1>9. LastOfAll(q, i)'
  BY <1>0, <1>3 DEF LastOfAll, Exhausted, Flows
<1>10. NoneBehind(q, i)'
  BY <1>0, <1>3 DEF NoneBehind, Exhausted, RecvKept, Flows
<1>11. Balance(q, i)'
  <2>1. /\ One(f, i) \in Nat /\ Count(c, i) \in Nat /\ Count(wire[q], i) \in Nat
        /\ One(pending_write_frame[p], i) \in Nat /\ written[h] \in Nat
    BY <1>0, <1>1, CountType DEF One, Typing, FramesTyped, HandlesTyped
  <2> SUFFICES ASSUME NEW g \in HandlesOf(q, i),
                      conn'[p] = "active", conn'[q] = "active", task'[g] # "reaped"
               PROVE  written'[h] = (taken'[g] + Buffered(q, i)') + Count(wire'[q], i)
                                    + One(pending_write_frame'[p], i) + Count(channel'[h], i)
    BY <1>0 DEF Balance
  <2>2. /\ written[h] = (taken[g] + Buffered(q, i)) + Count(wire[q], i)
                         + One(pending_write_frame[p], i) + Count(c, i)
        /\ taken'[g] + Buffered(q, i)' = taken[g] + Buffered(q, i)
    BY <1>0 DEF Balance, RecvKept, Flows
  <2>3. taken[g] + Buffered(q, i) \in Nat
    BY <1>0, ReceivedUpTo
  <2>4. /\ written'[h] = written[h] + One(f, i)
        /\ Count(channel'[h], i) = Count(c, i) + One(f, i)
        /\ wire'[q] = wire[q] /\ pending_write_frame'[p] = pending_write_frame[p]
    BY <1>1, <1>2
  <2> DEFINE T == taken[g] + Buffered(q, i)
             W == Count(wire[q], i)
             O == One(pending_write_frame[p], i)
             C == Count(c, i)
  <2>5. written'[h] = T + W + O + (C + One(f, i))
    <3> HIDE DEF T, W, O, C
    <3>1. T \in Nat /\ W \in Nat /\ O \in Nat /\ C \in Nat
      BY <2>1, <2>3 DEF T, W, O, C
    <3>2. written[h] = T + W + O + C
      BY <2>2 DEF T, W, O, C
    <3> QED
      BY <2>1, <2>4, <3>1, <3>2
  <2> QED
    BY Zenon, <2>2, <2>4, <2>5
<1> QED
  BY <1>5, <1>6, <1>7, <1>8, <1>9, <1>10, <1>11 DEF Flows

LEMMA WritesOnWire ==
  ASSUME NoSiblings, Typing, Filed, Streaming, NEW h \in Handle, PollWrite(h), Up(h.peer)
  PROVE  /\ object[h] = streams[h.peer][h.id] /\ object[h] # None
         /\ inactive[h.peer][h.id] = None
<1>1. object[h] # None /\ h.peer \in Peer /\ h.id \in Id
  BY HandlesAreObjects DEF PollWrite, Typing, LiveHasShared
<1>2. BeforeSyn(h)
  BY <1>1, OfSide DEF Streaming
<1> QED
  BY <1>1, <1>2, ObjectOf DEF PollWrite, BeforeSyn

LEMMA PollWriteStreaming ==
  ASSUME NoSiblings, Typing, Filed, Queues, Streaming, NEW h \in Handle, PollWrite(h)
  PROVE  Streaming'
<1> DEFINE p == h.peer
           i == h.id
           q == Other(p)
           e == streams[p][i]
           o == object[h]
           s == shared[o]
<1>0. /\ p \in Peer /\ i \in Id /\ Side(p, i) /\ Flows(q, i)
      /\ task[h] = "live" /\ task' = task /\ conn' = conn
      /\ UNCHANGED <<streams, inactive, owed_close, object, rd, taken, pending_write_frame, wire>>
      /\ o \in Obj /\ o # None /\ o.peer = p /\ o.id = i
  BY HandlesAreObjects, MuxAssumption, TwoPeers
     DEF PollWrite, driver, registry, Streaming, Typing, HandlesTyped, LiveHasShared, Filed, Owners
<1>t. /\ Typed /\ HandlesOf(p, i) = {h} /\ wr \in [Handle -> WrStates]
      /\ written \in [Handle -> Nat] /\ channel \in [Handle -> Seq(StreamFrame)]
  BY TypingTyped, OnlyHandle DEF Typing, HandlesTyped, FramesTyped
<1>s. s \in Shared /\ s.fc \in Flow!Controller /\ s.syn_pending \in BOOLEAN
  BY <1>0, <1>t DEF Typed, Shared
<1>1. CASE /\ FailWrite(h) \/ AwaitRoom(h) \/ AwaitCredit(h)
           /\ ~Up(p) \/ Full(h) \/ ~CanWrite(s.state) \/ OutOfCredit(s)
  <2>1. /\ UNCHANGED <<channel, written>>
        /\ shared' = shared \/ shared' = [shared EXCEPT ![o] = [s EXCEPT !.writer = h]]
        /\ wr' \in {[wr EXCEPT ![h] = "idle"], [wr EXCEPT ![h] = "room"],
                    [wr EXCEPT ![h] = "credit"]}
    BY <1>1 DEF FailWrite, AwaitRoom, AwaitCredit
  <2>2. /\ shared'[o].state = s.state /\ shared'[o].buffer = s.buffer
        /\ shared'[o].fc = s.fc /\ shared'[o].syn_pending = s.syn_pending
        /\ \A x \in Obj \ {o} : shared'[x] = shared[x]
    BY <1>0, <1>s, <1>t, <2>1 DEF Typed, Shared
  <2>3. Solo(h)
    BY <1>0, <1>t, <2>1, <2>2 DEF Solo
  <2>4. CASE ~Up(p)
    BY <1>0, <2>1, <2>3, <2>4, DownStreaming DEF Finished
  <2>5. CASE Up(p)
    <3>0. /\ Quiet(p, i) /\ Unopened(p, i)
          /\ Idle(h) /\ BeforeSyn(h) /\ OwingSyn(h) /\ Closing(h) /\ AtEof(h)
      BY <1>0, <2>5, OfSide
    <3>1. o = e /\ inactive[p][i] = None
      BY <2>5, WritesOnWire
    <3>2. s.syn_pending => Full(h) \/ s.state = "Closed"
      <4>1. s.state # "SendClosed" /\ (s.syn_pending => s.fc.send_window > 0)
        BY Zenon, <1>0, <3>0, <3>1 DEF Closing, Unopened
      <4>2. s.state \in {"Open", "SendClosed", "RecvClosed", "Closed"}
        BY <1>s DEF Shared
      <4>3. Full(h) \/ ~CanWrite(s.state) \/ OutOfCredit(s)
        BY <1>1, <2>5
      <4> HIDE DEF s
      <4>4. CASE OutOfCredit(s)
        BY <4>1, <4>4 DEF OutOfCredit
      <4> QED
        BY Zenon, <4>1, <4>2, <4>3, <4>4 DEF CanWrite
    <3>3. RecvKept(p, i) /\ SendKept(p, i)
      <4>1. UNCHANGED <<conn, owed_close, channel, written, taken, pending_write_frame>>
        BY <1>0, <2>1
      <4>2. /\ shared'[e].state = shared[e].state
            /\ shared'[e].buffer = shared[e].buffer
            /\ shared'[e].syn_pending = shared[e].syn_pending
        BY <2>2, <3>1
      <4> HIDE DEF s
      <4> QED
        BY Zenon, <1>0, <4>1, <4>2, HandleKept DEF Finished
    <3>4. Quiet(p, i)' /\ Unopened(p, i)'
      BY <1>0, <2>2, <3>0, <3>1 DEF Quiet, Unopened
    <3>5. Idle(h)' /\ BeforeSyn(h)'
      BY Zenon, <1>0, <2>1, <3>0, <3>1 DEF Idle, BeforeSyn, Leaving
    <3>6. /\ e # None /\ streams'[p][i] = e /\ object'[h] = e /\ rd'[h] = rd[h]
          /\ task'[h] = task[h] /\ conn'[p] = conn[p] /\ channel'[h] = channel[h]
          /\ shared'[e].state = shared[e].state /\ shared'[e].buffer = shared[e].buffer
          /\ shared'[e].syn_pending = shared[e].syn_pending
      BY <1>0, <2>1, <2>2, <3>1
    <3>7. s.syn_pending => channel[h] = <<>> /\ (Full(h) \/ s.state = "Closed")
      <4>1. s.syn_pending => channel[h] = <<>>
        BY Zenon, <1>0, <3>0, <3>1 DEF OwingSyn
      <4> QED
        BY <3>2, <4>1
    <3>8. OwingSyn(h)'
      <4>1. task'[h] # "new" /\ Full(h)' = Full(h)
        BY <1>0, <3>6 DEF Full
      <4>2. shared'[e].syn_pending => channel[h] = <<>> /\ (Full(h) \/ shared'[e].state = "Closed")
        BY Zenon, <3>1, <3>6, <3>7
      <4> QED
        BY Zenon, <3>6, <4>1, <4>2 DEF OwingSyn
    <3>9. Closing(h)' /\ AtEof(h)'
      <4> HIDE DEF s
      <4> QED
        BY <1>0, <3>0, <3>6 DEF Closing, AtEof
    <3> QED
      BY <1>0, <2>3, <3>3, <3>4, <3>5, <3>8, <3>9, SideOf, SoloStreaming DEF Attends
  <2> QED
    BY <2>4, <2>5
<1>2. CASE SendData(h) /\ ~OutOfCredit(s) /\ CanWrite(s.state) /\ Up(p) /\ ~Full(h)
  <2> DEFINE f == Frame("data", i, s.syn_pending, 1)
             fc == Flow!ConsumeSend(s.fc, 1)
  <2>1. /\ channel' = [channel EXCEPT ![h] = Append(@, f)]
        /\ shared' = [shared EXCEPT ![o] = [[s EXCEPT !.fc = fc] EXCEPT !.syn_pending = FALSE]]
        /\ written' = [written EXCEPT ![h] = @ + 1]
        /\ wr' = [wr EXCEPT ![h] = "idle"]
    BY <1>2 DEF SendData
  <2> HIDE DEF fc
  <2>2. /\ shared'[o].state = s.state /\ shared'[o].buffer = s.buffer
        /\ shared'[o].syn_pending = FALSE
        /\ \A x \in Obj \ {o} : shared'[x] = shared[x]
    BY <1>0, <1>s, <1>t, <2>1 DEF Typed, Shared
  <2>3. /\ Data(f, i) /\ ~Ends(f, i) /\ One(f, i) = 1 /\ f \in StreamFrame
        /\ s.syn_pending => Opens(f, i)
    BY <1>0, <1>s, FrameTypes, NoneIsNoFrame DEF Frame, Data, Ends, Opens, One
  <2> HIDE DEF f
  <2>4. Solo(h)
    BY <1>0, <1>t, <2>1, <2>2 DEF Solo
  <2>5. /\ Quiet(p, i) /\ Unopened(p, i)
        /\ Idle(h) /\ BeforeSyn(h) /\ OwingSyn(h) /\ Closing(h) /\ AtEof(h)
    BY <1>0, <1>2, OfSide
  <2>6. o = e /\ inactive[p][i] = None
    BY <1>2, WritesOnWire
  <2>7. RecvKept(p, i)
    <3>1. /\ Opened(p, i) => Opened(p, i)'
          /\ SeenEnd(p, i)' <=> SeenEnd(p, i)
          /\ SeenFin(p, i)' <=> SeenFin(p, i)
          /\ Buffered(p, i)' = Buffered(p, i)
      <4>1. /\ shared'[e].state = shared[e].state
            /\ shared'[e].buffer = shared[e].buffer
        BY <2>2, <2>6
      <4> HIDE DEF s
      <4> QED
        BY <1>0, <4>1 DEF Opened, Gone, SeenEnd, SeenFin, Buffered, Up
    <3> QED
      BY <1>0, <1>t, <3>1 DEF RecvKept, Up
  <2>8. Flows(q, i)'
    <3>1. written'[h] = written[h] + One(f, i)
      BY <1>t, <2>1, <2>3
    <3>2. s.syn_pending => channel[h] = <<>> /\ Opens(f, i)
      BY <1>0, <2>3, <2>5, <2>6 DEF OwingSyn
    <3>3. RecvKept(q, i)
      BY <1>0, <2>4, SoloElsewhere
    <3> QED
      BY <1>0, <1>2, <2>1, <2>3, <2>6, <3>1, <3>2, <3>3, SendAppends
  <2>9. Quiet(p, i)' /\ Unopened(p, i)'
    BY <1>0, <2>2, <2>6 DEF Quiet, Unopened
  <2>10. Idle(h)'
    <3>1. channel'[h] = Append(channel[h], f) /\ channel[h] \in Seq(StreamFrame)
      BY <1>t, <2>1
    <3>2. ~HasEnd(channel[h], i) /\ Ordered(channel[h], i)
      BY <1>0, <2>5 DEF Idle
    <3>3. ~HasEnd(channel'[h], i) /\ Ordered(channel'[h], i)
      BY <2>3, <3>1, <3>2, OfAppend
    <3> QED
      BY <1>0, <2>5, <3>3 DEF Idle, Leaving
  <2>11. BeforeSyn(h)' /\ OwingSyn(h)' /\ Closing(h)' /\ AtEof(h)'
    BY <1>0, <2>2, <2>5, <2>6 DEF BeforeSyn, OwingSyn, Closing, AtEof
  <2> QED
    BY <1>0, <2>4, <2>7, <2>8, <2>9, <2>10, <2>11, SideOf, SoloStreaming DEF Attends
<1> QED
  BY <1>1, <1>2 DEF PollWrite

(* Reading moves a byte from the buffer to the application.  An update is   *)
(* never due on a stream not yet on the wire, nor sent of one whose SYN is  *)
(* still owed: its reader goes on only once its writer has been stopped.    *)
LEMMA FullWindow == ~Flow!UpdateDue(Flow!NewController, 0)
<1>1. DEFAULT_CREDIT \in Nat /\ DEFAULT_CREDIT > 1 /\ DEFAULT_CREDIT - DEFAULT_CREDIT = 0
  BY MuxAssumption, WireAssumption
<1>2. DEFAULT_CREDIT \div 2 > 0
  BY <1>1
<1> QED
  BY <1>1, <1>2
     DEF Flow!UpdateDue, Flow!NewController, Flow!Ungranted, Flow!SaturatingSub

LEMMA UpdateSend ==
  ASSUME NEW c \in Flow!Controller, NEW b \in Nat
  PROVE  Flow!NextWindowUpdate(c, b, 0, FALSE).fc.send_window = c.send_window
<1> DEFINE grown == [c EXCEPT !.max_receive_window = Flow!NextMax(c, 0, FALSE)]
           credit == Flow!Ungranted(grown, b)
<1>1. grown.send_window = c.send_window /\ DOMAIN grown = DOMAIN c
  BY DEF Flow!Controller
<1>2. DOMAIN c = {"receive_window", "max_receive_window", "send_window"}
  BY DEF Flow!Controller
<1> HIDE DEF grown
<1>3. [grown EXCEPT !.receive_window = @ + credit].send_window = c.send_window
  BY <1>1, <1>2
<1> QED
  BY <1>3 DEF Flow!NextWindowUpdate, grown

LEMMA PollReadStreaming ==
  ASSUME NoSiblings, Typing, Filed, Streaming, NEW h \in Handle, PollRead(h)
  PROVE  Streaming'
<1> DEFINE p == h.peer
           i == h.id
           q == Other(p)
           e == streams[p][i]
           n == inactive[p][i]
           o == object[h]
           s == shared[o]
           fc == Flow!NextWindowUpdate(s.fc, s.buffer, 0, FALSE).fc
           grants == MayGrant(h) /\ ~Full(h) /\ Flow!UpdateDue(s.fc, s.buffer)
           c == IF grants THEN fc ELSE s.fc
           k == Flow!NextWindowUpdate(s.fc, s.buffer, 0, FALSE).credit
           f == Frame("window", i, FALSE, k)
<1>0. /\ p \in Peer /\ i \in Id /\ Side(p, i)
      /\ task[h] \in {"live", "half"} /\ task' = task /\ conn' = conn
      /\ UNCHANGED <<streams, inactive, owed_close, object, wr, written, pending_write_frame, wire>>
      /\ o \in Obj /\ o # None /\ o.peer = p /\ o.id = i
      /\ rd[h] = "idle" /\ wr[h] # "mid"
  BY HandlesAreObjects, MuxAssumption
     DEF PollRead, driver, registry, Streaming, Typing, HandlesTyped, LiveHasShared, Filed, Owners
<1>t. /\ Typed /\ HandlesOf(p, i) = {h} /\ rd \in [Handle -> RdStates]
      /\ taken \in [Handle -> Nat] /\ channel \in [Handle -> Seq(StreamFrame)]
  BY TypingTyped, OnlyHandle DEF Typing, HandlesTyped, FramesTyped
<1>s. /\ s \in Shared /\ s.fc \in Flow!Controller /\ s.buffer \in Nat
      /\ fc \in Flow!Controller /\ fc.send_window = s.fc.send_window
      /\ f \in StreamFrame /\ Foreign(f, i)
  <2>1. s \in Shared /\ s.fc \in Flow!Controller /\ s.buffer \in Nat
    BY <1>0, <1>t DEF Typed, Shared
  <2>2. k \in Nat /\ fc \in Flow!Controller /\ fc.send_window = s.fc.send_window
    BY <2>1, WindowUpdateType, UpdateSend
  <2> HIDE DEF k
  <2>3. f \in StreamFrame /\ Foreign(f, i)
    BY <1>0, <2>2, FrameTypes DEF Foreign, Frame, Data, Ends
  <2> QED
    BY <2>1, <2>2, <2>3
<1>1. /\ channel' = IF grants THEN [channel EXCEPT ![h] = Append(@, f)] ELSE channel
      /\ \/ /\ s.buffer > 0 /\ rd' = rd /\ taken' = [taken EXCEPT ![h] = @ + 1]
            /\ shared' = [shared EXCEPT ![o] = [[s EXCEPT !.fc = c] EXCEPT !.buffer = @ - 1]]
         \/ /\ s.buffer = 0 /\ ~CanRead(s.state) /\ UNCHANGED <<shared, taken>>
            /\ rd' = [rd EXCEPT ![h] = "eof"]
         \/ /\ CanRead(s.state) /\ UNCHANGED taken
            /\ rd' = [rd EXCEPT ![h] = "parked"]
            /\ shared' = [shared EXCEPT ![o] = [[s EXCEPT !.fc = c] EXCEPT !.reader = h]]
  <2>1. s = [s EXCEPT !.fc = s.fc]
    BY <1>s DEF Shared
  <2> DEFINE granted == IF grants THEN [s EXCEPT !.fc = fc] ELSE s
  <2>2. granted = [s EXCEPT !.fc = c]
    BY <2>1
  <2>3. s.buffer > 0 \/ s.buffer = 0
    BY <1>s
  <2>4. /\ channel' = IF grants THEN [channel EXCEPT ![h] = Append(@, f)] ELSE channel
        /\ IF s.buffer > 0
             THEN /\ shared' = [shared EXCEPT ![o] = [granted EXCEPT !.buffer = @ - 1]]
                  /\ taken' = [taken EXCEPT ![h] = @ + 1]
                  /\ UNCHANGED rd
           ELSE IF ~CanRead(s.state)
             THEN /\ rd' = [rd EXCEPT ![h] = "eof"]
                  /\ UNCHANGED <<shared, taken>>
           ELSE /\ rd' = [rd EXCEPT ![h] = "parked"]
                /\ shared' = [shared EXCEPT ![o] = [granted EXCEPT !.reader = h]]
                /\ UNCHANGED taken
    BY Zenon DEF PollRead
  <2> HIDE DEF c, granted, grants, s
  <2> QED
    BY <2>2, <2>3, <2>4
<1> HIDE DEF fc, f, k
<1>2. /\ shared'[o].state = s.state /\ shared'[o].syn_pending = s.syn_pending
      /\ shared'[o].fc.send_window = s.fc.send_window
      /\ ~grants => shared'[o].fc = s.fc
      /\ \A x \in Obj \ {o} : shared'[x] = shared[x]
      /\ \/ shared'[o].buffer = s.buffer /\ taken' = taken
         \/ s.buffer > 0 /\ shared'[o].buffer = s.buffer - 1 /\ taken'[h] = taken[h] + 1
  <2>1. c.send_window = s.fc.send_window /\ (~grants => c = s.fc)
    BY <1>s
  <2>2. PICK r : /\ (shared' = shared /\ r = s) \/ shared' = [shared EXCEPT ![o] = r]
                 /\ r.state = s.state /\ r.syn_pending = s.syn_pending
                 /\ r.fc \in {s.fc, c}
                 /\ \/ r.buffer = s.buffer /\ taken' = taken
                    \/ s.buffer > 0 /\ r.buffer = s.buffer - 1 /\ taken'[h] = taken[h] + 1
    <3> DEFINE r1 == [[s EXCEPT !.fc = c] EXCEPT !.buffer = @ - 1]
               r2 == [[s EXCEPT !.fc = c] EXCEPT !.reader = h]
    <3>1. /\ r1.state = s.state /\ r1.syn_pending = s.syn_pending /\ r1.fc = c
          /\ r1.buffer = s.buffer - 1
          /\ r2.state = s.state /\ r2.syn_pending = s.syn_pending /\ r2.fc = c
          /\ r2.buffer = s.buffer
      <4> HIDE DEF c
      <4> QED
        BY <1>s DEF Shared
    <3> HIDE DEF c
    <3>2. \/ /\ s.buffer > 0 /\ shared' = [shared EXCEPT ![o] = r1]
             /\ taken' = [taken EXCEPT ![h] = @ + 1]
          \/ shared' = shared /\ taken' = taken
          \/ shared' = [shared EXCEPT ![o] = r2] /\ taken' = taken
      BY Zenon, <1>1
    <3>3. taken' = [taken EXCEPT ![h] = @ + 1] => taken'[h] = taken[h] + 1
      BY <1>t
    <3> HIDE DEF r1, r2, s
    <3> QED
      BY <3>1, <3>2, <3>3
  <2> QED
    BY <1>0, <1>t, <2>1, <2>2 DEF Typed
<1>3. Solo(h)
  <2>1. channel' = [channel EXCEPT ![h] = Append(@, f)] \/ channel' = channel
    BY <1>1
  <2>2. /\ rd' \in {rd, [rd EXCEPT ![h] = "eof"], [rd EXCEPT ![h] = "parked"]}
        /\ taken' \in {taken, [taken EXCEPT ![h] = @ + 1]}
    BY <1>1
  <2> HIDE DEF s, grants
  <2> QED
    BY <1>0, <1>t, <1>2, <2>1, <2>2 DEF Solo
<1>4. CASE ~Up(p)
  <2>1. channel' = channel
    BY <1>1, <1>4 DEF MayGrant
  <2> QED
    BY <1>0, <1>3, <1>4, <2>1, DownStreaming DEF Finished
<1>5. CASE Up(p)
  <2>0. /\ Quiet(p, i) /\ Unopened(p, i)
        /\ Idle(h) /\ BeforeSyn(h) /\ OwingSyn(h) /\ Closing(h) /\ AtEof(h)
    BY <1>0, <1>5, OfSide
  <2>1. \/ e # None /\ n = None /\ o = e
        \/ e = None /\ n # None /\ o = n
    BY <1>0, <1>5, ObjectOf
  <2>2. o = n => /\ s.fc = Flow!NewController /\ s.buffer = 0 /\ CanRead(s.state)
                 /\ ~grants
    <3> SUFFICES ASSUME o = n PROVE s.fc = Flow!NewController /\ s.buffer = 0
                                     /\ CanRead(s.state) /\ ~grants
      OBVIOUS
    <3>1. s.fc = Flow!NewController /\ s.buffer = 0 /\ s.state \in {"Open", "SendClosed"}
      BY <1>0, <2>0 DEF Quiet
    <3>2. ~Flow!UpdateDue(s.fc, s.buffer)
      BY <3>1, FullWindow
    <3> HIDE DEF s
    <3> QED
      BY <3>1, <3>2 DEF CanRead
  <2>3. o = e /\ s.syn_pending => ~grants
    BY <1>0, <2>0 DEF OwingSyn, MayGrant, CanRead
  <2>4. rd'[h] = "eof" => o = e /\ ~CanRead(s.state) /\ s.buffer = 0 /\ shared' = shared
    BY <1>0, <1>1, <1>t, <2>1, <2>2
  <2>5. ~grants => channel' = channel
    BY <1>1
  <2>6. Alike(channel[h], channel'[h], i)
    <3>1. channel'[h] \in {channel[h], Append(channel[h], f)} /\ channel[h] \in Seq(StreamFrame)
      BY <1>1, <1>t
    <3> QED
      BY <1>s, <3>1, AlikeSteps
  <2> HIDE DEF grants
  <2>7. RecvKept(p, i)
    <3>1. /\ Opened(p, i) => Opened(p, i)'
          /\ SeenEnd(p, i)' <=> SeenEnd(p, i)
          /\ SeenFin(p, i)' <=> SeenFin(p, i)
      BY Zenon, <1>0, <1>2, <2>1 DEF Opened, Gone, SeenEnd, SeenFin, Up
    <3>2. taken'[h] + Buffered(p, i)' = taken[h] + Buffered(p, i)
      <4>1. CASE o = e /\ e # None
        <5>1. Buffered(p, i)' = shared'[o].buffer /\ Buffered(p, i) = s.buffer
          BY <1>0, <4>1 DEF Buffered
        <5>2. taken[h] \in Nat /\ s.buffer \in Nat
          BY <1>s, <1>t
        <5> HIDE DEF s
        <5> QED
          BY <1>2, <5>1, <5>2
      <4>2. CASE e = None /\ o = n
        <5>1. Buffered(p, i)' = 0 /\ Buffered(p, i) = 0
          BY <1>0, <4>2 DEF Buffered
        <5> QED
          <6>1. s.buffer = 0
            BY <2>2, <4>2
          <6>2. taken'[h] = taken[h]
            <7> HIDE DEF s
            <7> QED
              BY <1>2, <6>1
          <6> QED
            BY <5>1, <6>2
      <4> QED
        BY <2>1, <4>1, <4>2
    <3>3. Up(p)' = Up(p) /\ conn'[p] = conn[p] /\ task'[h] = task[h]
      BY <1>0 DEF Up
    <3> QED
      BY Zenon, <1>t, <3>1, <3>2, <3>3 DEF RecvKept
  <2>8. SendKept(p, i)
    <3>1. /\ Opened(p, i) => Opened(p, i)'
          /\ Wired(p, i)' <=> Wired(p, i)
      BY <1>0, <1>2, <2>1 DEF Opened, Gone, Wired, Up
    <3> QED
      BY <1>0, <1>t, <2>6, <3>1 DEF SendKept, Up, Finished, AlikeFrame
  <2>9. Quiet(p, i)'
    <3>1. n # None => o = n
      BY <2>1
    <3>2. o = n => /\ shared'[o].fc = s.fc /\ shared'[o].buffer = s.buffer
      <4>1. o = n => s.buffer = 0 /\ ~grants
        <5>1. o = n => s.buffer = 0
          BY Zenon, <2>2
        <5> QED
          BY Zenon, <2>2, <5>1
      <4> HIDE DEF s
      <4>2. /\ ~grants => shared'[o].fc = s.fc
            /\ shared'[o].buffer = s.buffer \/ s.buffer > 0
        BY Zenon, <1>2
      <4> QED
        BY <4>1, <4>2
    <3> HIDE DEF s
    <3>3. inactive'[p][i] = n
      BY <1>0
    <3>4. n # None => /\ shared[n].fc = Flow!NewController /\ shared[n].buffer = 0
                      /\ ~shared[n].syn_pending /\ shared[n].state \in {"Open", "SendClosed"}
      BY <2>0 DEF Quiet
    <3>5. n # None => /\ shared'[n].fc = shared[n].fc /\ shared'[n].buffer = shared[n].buffer
                      /\ shared'[n].syn_pending = shared[n].syn_pending
                      /\ shared'[n].state = shared[n].state
      BY <1>2, <3>1, <3>2 DEF s
    <3> QED
      BY <3>3, <3>4, <3>5 DEF Quiet
  <2>10. Unopened(p, i)'
    BY <1>0, <1>2, <2>0, <2>1 DEF Unopened
  <2>11. Idle(h)'
    BY <1>0, <2>0, <2>6 DEF Idle, Leaving, Alike
  <2>12. BeforeSyn(h)'
    BY <1>0, <1>2, <2>0, <2>1, <2>2, <2>5 DEF BeforeSyn
  <2>13. OwingSyn(h)'
    BY <1>0, <1>2, <2>0, <2>1, <2>3, <2>5 DEF OwingSyn, Full
  <2>14. Closing(h)'
    BY <1>0, <1>2, <2>0, <2>1 DEF Closing
  <2>15. AtEof(h)'
    BY <1>0, <2>1, <2>4 DEF AtEof
  <2> QED
    BY <1>0, <1>3, <2>7, <2>8, <2>9, <2>10, <2>11, <2>12, <2>13, <2>14, <2>15,
       SideOf, SoloStreaming DEF Attends
<1> QED
  BY <1>4, <1>5

(* Closing.  The end of the stream is queued behind its last byte.          *)
LEMMA CloseInactiveStreaming ==
  ASSUME NoSiblings, Typing, Filed, Streaming, NEW h \in Handle, CloseInactive(h)
  PROVE  Streaming'
<1> DEFINE p == h.peer
           i == h.id
           e == streams[p][i]
           n == inactive[p][i]
           o == object[h]
<1>0. /\ p \in Peer /\ i \in Id /\ Side(p, i)
      /\ task[h] = "live" /\ task' = [task EXCEPT ![h] = "half"]
      /\ UNCHANGED <<streams, inactive, owed_close, object, channel, rd, wr, written, taken,
                     conn, pending_write_frame, wire>>
      /\ ~shared[o].activated
      /\ o \in Obj /\ o # None /\ o.peer = p /\ o.id = i
  BY HandlesAreObjects, MuxAssumption
     DEF CloseInactive, driver, registry, Streaming, Typing, HandlesTyped, LiveHasShared,
         Filed, Owners
<1>s. shared' = [shared EXCEPT ![o] = [shared[o] EXCEPT
                                            !.state = UpdateState(@, "SendClosed")]]
  BY DEF CloseInactive
<1>t. Typed /\ task'[h] = "half"
  BY <1>0, TypingTyped DEF Typed
<1>1. /\ shared'[o].state = UpdateState(shared[o].state, "SendClosed")
      /\ shared'[o].fc = shared[o].fc /\ shared'[o].buffer = shared[o].buffer
      /\ shared'[o].syn_pending = shared[o].syn_pending
      /\ \A x \in Obj \ {o} : shared'[x] = shared[x]
  BY <1>0, <1>s, <1>t DEF Typed, Shared
<1>2. Solo(h)
  BY <1>0, <1>t, <1>1 DEF Solo, Typed
<1>3. CASE ~Up(p)
  BY <1>0, <1>t, <1>2, <1>3, DownStreaming DEF Finished
<1>4. CASE Up(p)
  <2>0. /\ Quiet(p, i) /\ Unopened(p, i)
        /\ Idle(h) /\ BeforeSyn(h) /\ OwingSyn(h) /\ Closing(h) /\ AtEof(h)
    BY <1>0, <1>4, OfSide
  <2>1. e = None /\ o = n
    BY <1>0, <1>4, ObjectOf
  <2>2. shared'[o].state = "SendClosed"
    BY <1>0, <1>1, <2>0, <2>1 DEF Quiet, UpdateState
  <2>3. RecvKept(p, i) /\ SendKept(p, i)
    BY <1>0, <1>t, <2>1, HandleKept DEF Finished
  <2>4. Quiet(p, i)' /\ Unopened(p, i)'
    BY <1>0, <1>1, <2>0, <2>1, <2>2 DEF Quiet, Unopened
  <2>5. Idle(h)' /\ BeforeSyn(h)'
    BY <1>0, <1>t, <2>0, <2>1 DEF Idle, BeforeSyn, Leaving
  <2>6. OwingSyn(h)' /\ Closing(h)' /\ AtEof(h)'
    BY <1>0, <2>0, <2>1 DEF OwingSyn, Closing, AtEof
  <2> QED
    BY <1>0, <1>2, <2>3, <2>4, <2>5, <2>6, SideOf, SoloStreaming DEF Attends
<1> QED
  BY <1>3, <1>4

LEMMA SendCloseStreaming ==
  ASSUME NoSiblings, Typing, Filed, Streaming, NEW h \in Handle, SendClose(h)
  PROVE  Streaming'
<1> DEFINE p == h.peer
           i == h.id
           q == Other(p)
           e == streams[p][i]
           n == inactive[p][i]
           o == object[h]
           f == Fin(i)
<1>0. /\ p \in Peer /\ i \in Id /\ Side(p, i) /\ Flows(q, i)
      /\ task[h] = "live" /\ task' = [task EXCEPT ![h] = "closing"]
      /\ UNCHANGED <<streams, inactive, owed_close, shared, object, rd, wr, written, taken,
                     conn, pending_write_frame, wire>>
      /\ shared[o].activated /\ shared[o].state # "Closed" /\ ~Full(h) /\ wr[h] # "mid"
      /\ channel' = [channel EXCEPT ![h] = Append(@, f)] /\ Up(p)
      /\ o \in Obj /\ o # None /\ o.peer = p /\ o.id = i
  BY HandlesAreObjects, MuxAssumption, TwoPeers
     DEF SendClose, driver, registry, Streaming, Typing, HandlesTyped, LiveHasShared,
         Filed, Owners
<1>t. /\ Typed /\ task'[h] = "closing" /\ channel \in [Handle -> Seq(StreamFrame)]
      /\ written \in [Handle -> Nat] /\ HandlesOf(p, i) = {h}
  BY <1>0, TypingTyped, OnlyHandle DEF Typed, Typing, FramesTyped, HandlesTyped
<1>f. f \in StreamFrame /\ Ends(f, i) /\ ~Data(f, i) /\ One(f, i) = 0
  BY <1>0, FrameTypes, NoneIsNoFrame DEF Fin, Frame, Ends, Data, One
<1> HIDE DEF f
<1>1. Solo(h)
  BY <1>0, <1>t DEF Solo, Typed
<1>2. /\ Quiet(p, i) /\ Unopened(p, i)
      /\ Idle(h) /\ BeforeSyn(h) /\ OwingSyn(h) /\ Closing(h) /\ AtEof(h)
  BY <1>0, OfSide
<1>3. o = e /\ e # None /\ n = None
  BY <1>0, ObjectOf
<1>4. ~shared[e].syn_pending
  BY <1>0, <1>2, <1>3 DEF OwingSyn
<1>5. RecvKept(p, i)
  <2>1. /\ Opened(p, i)' <=> Opened(p, i)
        /\ SeenEnd(p, i)' <=> SeenEnd(p, i)
        /\ SeenFin(p, i)' <=> SeenFin(p, i)
        /\ Buffered(p, i)' = Buffered(p, i)
    BY <1>0, <1>3 DEF Opened, SeenEnd, SeenFin, Buffered
  <2> QED
    BY <1>0, <1>t, <2>1 DEF RecvKept, Up
<1>6. Flows(q, i)'
  <2>1. written'[h] = written[h] + One(f, i)
    BY <1>0, <1>f, <1>t
  <2>2. RecvKept(q, i)
    BY <1>0, <1>1, SoloElsewhere
  <2> QED
    BY <1>0, <1>f, <1>3, <1>4, <2>1, <2>2, SendAppends
<1>7. Quiet(p, i)' /\ Unopened(p, i)'
  BY <1>0, <1>2 DEF Quiet, Unopened
<1>8. Idle(h)'
  <2>1. channel'[h] = Append(channel[h], f) /\ channel[h] \in Seq(StreamFrame)
    BY <1>0, <1>t
  <2>2. Ordered(channel'[h], i)
    BY <1>2, <1>f, <2>1, OfAppend DEF Idle
  <2> QED
    BY <1>0, <1>t, <1>2, <2>2 DEF Idle, Leaving
<1>9. BeforeSyn(h)' /\ OwingSyn(h)' /\ AtEof(h)'
  BY <1>0, <1>t, <1>2, <1>3, <1>4 DEF BeforeSyn, OwingSyn, AtEof
<1>10. Closing(h)'
  BY <1>0, <1>2, <1>3 DEF Closing
<1> QED
  BY <1>0, <1>1, <1>5, <1>6, <1>7, <1>8, <1>9, <1>10, SideOf, SoloStreaming DEF Attends

LEMMA FinishCloseStreaming ==
  ASSUME NoSiblings, Typing, Filed, Streaming, NEW h \in Handle, FinishClose(h)
  PROVE  Streaming'
<1> DEFINE p == h.peer
           i == h.id
           e == streams[p][i]
           n == inactive[p][i]
           o == object[h]
<1>0. /\ p \in Peer /\ i \in Id /\ Side(p, i)
      /\ task[h] = "closing" /\ task' = [task EXCEPT ![h] = "half"]
      /\ UNCHANGED <<streams, inactive, owed_close, object, channel, rd, wr, written, taken,
                     conn, pending_write_frame, wire>>
      /\ o \in Obj /\ o # None /\ o.peer = p /\ o.id = i
  BY HandlesAreObjects, MuxAssumption
     DEF FinishClose, driver, registry, Streaming, Typing, HandlesTyped, LiveHasShared,
         Filed, Owners
<1>s. shared' = [shared EXCEPT ![o] = [shared[o] EXCEPT
                                            !.state = UpdateState(@, "SendClosed")]]
  BY DEF FinishClose
<1>t. Typed /\ task'[h] = "half" /\ HandlesOf(p, i) = {h}
  BY <1>0, TypingTyped, OnlyHandle DEF Typed
<1>1. /\ shared'[o].state = UpdateState(shared[o].state, "SendClosed")
      /\ shared'[o].fc = shared[o].fc /\ shared'[o].buffer = shared[o].buffer
      /\ shared'[o].syn_pending = shared[o].syn_pending
      /\ \A x \in Obj \ {o} : shared'[x] = shared[x]
      /\ shared[o].state \in {"Open", "SendClosed", "RecvClosed", "Closed"}
  BY <1>0, <1>s, <1>t DEF Typed, Shared
<1>2. Solo(h)
  BY <1>0, <1>t, <1>1 DEF Solo, Typed
<1>3. CASE ~Up(p)
  BY <1>0, <1>t, <1>2, <1>3, DownStreaming DEF Finished
<1>4. CASE Up(p)
  <2>0. /\ Quiet(p, i) /\ Unopened(p, i)
        /\ Idle(h) /\ BeforeSyn(h) /\ OwingSyn(h) /\ Closing(h) /\ AtEof(h)
    BY <1>0, <1>4, OfSide
  <2>1. o = e /\ e # None /\ n = None
    BY <1>0, <1>4, <2>0, ObjectOf DEF BeforeSyn
  <2>2. /\ shared'[e].state # "RecvClosed"
        /\ ~CanRead(shared'[e].state) <=> ~CanRead(shared[e].state)
        /\ shared[e].state = "Closed" => shared'[e].state = "Closed"
    BY <1>1, <2>1 DEF UpdateState, CanRead
  <2>3. RecvKept(p, i)
    <3>1. /\ Opened(p, i) => Opened(p, i)'
          /\ SeenEnd(p, i)' <=> SeenEnd(p, i)
          /\ ~SeenFin(p, i)'
          /\ Buffered(p, i)' = Buffered(p, i)
      BY <1>0, <1>1, <2>1, <2>2 DEF Opened, SeenEnd, SeenFin, Buffered
    <3> QED
      BY <1>0, <1>t, <3>1 DEF RecvKept, Up
  <2>4. SendKept(p, i)
    <3>1. /\ Opened(p, i) => Opened(p, i)'
          /\ Wired(p, i)' <=> Wired(p, i)
      BY <1>0, <1>1, <2>1 DEF Opened, Wired, Up
    <3> QED
      BY <1>0, <1>t, <3>1 DEF SendKept, Up, AlikeFrame, Alike, Finished
  <2>5. Quiet(p, i)' /\ Unopened(p, i)'
    BY <1>0, <1>1, <2>0, <2>1 DEF Quiet, Unopened
  <2>6. Idle(h)' /\ BeforeSyn(h)'
    BY <1>0, <1>t, <2>0, <2>1 DEF Idle, BeforeSyn, Leaving
  <2>7. OwingSyn(h)' /\ Closing(h)'
    BY <1>0, <1>t, <1>1, <2>0, <2>1, <2>2 DEF OwingSyn, Closing, Full
  <2>8. AtEof(h)'
    BY <1>0, <1>1, <2>0, <2>1, <2>2 DEF AtEof
  <2> QED
    BY <1>0, <1>2, <2>3, <2>4, <2>5, <2>6, <2>7, <2>8, SideOf, SoloStreaming DEF Attends
<1> QED
  BY <1>3, <1>4

(* A dropped handle holds nothing; what it queued is still to be sent.      *)
LEMMA DropStreaming ==
  ASSUME NoSiblings, Typing, Filed, Streaming, NEW h \in Handle, DropShared(h) \/ DropSender(h)
  PROVE  Streaming'
<1> DEFINE p == h.peer
           i == h.id
           e == streams[p][i]
           n == inactive[p][i]
<1>0. /\ p \in Peer /\ i \in Id /\ Side(p, i)
      /\ UNCHANGED <<streams, inactive, owed_close, shared, channel, written, taken,
                     conn, pending_write_frame, wire>>
  BY HandlesAreObjects DEF DropShared, DropSender, driver, registry, Streaming
<1>t. /\ Typed /\ rd \in [Handle -> RdStates] /\ wr \in [Handle -> WrStates]
  BY TypingTyped DEF Typing, HandlesTyped
<1>1. /\ task[h] \in {"live", "half", "dropping"} /\ task'[h] \in Leaving
      /\ \A g \in Handle \ {h} : /\ task'[g] = task[g] /\ object'[g] = object[g]
                                 /\ rd'[g] = rd[g] /\ wr'[g] = wr[g]
      /\ task[h] # "dropping" => object'[h] = None /\ rd'[h] = "idle" /\ wr'[h] = "idle"
      /\ task[h] = "dropping" => object'[h] = object[h] /\ rd'[h] = rd[h] /\ wr'[h] = wr[h]
  BY <1>t DEF DropShared, DropSender, Typed, Leaving
<1>2. Solo(h)
  BY <1>0, <1>1 DEF Solo
<1>3. Finished(h)'
  BY <1>1 DEF Finished, Leaving
<1>4. CASE ~Up(p)
  BY <1>0, <1>2, <1>3, <1>4, DownStreaming
<1>5. CASE Up(p)
  <2>0. /\ Quiet(p, i) /\ Unopened(p, i)
        /\ Idle(h) /\ BeforeSyn(h) /\ OwingSyn(h) /\ Closing(h) /\ AtEof(h)
    BY <1>0, <1>5, OfSide
  <2>1. RecvKept(p, i) /\ SendKept(p, i)
    <3>1. task[h] # "reaped" /\ task'[h] # "reaped"
      BY <1>1 DEF Leaving
    <3> QED
      BY <1>0, <1>3, <3>1, HandleKept
  <2>2. Quiet(p, i)' /\ Unopened(p, i)'
    BY <1>0, <2>0 DEF Quiet, Unopened
  <2>3. object'[h] = None /\ rd'[h] # "eof" /\ wr'[h] # "mid" /\ task'[h] \in Leaving
    BY <1>1, <2>0 DEF Idle, Leaving
  <2>4. Idle(h)'
    BY <1>0, <1>1, <2>0, <2>3 DEF Idle, Leaving
  <2>5. BeforeSyn(h)' /\ OwingSyn(h)' /\ Closing(h)' /\ AtEof(h)'
    BY <1>0, <2>3 DEF BeforeSyn, OwingSyn, Closing, AtEof, Leaving
  <2> QED
    BY <1>0, <1>2, <2>1, <2>2, <2>4, <2>5, SideOf, SoloStreaming DEF Attends
<1> QED
  BY <1>4, <1>5

-----------------------------------------------------------------------------
(* The write side of the driver: the head of a channel becomes the pending  *)
(* frame, and is as much on its way there as it was before.                 *)
LEMMA AwakeKeeps ==
  ASSUME NEW f, NEW hs, NEW h \in Handle
  PROVE  /\ Awake(f, hs)[h] = "eof" <=> f[h] = "eof"
         /\ Awake(f, hs)[h] = "mid" <=> f[h] = "mid"
BY DEF Awake

LEMMA PollStreamStreaming ==
  ASSUME NoSiblings, Typing, Filed, Queues, Streaming, NEW h \in Handle, PollStream(h)
  PROVE  Streaming'
<1> DEFINE p == h.peer
           i == h.id
           q == Other(p)
           e == streams[p][i]
           n == inactive[p][i]
           c == channel[h]
           f == Head(c)
           d == Tail(c)
<1>0. /\ p \in Peer /\ i \in Id /\ q \in Peer /\ Other(q) = p /\ q # p
      /\ Side(p, i) /\ Flows(p, i) /\ Flows(q, i) /\ HandlesOf(p, i) = {h}
  BY HandlesAreObjects, TwoPeers, OnlyHandle DEF Streaming
<1>1. /\ Up(p) /\ pending_write_frame[p] = None /\ c # <<>>
      /\ pending_write_frame' = [pending_write_frame EXCEPT ![p] = f]
      /\ channel' = [channel EXCEPT ![h] = d]
      /\ UNCHANGED <<streams, inactive, owed_close, shared, task, object, written, taken,
                     conn, wire>>
  BY DEF PollStream, registry
<1>2. \A g \in Handle : /\ rd'[g] = "eof" <=> rd[g] = "eof"
                        /\ wr'[g] = "mid" <=> wr[g] = "mid"
  <2>1. PICK a, b : rd' = Awake(rd, a) /\ wr' = Awake(wr, b)
    BY Zenon DEF PollStream, WakeForRoom
  <2>2. /\ \A g \in Handle : Awake(rd, a)[g] = "eof" <=> rd[g] = "eof"
        /\ \A g \in Handle : Awake(wr, b)[g] = "mid" <=> wr[g] = "mid"
    BY AwakeKeeps
  <2> QED
    BY <2>1, <2>2
<1>3. /\ c \in Seq(StreamFrame) /\ f \in StreamFrame /\ f.id = i /\ f # None
      /\ channel'[h] = d /\ pending_write_frame'[p] = f
      /\ \A g \in Handle \ {h} : channel'[g] = channel[g]
      /\ pending_write_frame'[q] = pending_write_frame[q]
  <2>1. /\ c \in Seq(Own(h)) /\ c \in Seq(StreamFrame)
        /\ channel \in [Handle -> Seq(StreamFrame)]
        /\ pending_write_frame \in [Peer -> StreamFrame \cup {None}]
    BY DEF Queues, Typing, FramesTyped
  <2>2. f \in Own(h)
    BY <1>1, <2>1
  <2> HIDE DEF c, d, f
  <2> QED
    BY <1>0, <1>1, <2>1, <2>2, NoneIsNoFrame DEF c, Own
<1>4. /\ Count(c, i) = One(f, i) + Count(d, i) /\ Count(d, i) \in Nat
      /\ HasEnd(c, i) <=> Ends(f, i) \/ HasEnd(d, i)
      /\ HasSyn(c, i) <=> Opens(f, i) \/ HasSyn(d, i)
      /\ HasBody(c, i) <=> Body(f, i) \/ HasBody(d, i)
      /\ Ordered(c, i) => Ordered(d, i) /\ (Ends(f, i) => Count(d, i) = 0)
      /\ Led(c, i) => (Body(f, i) => Opens(f, i)) /\ (~Opens(f, i) => Led(d, i))
  BY <1>1, <1>3, OfTail
<1> HIDE DEF c, d, f
<1>n. /\ ~Body(None, i) /\ ~Opens(None, i) /\ ~Data(None, i) /\ ~Ends(None, i)
      /\ One(None, i) = 0
  BY DEF Body, Opens, Data, Ends, One
<1>5. Solo(h)
  <2>1. UNCHANGED <<streams, inactive, owed_close, shared, task, object, written, taken, conn>>
    BY <1>1
  <2>2. \A g \in Handle \ {h} : channel'[g] = channel[g]
    BY <1>3
  <2> QED
    BY <1>2, <2>1, <2>2 DEF Solo
<1>6. Elsewhere(p, i)
  <2>1. \A r \in Peer, j \in Id : r # p \/ j # i => Steady(r, j)
    BY <1>5, SoloSteady
  <2>2. \A r \in Peer, j \in Id : Alike(wire[r], wire'[r], j)
    BY <1>1 DEF Alike
  <2>3. ASSUME NEW r \in Peer, NEW j \in Id, j # i
        PROVE  AlikeFrame(pending_write_frame[r], pending_write_frame'[r], j)
    BY <1>0, <1>1, <1>3, <2>3, TwoPeers DEF AlikeFrame, Foreign, Data, Ends
  <2> QED
    BY <1>3, <2>1, <2>2, <2>3 DEF Elsewhere
<1>7. RecvKept(q, i) /\ SendKept(q, i)
  BY <1>0, <1>3, <1>6, SteadyKept DEF Elsewhere, AlikeFrame
<1>8. /\ Opened(p, i)' <=> Opened(p, i)
      /\ Wired(p, i)' <=> Wired(p, i)
      /\ Up(p)' <=> Up(p)
  BY <1>1 DEF Opened, Gone, Wired, Up
<1>9. Flows(p, i)'
  <2>1. RecvKept(p, i)
    BY <1>1, <1>8 DEF RecvKept, SeenEnd, SeenFin, Buffered
  <2>2. Alike(wire[p], wire'[p], i)
    BY <1>1 DEF Alike
  <2> QED
    BY <1>0, <1>7, <2>1, <2>2, FlowsKept
<1>s. /\ Quiet(p, i) /\ Unopened(p, i)
      /\ Idle(h) /\ BeforeSyn(h) /\ OwingSyn(h) /\ Closing(h) /\ AtEof(h)
  BY <1>0, <1>1, OfSide
<1>10. Flows(q, i)'
  <2>1. Sent(q, i)'
    BY <1>0, <1>1, <1>3, <1>4, <1>8 DEF Sent, Flows, c
  <2>2. HalfClosed(q, i)'
    BY <1>0, <1>7, <1>8 DEF HalfClosed, RecvKept, Flows
  <2>3. Reached(q, i)'
    BY <1>0, <1>1, <1>3, <1>4, <1>7, <1>8, <1>n DEF Reached, RecvKept, Flows, c
  <2>4. LedIn(q, i)'
    <3> SUFFICES ASSUME conn'[q] = "active", ~Opened(q, i)' PROVE LedIn(q, i)'
      BY DEF LedIn
    <3>1. conn[q] = "active" /\ ~Opened(q, i) /\ LedIn(q, i)
      BY <1>0, <1>7 DEF RecvKept, Flows
    <3>2. /\ Led(wire[q], i)
          /\ HasSyn(wire[q], i) \/ (Led(c, i) /\ ~Body(owed_close[p][i], i))
      BY <1>0, <1>1, <1>n, <3>1 DEF LedIn, c
    <3>3. /\ Led(wire'[q], i)
          /\ HasSyn(wire'[q], i) \/ (Body(f, i) => Opens(f, i))
          /\ \/ HasSyn(wire'[q], i) \/ Opens(f, i)
             \/ Led(d, i) /\ ~Body(owed_close'[p][i], i)
      BY <1>1, <1>4, <3>2
    <3> QED
      BY <1>0, <1>3, <3>3 DEF LedIn
  <2>x. /\ Exhausted(p, i) <=> Count(c, i) = 0 /\ Finished(h)
        /\ Exhausted(p, i)' <=> Count(d, i) = 0 /\ Finished(h)
    BY <1>0, <1>1, <1>3 DEF Exhausted, Finished, c
  <2>y. Exhausted(p, i) => ~Data(f, i) /\ Exhausted(p, i)'
    BY <1>4, <2>x DEF One
  <2>5. LastOfAll(q, i)'
    <3>1. Ends(f, i) => Exhausted(p, i)'
      <4>1. Ordered(c, i) /\ (HasEnd(c, i) => Finished(h))
        BY <1>s DEF Idle, Finished, c
      <4> QED
        BY <1>4, <2>x, <4>1
    <3>2. Ordered(wire[q], i) /\ (HasEnd(wire[q], i) => Exhausted(p, i))
      BY <1>0 DEF Flows, LastOfAll
    <3> QED
      BY <1>0, <1>1, <1>3, <2>y, <3>1, <3>2 DEF LastOfAll
  <2>6. NoneBehind(q, i)'
    <3>1. conn[q] = "active" /\ SeenEnd(q, i) => Count(wire[q], i) = 0 /\ Exhausted(p, i)
      BY <1>0 DEF Flows, NoneBehind
    <3>2. conn'[q] = "active" /\ SeenEnd(q, i)' => conn[q] = "active" /\ SeenEnd(q, i)
      BY <1>7 DEF RecvKept
    <3> QED
      BY <1>0, <1>1, <1>3, <2>y, <3>1, <3>2 DEF NoneBehind
  <2>7. Balance(q, i)'
    <3> SUFFICES ASSUME NEW g \in HandlesOf(q, i), conn'[p] = "active", conn'[q] = "active",
                        task'[g] # "reaped"
                 PROVE  written'[h] = (taken'[g] + Buffered(q, i)') + Count(wire'[q], i)
                                      + One(f, i) + Count(d, i)
      BY <1>0, <1>3 DEF Balance
    <3>1. written[h] = (taken[g] + Buffered(q, i)) + Count(wire[q], i) + 0 + Count(c, i)
      BY <1>0, <1>1, <1>n DEF Balance, Flows, c
    <3>2. Buffered(q, i)' = Buffered(q, i)
      BY <1>1 DEF Buffered
    <3>3. taken[g] + Buffered(q, i) \in Nat /\ Count(wire[q], i) \in Nat /\ One(f, i) \in Nat
      BY <1>0, ReceivedUpTo DEF One
    <3> DEFINE T == taken[g] + Buffered(q, i)
               W == Count(wire[q], i)
               O == One(f, i)
               C == Count(d, i)
    <3>4. written[h] = T + W + 0 + (O + C) /\ T \in Nat /\ W \in Nat /\ O \in Nat /\ C \in Nat
      BY <1>4, <3>1, <3>3
    <3> HIDE DEF T, W, O, C
    <3>5. written[h] = T + W + O + C
      BY <3>4
    <3> QED
      BY <1>1, <3>2, <3>5 DEF T, W, O, C
  <2> QED
    BY <2>1, <2>2, <2>3, <2>4, <2>5, <2>6, <2>7 DEF Flows
<1>11. Quiet(p, i)' /\ Unopened(p, i)'
  BY <1>1, <1>s DEF Quiet, Unopened
<1>12. Idle(h)'
  <2>1. task[h] \notin {"new", "reaped"}
    BY <1>1, <1>s DEF Idle, c
  <2> QED
    BY <1>1, <1>2, <1>3, <1>4, <1>s, <2>1 DEF Idle, Leaving, c
<1>13. BeforeSyn(h)' /\ OwingSyn(h)' /\ Closing(h)' /\ AtEof(h)'
  <2>1. /\ n # None => object[h] # n
        /\ e # None /\ shared[e].syn_pending => object[h] # e
    BY <1>1, <1>s DEF BeforeSyn, OwingSyn, c
  <2> QED
    BY <1>1, <1>2, <1>s, <2>1 DEF BeforeSyn, OwingSyn, Closing, AtEof
<1> QED
  BY <1>0, <1>6, <1>9, <1>10, <1>11, <1>12, <1>13, SideOf, ElsewhereKept DEF Attends

(* The end of a channel.  The entry of a reaped stream is gone, and what is *)
(* owed of it is a FIN only where the peer has ended its half, so that the  *)
(* peer knows the stream.                                                   *)
LEMMA ReapStreamStreaming ==
  ASSUME NoSiblings, Typing, Filed, Streaming, NEW h \in Handle, ReapStream(h)
  PROVE  Streaming'
<1> DEFINE p == h.peer
           i == h.id
           q == Other(p)
           e == streams[p][i]
           n == inactive[p][i]
<1>0. /\ p \in Peer /\ i \in Id /\ q \in Peer /\ Other(q) = p /\ q # p
      /\ Side(p, i) /\ Flows(p, i) /\ Flows(q, i) /\ HandlesOf(p, i) = {h}
  BY HandlesAreObjects, TwoPeers, OnlyHandle DEF Streaming
<1>1. /\ Up(p) /\ pending_write_frame[p] = None /\ Owed(p) = {}
      /\ task[h] = "dropped" /\ channel[h] = <<>> /\ task' = [task EXCEPT ![h] = "reaped"]
      /\ UNCHANGED <<object, channel, rd, written, taken, conn, pending_write_frame, wire>>
  BY DEF ReapStream, Ended, driver
<1>t. /\ Typed /\ owed_close \in [Peer -> [Id -> StreamFrame \cup {None}]]
      /\ task'[h] = "reaped" /\ \A g \in Handle \ {h} : task'[g] = task[g]
  BY <1>1, TypingTyped DEF Typing, RegistryTyped, Typed
<1>s. /\ Idle(h) /\ owed_close[p][i] = None
      /\ object[h] = None /\ rd[h] # "eof" /\ wr[h] # "mid"
  BY <1>0, <1>1, OfSide DEF Idle, Leaving, Owed
<1>2. ~HasLiveHandle(e) /\ ~HasLiveHandle(n)
  <2>1. ASSUME NEW o \in {e, n}, HasLiveHandle(o) PROVE FALSE
    <3>1. PICK g \in Handle : object[g] = o /\ o # None
      BY <2>1 DEF HasLiveHandle
    <3>2. o.peer = p /\ o.id = i /\ o.peer = g.peer /\ o.id = g.id
      BY <1>0, <3>1 DEF Filed, Owners
    <3> QED
      BY <1>0, <1>s, <3>1, <3>2 DEF HandlesOf
  <2> QED
    BY <2>1
<1>3. PICK x : /\ streams'[p][i] = None /\ inactive'[p][i] = None
               /\ owed_close' = [owed_close EXCEPT ![p][i] = x]
               /\ x = None \/ x = Rst(i) \/ (x = Fin(i) /\ SeenFin(p, i))
               /\ \A r \in Peer, j \in Id :
                    r # p \/ j # i => /\ streams'[r][j] = streams[r][j]
                                      /\ inactive'[r][j] = inactive[r][j]
               /\ \A o \in Obj : o.peer # p \/ o.id # i => shared'[o] = shared[o]
  <2>1. CASE e = None
    <3>1. /\ inactive' = [inactive EXCEPT ![p][i] = None] /\ UNCHANGED <<streams, shared>>
          /\ owed_close' = owed_close
      BY <1>2, <2>1 DEF ReapStream, Forget
    <3>2. owed_close' = [owed_close EXCEPT ![p][i] = None]
      BY <1>s, <1>t, <3>1
    <3>3. streams'[p][i] = None /\ inactive'[p][i] = None
      BY <1>0, <1>t, <2>1, <3>1 DEF Typed
    <3>4. \A r \in Peer, j \in Id :
            r # p \/ j # i => /\ streams'[r][j] = streams[r][j]
                             /\ inactive'[r][j] = inactive[r][j]
      BY <1>t, <3>1 DEF Typed
    <3>5. \A o \in Obj : o.peer # p \/ o.id # i => shared'[o] = shared[o]
      BY <3>1
    <3> QED
      BY Zenon, <3>2, <3>3, <3>4, <3>5
  <2>2. CASE e # None
    <3> DEFINE f == OwedClose(i, shared[e].state)
    <3>1. /\ streams' = [streams EXCEPT ![p][i] = None] /\ inactive' = inactive
          /\ shared' = [shared EXCEPT ![e] = NewShared]
          /\ owed_close' = [owed_close EXCEPT ![p][i] = IF f # None THEN f ELSE @]
      BY <1>2, <2>2 DEF ReapStream, Release
    <3>2. owed_close' = [owed_close EXCEPT ![p][i] = f]
      BY <1>s, <3>1
    <3>3. f = None \/ f = Rst(i) \/ (f = Fin(i) /\ SeenFin(p, i))
      BY <2>2 DEF OwedClose, SeenFin
    <3>4. n = None /\ e \in Obj /\ e.peer = p /\ e.id = i
      BY <1>0, <1>t, <2>2 DEF Filed, RegistryConsistent, Owners, Typed
    <3>5. streams'[p][i] = None /\ inactive'[p][i] = None
      BY <1>0, <1>t, <3>1, <3>4 DEF Typed
    <3>6. \A r \in Peer, j \in Id :
            r # p \/ j # i => /\ streams'[r][j] = streams[r][j]
                             /\ inactive'[r][j] = inactive[r][j]
      BY <1>t, <3>1 DEF Typed
    <3>7. \A o \in Obj : o.peer # p \/ o.id # i => shared'[o] = shared[o]
      BY <1>t, <3>1, <3>4 DEF Typed
    <3> HIDE DEF f
    <3> QED
      BY Zenon, <3>2, <3>3, <3>5, <3>6, <3>7
  <2> QED
    BY <2>1, <2>2
<1>4. owed_close'[p][i] = x /\ \A r \in Peer, j \in Id :
        r # p \/ j # i => owed_close'[r][j] = owed_close[r][j]
  BY <1>0, <1>t, <1>3
<1>5. \A g \in Handle : wr'[g] = "mid" <=> wr[g] = "mid"
  <2>1. wr' = wr \/ wr' = Awake(wr, slot_wakers[p])
    BY Zenon DEF ReapStream, Forget, Release
  <2>2. \A g \in Handle : Awake(wr, slot_wakers[p])[g] = "mid" <=> wr[g] = "mid"
    BY AwakeKeeps
  <2> QED
    BY <2>1, <2>2
<1>6. Solo(h)
  BY <1>1, <1>3, <1>4, <1>5, <1>t DEF Solo
<1>7. RecvKept(p, i)
  BY <1>0, <1>1, <1>3, <1>t DEF RecvKept, Up, Opened, Gone, SeenEnd, SeenFin
<1>8. RecvKept(q, i)
  BY <1>1, <1>6, SoloElsewhere
<1>9. Flows(q, i)'
  <2>1. /\ Opened(p, i)' /\ ~Wired(p, i)' /\ ~SeenEnd(p, i)'
        /\ Exhausted(p, i) /\ Exhausted(p, i)'
    BY <1>0, <1>1, <1>3, <1>t, OfNothing
       DEF Opened, Gone, Wired, SeenEnd, Exhausted, Finished
  <2>2. Sent(q, i)' /\ HalfClosed(q, i)' /\ Reached(q, i)'
    BY <1>0, <2>1 DEF Sent, HalfClosed, Reached
  <2>3. LedIn(q, i)'
    <3> SUFFICES ASSUME conn'[q] = "active", ~Opened(q, i)' PROVE LedIn(q, i)'
      BY DEF LedIn
    <3>1. conn[q] = "active" /\ ~Opened(q, i) /\ LedIn(q, i)
      BY <1>0, <1>8 DEF RecvKept, Flows
    <3>2. ~Body(x, i)
      <4>1. ~SeenFin(p, i)
        BY <1>0, <1>1, <3>1 DEF Flows, HalfClosed
      <4> QED
        BY <1>3, <4>1 DEF Body, Rst, Frame
    <3>3. Led(wire'[q], i) /\ ~Body(pending_write_frame'[p], i)
      BY <1>0, <1>1, <3>1 DEF LedIn, Body
    <3>4. Led(channel'[h], i)
      BY <1>1, OfNothing
    <3> QED
      BY <1>0, <1>4, <3>2, <3>3, <3>4 DEF LedIn
  <2>4. LastOfAll(q, i)'
    BY <1>0, <1>1, <2>1 DEF Flows, LastOfAll
  <2>5. NoneBehind(q, i)'
    BY <1>0, <1>1, <1>8, <2>1 DEF Flows, NoneBehind, RecvKept
  <2>6. Balance(q, i)'
    <3> SUFFICES ASSUME NEW g \in HandlesOf(q, i), conn'[p] = "active", conn'[q] = "active",
                        task'[g] # "reaped"
                 PROVE  written'[h] = (taken'[g] + Buffered(q, i)') + Count(wire'[q], i)
                                      + One(pending_write_frame'[p], i) + Count(channel'[h], i)
      BY <1>0 DEF Balance
    <3>1. task[g] # "reaped" /\ taken'[g] + Buffered(q, i)' = taken[g] + Buffered(q, i)
      BY <1>8 DEF RecvKept
    <3> QED
      BY <1>0, <1>1, <3>1 DEF Balance, Flows
  <2> QED
    BY <2>2, <2>3, <2>4, <2>5, <2>6 DEF Flows
<1>10. Side(p, i)'
  <2>1. Quiet(p, i)' /\ Unopened(p, i)'
    BY <1>3 DEF Quiet, Unopened
  <2>2. Idle(h)'
    BY <1>1, <1>3, <1>5, <1>s, <1>t DEF Idle, Leaving
  <2>3. BeforeSyn(h)' /\ OwingSyn(h)' /\ Closing(h)' /\ AtEof(h)'
    BY <1>1, <1>3, <1>s DEF BeforeSyn, OwingSyn, Closing, AtEof
  <2> QED
    BY <2>1, <2>2, <2>3, SideOf DEF Attends
<1> QED
  BY <1>1, <1>6, <1>7, <1>9, <1>10, SoloStreaming

-----------------------------------------------------------------------------
(* The driver.  A step that no stream notices, *)
LEMMA SteadyStreaming ==
  ASSUME Typing, Streaming,
         \A r \in Peer, j \in Id :
           /\ Steady(r, j) /\ Alike(wire[r], wire'[r], j)
           /\ AlikeFrame(pending_write_frame[r], pending_write_frame'[r], j)
  PROVE  Streaming'
<1> SUFFICES ASSUME NEW r \in Peer, NEW j \in Id PROVE Side(r, j)' /\ Flows(r, j)'
  BY DEF Streaming
<1>1. Side(r, j)'
  BY SteadySide DEF Streaming
<1>2. RecvKept(r, j) /\ SendKept(Other(r), j)
  BY SteadyKept, TwoPeers
<1> QED
  BY <1>1, <1>2, FlowsKept DEF Streaming

LEMMA PollFlushStreaming ==
  ASSUME Typing, Streaming, NEW h \in Handle, PollFlush(h)
  PROVE  Streaming'
<1>1. UNCHANGED <<streams, inactive, owed_close, shared, task, object, channel, rd,
                  written, taken, conn, pending_write_frame, wire>>
  BY DEF PollFlush, registry, driver
<1>2. \A g \in Handle : wr'[g] = "mid" <=> wr[g] = "mid"
  BY DEF PollFlush, Typing, HandlesTyped
<1>3. ASSUME NEW r, NEW j PROVE Steady(r, j)
  BY <1>1, <1>2 DEF Steady, Up, HandlesOf
<1> QED
  BY <1>1, <1>3, SteadyStreaming DEF Alike, AlikeFrame

LEMMA SendGoAwayStreaming ==
  ASSUME Typing, Streaming, NEW p \in Peer, SendGoAway(p)
  PROVE  Streaming'
<1>1. /\ conn' = [conn EXCEPT ![p] = "terminated"] /\ conn[p] = "terminating"
      /\ UNCHANGED <<streams, inactive, owed_close, shared, task, object, channel,
                     written, taken, rd, wr, pending_write_frame>>
      /\ wire' = [wire EXCEPT ![Other(p)] = Append(@, GoAway)]
  BY DEF SendGoAway, Send, registry, handles
<1>2. ASSUME NEW r \in Peer, NEW j \in Id PROVE Steady(r, j)
  <2>1. /\ Up(r)' => Up(r)
        /\ conn'[r] = "active" => conn[r] = "active"
    BY <1>1 DEF Up, Typing, FramesTyped
  <2> QED
    BY <1>1, <2>1 DEF Steady
<1>3. ASSUME NEW r \in Peer, NEW j \in Id PROVE Alike(wire[r], wire'[r], j)
  <2>1. wire \in [Peer -> Seq(AnyFrame)] /\ GoAway \in AnyFrame
    BY DEF Typing, FramesTyped, AnyFrame
  <2>2. wire'[r] \in {wire[r], Append(wire[r], GoAway)} /\ wire[r] \in Seq(AnyFrame)
    BY <1>1, <2>1
  <2>3. Foreign(GoAway, j)
    BY DEF Foreign, Data, Ends, GoAway, Frame
  <2> QED
    BY <2>1, <2>2, <2>3, AlikeSteps
<1> QED
  BY <1>1, <1>2, <1>3, SteadyStreaming DEF AlikeFrame

(* the pending frame going onto the wire, *)
LEMMA SendPendingStreaming ==
  ASSUME Typing, Streaming, NEW p \in Peer, SendPending(p)
  PROVE  Streaming'
<1>0. PICK f \in StreamFrame, i \in Id : f = pending_write_frame[p] /\ i = f.id
  <2>1. pending_write_frame[p] \in StreamFrame
    BY DEF SendPending, Typing, FramesTyped
  <2> QED
    BY <2>1 DEF StreamFrame
<1> DEFINE q == Other(p)
           c == wire[q]
           d == Append(c, f)
<1>1. /\ UNCHANGED <<streams, inactive, owed_close, shared, task, object, channel,
                     written, taken, rd, wr, conn>>
      /\ f # None /\ wire' = [wire EXCEPT ![q] = d]
      /\ pending_write_frame' = [pending_write_frame EXCEPT ![p] = None]
  BY <1>0 DEF SendPending, Send, registry, handles
<1>2. /\ f \in AnyFrame /\ f = pending_write_frame[p] /\ c \in Seq(AnyFrame) /\ q \in Peer /\ q # p /\ Other(q) = p
      /\ wire'[q] = d /\ wire'[p] = wire[p]
      /\ pending_write_frame'[p] = None /\ pending_write_frame'[q] = pending_write_frame[q]
  <2>1. /\ wire \in [Peer -> Seq(AnyFrame)]
        /\ pending_write_frame \in [Peer -> StreamFrame \cup {None}]
    BY DEF Typing, FramesTyped, AnyFrame
  <2> HIDE DEF d
  <2> QED
    BY <1>0, <1>1, <2>1, TwoPeers DEF AnyFrame
<1>3. /\ Count(d, i) = Count(c, i) + One(f, i) /\ Count(c, i) \in Nat
      /\ HasEnd(d, i) <=> HasEnd(c, i) \/ Ends(f, i)
      /\ HasSyn(d, i) <=> HasSyn(c, i) \/ Opens(f, i)
      /\ HasBody(d, i) <=> HasBody(c, i) \/ Body(f, i)
      /\ Ordered(c, i) /\ (HasEnd(c, i) => ~Data(f, i)) => Ordered(d, i)
      /\ Led(c, i) /\ (HasSyn(c, i) \/ (Body(f, i) => Opens(f, i))) => Led(d, i)
  BY <1>2, OfAppend, CountType
<1>n. /\ ~Body(None, i) /\ ~Opens(None, i) /\ ~Data(None, i) /\ ~Ends(None, i)
      /\ One(None, i) = 0 /\ One(f, i) \in Nat
      /\ Data(f, i) => One(f, i) = 1
      /\ ~Data(f, i) => One(f, i) = 0
  BY DEF Body, Opens, Data, Ends, One
<1>4. \A r \in Peer, j \in Id : Steady(r, j)
  BY <1>1 DEF Steady, Up
<1>5. Elsewhere(p, i)
  <2>1. ASSUME NEW j \in Id, j # i PROVE Foreign(f, j) /\ Foreign(None, j)
    BY <1>0, <2>1 DEF Foreign, Data, Ends
  <2>2. \A r \in Peer, j \in Id : j # i => Alike(wire[r], wire'[r], j)
    <3> HIDE DEF d, c
    <3> SUFFICES ASSUME NEW r \in Peer, NEW j \in Id, j # i PROVE Alike(wire[r], wire'[r], j)
      OBVIOUS
    <3>1. Alike(wire[p], wire[p], j)
      BY DEF Alike
    <3>2. Alike(c, d, j)
      BY <1>2, <2>1, AlikeSteps DEF d
    <3>3. r = q \/ r = p
      BY TwoPeers
    <3> QED
      BY <1>2, <3>1, <3>2, <3>3 DEF c
  <2>3. \A r \in Peer, j \in Id :
          j # i => AlikeFrame(pending_write_frame[r], pending_write_frame'[r], j)
    BY <1>2, <2>1, TwoPeers DEF AlikeFrame
  <2> QED
    BY <1>2, <1>4, <2>2, <2>3 DEF Elsewhere
<1>6. RecvKept(p, i) /\ RecvKept(q, i) /\ (Opened(p, i) => Opened(p, i)')
  BY <1>2, <1>4, SteadyReceives
<1>7. Flows(p, i) /\ Flows(q, i) /\ Side(p, i)'
  BY <1>2, <1>4, SteadySide DEF Streaming
<1>8. Flows(p, i)'
  <2>1. SendKept(q, i)
    BY <1>2, <1>4, SteadyKept DEF AlikeFrame
  <2>2. Alike(wire[p], wire'[p], i)
    BY <1>2 DEF Alike
  <2> QED
    BY <1>2, <1>6, <1>7, <2>1, <2>2, FlowsKept
<1>9. Flows(q, i)'
  <2> HIDE DEF d
  <2>1. Sent(q, i)' /\ HalfClosed(q, i)'
    BY <1>1, <1>2, <1>3, <1>6, <1>7, <1>n DEF Flows, Sent, HalfClosed, RecvKept
  <2>2. Reached(q, i)'
    <3>1. Wired(p, i)' => Wired(p, i)
      BY <1>1 DEF Wired, Up
    <3> QED
      BY <1>1, <1>2, <1>3, <1>6, <1>7, <3>1 DEF Flows, Reached, RecvKept
  <2>3. LedIn(q, i)'
    <3> SUFFICES ASSUME conn'[q] = "active", ~Opened(q, i)' PROVE LedIn(q, i)'
      BY DEF LedIn
    <3>1. conn[q] = "active" /\ ~Opened(q, i) /\ LedIn(q, i)
      BY <1>6, <1>7 DEF RecvKept, Flows
    <3>2. Up(p)' <=> Up(p)
      BY <1>1 DEF Up
    <3> QED
      BY <1>1, <1>2, <1>3, <1>n, <3>1, <3>2 DEF LedIn
  <2>x. Exhausted(p, i)' <=> Exhausted(p, i)
    BY <1>1 DEF Exhausted, Finished
  <2>4. LastOfAll(q, i)'
    <3>1. LastOfAll(q, i)
      BY <1>7 DEF Flows
    <3> QED
      BY <1>2, <1>3, <1>n, <2>x, <3>1 DEF LastOfAll
  <2>5. NoneBehind(q, i)'
    <3>1. conn'[q] = "active" /\ SeenEnd(q, i)' => NoneBehind(q, i) /\ conn[q] = "active" /\ SeenEnd(q, i)
      BY <1>6, <1>7 DEF Flows, RecvKept
    <3> QED
      BY <1>2, <1>3, <1>n, <2>x, <3>1 DEF NoneBehind
  <2>6. Balance(q, i)'
    <3> SUFFICES ASSUME NEW g \in HandlesOf(q, i), NEW h \in HandlesOf(p, i),
                        conn'[p] = "active", conn'[q] = "active", task'[g] # "reaped"
                 PROVE  written'[h] = (taken'[g] + Buffered(q, i)') + Count(d, i)
                                      + One(None, i) + Count(channel'[h], i)
      BY <1>2 DEF Balance
    <3>1. /\ written[h] = (taken[g] + Buffered(q, i)) + Count(c, i) + One(f, i)
                          + Count(channel[h], i)
          /\ taken'[g] + Buffered(q, i)' = taken[g] + Buffered(q, i)
      BY <1>1, <1>2, <1>6, <1>7 DEF Balance, Flows, RecvKept
    <3>2. taken[g] + Buffered(q, i) \in Nat /\ Count(channel[h], i) \in Nat
      BY <1>2, ReceivedUpTo, CountType DEF HandlesOf, Typing, FramesTyped
    <3> DEFINE T == taken[g] + Buffered(q, i)
               W == Count(c, i)
               O == One(f, i)
               C == Count(channel[h], i)
    <3>3. /\ written[h] = T + W + O + C /\ T \in Nat /\ W \in Nat /\ O \in Nat /\ C \in Nat
          /\ Count(d, i) = W + O
      BY <1>3, <1>n, <3>1, <3>2
    <3> HIDE DEF T, W, O, C, c
    <3>4. written[h] = T + (W + O) + 0 + C
      BY <3>3
    <3> QED
      BY <1>1, <1>n, <3>1, <3>3, <3>4 DEF T, C
  <2> QED
    BY <2>1, <2>2, <2>3, <2>4, <2>5, <2>6 DEF Flows
<1> QED
  BY <1>2, <1>5, <1>7, <1>8, <1>9, ElsewhereKept

(* and what is owed of a reaped stream becoming the pending frame.          *)
LEMMA TakeOwedStreaming ==
  ASSUME NoSiblings, Typing, Queues, Streaming, NEW p \in Peer, TakeOwed(p)
  PROVE  Streaming'
<1>0. PICK i \in Id : /\ owed_close[p][i] # None
                      /\ pending_write_frame' = [pending_write_frame EXCEPT ![p] = owed_close[p][i]]
                      /\ owed_close' = [owed_close EXCEPT ![p][i] = None]
  BY DEF TakeOwed, Owed
<1> DEFINE q == Other(p)
           x == owed_close[p][i]
<1>1. /\ Up(p) /\ pending_write_frame[p] = None
      /\ UNCHANGED <<streams, inactive, shared, task, object, channel, written, taken, rd,
                     conn, wire>>
  BY DEF TakeOwed
<1>2. /\ q \in Peer /\ q # p /\ Other(q) = p
      /\ pending_write_frame'[p] = x /\ pending_write_frame'[q] = pending_write_frame[q]
      /\ owed_close'[p][i] = None
      /\ \A r \in Peer, j \in Id :
           r # p \/ j # i => owed_close'[r][j] = owed_close[r][j]
      /\ x \in {Fin(i), Rst(i)}
  <2>1. /\ pending_write_frame \in [Peer -> StreamFrame \cup {None}]
        /\ owed_close \in [Peer -> [Id -> StreamFrame \cup {None}]]
    BY DEF Typing, FramesTyped, RegistryTyped
  <2>2. x \in {Fin(i), Rst(i)}
    BY <1>0 DEF Queues
  <2> HIDE DEF x
  <2> QED
    BY <1>0, <2>1, <2>2, TwoPeers DEF x
<1>3. /\ ~Data(x, i) /\ ~Opens(x, i) /\ One(x, i) = 0
      /\ \A j \in Id : j # i => Foreign(x, j)
  BY <1>2 DEF Data, Opens, One, Foreign, Ends, Fin, Rst, Frame
<1>n. /\ ~Body(None, i) /\ ~Opens(None, i) /\ ~Data(None, i) /\ ~Ends(None, i)
      /\ One(None, i) = 0 /\ \A j \in Id : Foreign(None, j)
  BY DEF Body, Opens, Data, Ends, One, Foreign
<1>4. \A h \in Handle : /\ wr'[h] = "mid" <=> wr[h] = "mid"
  BY AwakeKeeps DEF TakeOwed
<1>5. \A r \in Peer, j \in Id : r # p \/ j # i => Steady(r, j)
  <2> SUFFICES ASSUME NEW r \in Peer, NEW j \in Id, r # p \/ j # i PROVE Steady(r, j)
    OBVIOUS
  <2>1. owed_close'[r][j] = owed_close[r][j]
    BY <1>2
  <2>2. \A h \in HandlesOf(r, j) : wr'[h] = "mid" <=> wr[h] = "mid"
    BY <1>4 DEF HandlesOf
  <2> QED
    BY <1>1, <2>1, <2>2 DEF Steady, Up
<1>6. Elsewhere(p, i)
  <2>1. \A r \in Peer, j \in Id : Alike(wire[r], wire'[r], j)
    BY <1>1 DEF Alike
  <2>2. \A r \in Peer, j \in Id :
          j # i => AlikeFrame(pending_write_frame[r], pending_write_frame'[r], j)
    BY <1>1, <1>2, <1>3, <1>n, TwoPeers DEF AlikeFrame
  <2> QED
    BY <1>2, <1>5, <2>1, <2>2 DEF Elsewhere
<1>7. Flows(p, i) /\ Flows(q, i) /\ Side(p, i)
  BY <1>2 DEF Streaming
<1>8. /\ Opened(p, i)' <=> Opened(p, i)
      /\ Opened(q, i)' <=> Opened(q, i)
      /\ SeenEnd(q, i)' <=> SeenEnd(q, i)
      /\ SeenFin(q, i)' <=> SeenFin(q, i)
      /\ Wired(p, i)' <=> Wired(p, i)
      /\ Exhausted(p, i)' <=> Exhausted(p, i)
      /\ Up(p)' /\ (Up(q)' <=> Up(q))
  BY <1>1 DEF Opened, Gone, SeenEnd, SeenFin, Wired, Exhausted, Finished, Up
<1>9. Exhausted(p, i)
  <2> SUFFICES ASSUME NEW h \in HandlesOf(p, i) PROVE Count(channel[h], i) = 0 /\ Finished(h)
    BY DEF Exhausted
  <2>1. h \in Handle /\ h.peer = p /\ h.id = i /\ Idle(h)
    BY <1>1, <1>7 DEF HandlesOf, Side, Attends
  <2>2. channel[h] = <<>> /\ task[h] = "reaped"
    BY <1>0, <2>1 DEF Idle
  <2> QED
    BY <2>2, OfNothing DEF Finished
<1>10. Side(p, i)'
  <2> SUFFICES ASSUME NEW h \in HandlesOf(p, i)
               PROVE  Quiet(p, i)' /\ Unopened(p, i)' /\ Attends(h)'
    BY <1>1, <1>7 DEF Side, Quiet, Unopened
  <2>1. /\ Quiet(p, i) /\ Unopened(p, i) /\ h.peer = p /\ h.id = i /\ h \in Handle
        /\ Idle(h) /\ BeforeSyn(h) /\ OwingSyn(h) /\ Closing(h) /\ AtEof(h)
    BY <1>1, <1>7 DEF Side, Attends, HandlesOf
  <2>2. Quiet(p, i)' /\ Unopened(p, i)'
    BY <1>1, <2>1 DEF Quiet, Unopened
  <2>3. Idle(h)'
    BY <1>1, <1>2, <1>4, <2>1 DEF Idle
  <2>4. BeforeSyn(h)' /\ OwingSyn(h)' /\ Closing(h)' /\ AtEof(h)'
    BY <1>1, <1>4, <2>1 DEF BeforeSyn, OwingSyn, Closing, AtEof, Full
  <2> QED
    BY <2>2, <2>3, <2>4 DEF Attends
<1>11. Flows(p, i)'
  <2>1. RecvKept(p, i)
    BY <1>1, <1>8 DEF RecvKept, SeenEnd, SeenFin, Buffered
  <2>2. SendKept(q, i)
    BY <1>2, <1>5, SteadyKept DEF AlikeFrame
  <2>3. Alike(wire[p], wire'[p], i)
    BY <1>1 DEF Alike
  <2> QED
    BY <1>2, <1>7, <2>1, <2>2, <2>3, FlowsKept
<1>12. Flows(q, i)'
  <2>1. Sent(q, i)' /\ HalfClosed(q, i)'
    BY <1>0, <1>1, <1>2, <1>7, <1>8 DEF Sent, HalfClosed, Flows
  <2>2. Reached(q, i)'
    BY <1>1, <1>2, <1>3, <1>7, <1>8, <1>n DEF Reached, Flows
  <2>3. LedIn(q, i)'
    <3> SUFFICES ASSUME conn'[q] = "active", ~Opened(q, i)' PROVE LedIn(q, i)'
      BY DEF LedIn
    <3>1. conn[q] = "active" /\ ~Opened(q, i) /\ LedIn(q, i)
      BY <1>1, <1>7, <1>8 DEF Flows
    <3>2. Led(wire[q], i)
      BY <3>1 DEF LedIn
    <3>3. HasSyn(wire[q], i) \/ (~Body(x, i) /\ \A g \in HandlesOf(p, i) : Led(channel[g], i))
      BY <1>1, <1>2, <1>n, <3>1 DEF LedIn
    <3> QED
      BY <1>1, <1>2, <1>n, <3>2, <3>3 DEF LedIn
  <2>4. LastOfAll(q, i)' /\ NoneBehind(q, i)'
    BY <1>1, <1>2, <1>3, <1>7, <1>8, <1>9 DEF LastOfAll, NoneBehind, Flows
  <2>5. Balance(q, i)'
    <3>1. Buffered(q, i)' = Buffered(q, i)
      BY <1>1 DEF Buffered
    <3> QED
      BY <1>1, <1>2, <1>3, <1>7, <1>n, <3>1 DEF Balance, Flows
  <2> QED
    BY <2>1, <2>2, <2>3, <2>4, <2>5 DEF Flows
<1> QED
  BY <1>6, <1>10, <1>11, <1>12, ElsewhereKept

-----------------------------------------------------------------------------
(* The read side.  A connection that is no longer active only loses frames, *)
LEMMA Inattentive ==
  ASSUME NEW p \in Peer, NEW i \in Id, Flows(p, i), RecvKept(p, i), SendKept(Other(p), i),
         conn'[p] # "active", Ordered(wire'[p], i),
         HasBody(wire'[p], i) => HasBody(wire[p], i),
         HasEnd(wire'[p], i) => HasEnd(wire[p], i)
  PROVE  Flows(p, i)'
<1> DEFINE q == Other(p)
           f == pending_write_frame[q]
           g == pending_write_frame'[q]
<1>f. /\ Data(f, i) <=> Data(g, i)
      /\ Ends(f, i) <=> Ends(g, i)
      /\ Body(f, i) <=> Body(g, i)
  BY FrameAlike DEF SendKept
<1>1. Sent(p, i)' /\ HalfClosed(p, i)'
  BY <1>f DEF Flows, Sent, HalfClosed, SendKept, RecvKept, Alike
<1>2. LastOfAll(p, i)'
  BY <1>f DEF Flows, LastOfAll, Exhausted, SendKept, Alike
<1> QED
  BY <1>1, <1>2 DEF Flows, Reached, LedIn, NoneBehind, Balance

LEMMA IgnoreFrameStreaming ==
  ASSUME Typing, Streaming, NEW p \in Peer, IgnoreFrame(p)
  PROVE  Streaming'
<1>1. /\ conn[p] # "active" /\ wire[p] # <<>> /\ wire' = [wire EXCEPT ![p] = Tail(@)]
      /\ UNCHANGED <<streams, inactive, owed_close, shared, task, object, channel,
                     written, taken, rd, wr, conn, pending_write_frame>>
  BY DEF IgnoreFrame, Receives
<1>2. /\ wire'[p] = Tail(wire[p]) /\ wire[p] \in Seq(AnyFrame)
      /\ \A r \in Peer : r # p => wire'[r] = wire[r]
  BY <1>1 DEF Typing, FramesTyped, AnyFrame
<1> SUFFICES ASSUME NEW r \in Peer, NEW j \in Id PROVE Side(r, j)' /\ Flows(r, j)'
  BY DEF Streaming
<1>3. \A x \in Peer : Steady(x, j)
  BY <1>1 DEF Steady, Up
<1>4. Side(r, j)' /\ RecvKept(r, j) /\ SendKept(Other(r), j)
  BY <1>1, <1>3, SteadySide, SteadyKept, TwoPeers DEF Streaming, AlikeFrame
<1>5. CASE r = p
  <2>1. /\ Ordered(wire'[p], j)
        /\ HasBody(wire'[p], j) => HasBody(wire[p], j)
        /\ HasEnd(wire'[p], j) => HasEnd(wire[p], j)
    BY <1>1, <1>2, OfTail DEF Streaming, Flows, LastOfAll
  <2> QED
    BY <1>1, <1>4, <1>5, <2>1, Inattentive DEF Streaming
<1>6. CASE r # p
  BY <1>2, <1>4, <1>6, FlowsKept DEF Streaming, Alike
<1> QED
  BY <1>4, <1>5, <1>6

(* one that has failed drops all that it had still to send or to receive,   *)
LEMMA CloseReceiversStreaming ==
  ASSUME Typing, Streaming, NEW p \in Peer, Up(p), CloseReceivers(p)
  PROVE  Streaming'
<1> DEFINE q == Other(p)
<1>0. q \in Peer /\ q # p /\ Other(q) = p
  BY TwoPeers
<1>1. /\ conn' = [conn EXCEPT ![p] = "failed"]
      /\ channel' = [h \in Handle |-> IF h.peer = p THEN <<>> ELSE channel[h]]
      /\ pending_write_frame' = [pending_write_frame EXCEPT ![p] = None]
      /\ wire' = [wire EXCEPT ![p] = <<>>]
      /\ UNCHANGED <<streams, inactive, owed_close, shared, task, object, written, taken>>
  BY DEF CloseReceivers, registry
<1>2. /\ conn'[p] = "failed" /\ conn'[q] = conn[q] /\ wire'[p] = <<>> /\ wire'[q] = wire[q]
      /\ pending_write_frame'[p] = None /\ pending_write_frame'[q] = pending_write_frame[q]
      /\ ~Up(p)' /\ (Up(q)' <=> Up(q))
  BY <1>0, <1>1 DEF Typing, FramesTyped, Up
<1>3. \A h \in Handle : /\ rd'[h] = "eof" <=> rd[h] = "eof"
                        /\ wr'[h] = "mid" <=> wr[h] = "mid"
  <2>1. PICK a, b : rd' = Awake(rd, a) /\ wr' = Awake(wr, b)
    BY Zenon DEF CloseReceivers, WakeForRoom
  <2>2. /\ \A g \in Handle : Awake(rd, a)[g] = "eof" <=> rd[g] = "eof"
        /\ \A g \in Handle : Awake(wr, b)[g] = "mid" <=> wr[g] = "mid"
    BY AwakeKeeps
  <2> QED
    BY <2>1, <2>2
<1> SUFFICES ASSUME NEW j \in Id
             PROVE  Side(p, j)' /\ Side(q, j)' /\ Flows(p, j)' /\ Flows(q, j)'
  BY <1>0, TwoPeers DEF Streaming
<1>4. Flows(p, j) /\ Flows(q, j) /\ Side(q, j)
  BY <1>0 DEF Streaming
<1>5. Steady(q, j)
  BY <1>0, <1>1, <1>2, <1>3 DEF Steady, HandlesOf
<1>6. Side(p, j)' /\ Side(q, j)'
  BY <1>2, <1>4, <1>5, SteadySide DEF Side
<1>7. RecvKept(q, j) /\ SendKept(q, j)
  BY <1>0, <1>2, <1>5, SteadyKept DEF AlikeFrame
<1>8. Flows(p, j)'
  <2>1. RecvKept(p, j)
    BY <1>2 DEF RecvKept, Opened
  <2> QED
    BY <1>0, <1>2, <1>4, <1>7, <2>1, OfNothing, Inattentive
<1>9. Flows(q, j)'
  <2>1. Opened(p, j)' /\ ~Wired(p, j)'
    BY <1>2 DEF Opened, Wired
  <2>2. \A g \in HandlesOf(p, j) : channel'[g] = <<>> /\ task'[g] = task[g]
    BY <1>1 DEF HandlesOf
  <2>3. /\ ~Body(None, j) /\ ~Data(None, j) /\ ~Ends(None, j)
    BY DEF Body, Data, Ends
  <2>4. Sent(q, j)' /\ HalfClosed(q, j)' /\ Reached(q, j)'
    BY <1>0, <2>1 DEF Sent, HalfClosed, Reached
  <2>5. LedIn(q, j)'
    <3> SUFFICES ASSUME conn'[q] = "active", ~Opened(q, j)' PROVE LedIn(q, j)'
      BY DEF LedIn
    <3>1. conn[q] = "active" /\ ~Opened(q, j) /\ LedIn(q, j)
      BY <1>4, <1>7 DEF RecvKept, Flows
    <3>2. Led(wire[q], j) /\ \A g \in HandlesOf(p, j) : Led(channel'[g], j)
      BY <2>2, <3>1, OfNothing DEF LedIn
    <3> QED
      BY <1>0, <1>2, <2>3, <3>2 DEF LedIn
  <2>6. Exhausted(p, j) => Exhausted(p, j)'
    BY <2>2, OfNothing DEF Exhausted, Finished
  <2>7. LastOfAll(q, j)'
    BY <1>0, <1>2, <1>4, <2>3, <2>6 DEF LastOfAll, Flows
  <2>8. NoneBehind(q, j)'
    BY <1>0, <1>2, <1>4, <1>7, <2>3, <2>6 DEF NoneBehind, Flows, RecvKept
  <2>9. Balance(q, j)'
    BY <1>0, <1>2 DEF Balance
  <2> QED
    BY <2>4, <2>5, <2>7, <2>8, <2>9 DEF Flows
<1> QED
  BY <1>6, <1>8, <1>9

(* and one that is torn down lets go of its streams.                        *)
LEMMA DropAllStreamsStreaming ==
  ASSUME Typing, Filed, Streaming, NEW p \in Peer, DropAllStreams(p)
  PROVE  Streaming'
<1> DEFINE q == Other(p)
<1>0. q \in Peer /\ q # p /\ Other(q) = p
  BY TwoPeers
<1>1. /\ conn[p] = "failed" /\ conn' = [conn EXCEPT ![p] = "cleanup"]
      /\ UNCHANGED <<owed_close, task, object, channel, written, taken,
                     pending_write_frame, wire>>
      /\ streams' = [streams EXCEPT ![p] = [i \in Id |-> None]]
      /\ inactive' = [inactive EXCEPT ![p] = [i \in Id |-> None]]
      /\ \A o \in Obj : o \notin Drained(p) => shared'[o] = shared[o]
  BY DEF DropAllStreams
<1>2. /\ conn'[p] = "cleanup" /\ conn'[q] = conn[q] /\ ~Up(p) /\ ~Up(p)' /\ (Up(q)' <=> Up(q))
  BY <1>0, <1>1 DEF Typing, FramesTyped, Up
<1>3. \A h \in Handle : /\ rd'[h] = "eof" <=> rd[h] = "eof"
                        /\ wr'[h] = "mid" <=> wr[h] = "mid"
  <2>1. PICK a, b : rd' = Awake(rd, a) /\ wr' = Awake(wr, b)
    BY Zenon DEF DropAllStreams
  <2>2. /\ \A g \in Handle : Awake(rd, a)[g] = "eof" <=> rd[g] = "eof"
        /\ \A g \in Handle : Awake(wr, b)[g] = "mid" <=> wr[g] = "mid"
    BY AwakeKeeps
  <2> QED
    BY <2>1, <2>2
<1> SUFFICES ASSUME NEW j \in Id
             PROVE  Side(p, j)' /\ Side(q, j)' /\ Flows(p, j)' /\ Flows(q, j)'
  BY <1>0, TwoPeers DEF Streaming
<1>4. Flows(p, j) /\ Flows(q, j) /\ Side(q, j)
  BY <1>0 DEF Streaming
<1>5. Steady(q, j)
  <2>1. streams'[q][j] = streams[q][j] /\ inactive'[q][j] = inactive[q][j]
    BY <1>0, <1>1 DEF Typing, RegistryTyped
  <2>2. \A o \in {streams[q][j], inactive[q][j]} : o # None => o \in Obj /\ o \notin Drained(p)
    BY <1>0, TypingTyped DEF Typed, Filed, Owners, Drained
  <2> QED
    BY <1>1, <1>2, <1>3, <2>1, <2>2 DEF Steady, HandlesOf
<1>6. Side(p, j)' /\ Side(q, j)'
  BY <1>2, <1>4, <1>5, SteadySide DEF Side
<1>7. RecvKept(q, j) /\ SendKept(q, j)
  BY <1>0, <1>1, <1>5, SteadyKept DEF AlikeFrame
<1>8. RecvKept(p, j)
  BY <1>2 DEF RecvKept, Opened
<1>9. SendKept(p, j)
  BY <1>1, <1>2 DEF SendKept, Opened, Wired, AlikeFrame, Alike, Finished
<1>10. Alike(wire[p], wire'[p], j) /\ Alike(wire[q], wire'[q], j)
  BY <1>1 DEF Alike
<1> QED
  BY <1>0, <1>4, <1>6, <1>7, <1>8, <1>9, <1>10, FlowsKept

-----------------------------------------------------------------------------
(* The driver of p takes a frame of stream i from its wire. *)
Receipt(p, i) ==
  /\ Up(p) /\ wire[p] # <<>> /\ wire' = [wire EXCEPT ![p] = Tail(@)]
  /\ Head(wire[p]).id = i
  /\ conn' = conn \/ conn' = [conn EXCEPT ![p] = "terminating"]
  /\ UNCHANGED <<owed_close, task, object, channel, written, taken, pending_write_frame>>
  /\ \A r \in Peer, j \in Id :
       r # p \/ j # i => streams'[r][j] = streams[r][j] /\ inactive'[r][j] = inactive[r][j]
  /\ \A o \in Obj : o.peer # p \/ o.id # i => shared'[o] = shared[o]
  /\ \A h \in Handle : rd'[h] = "eof" <=> rd[h] = "eof"
  /\ \A h \in Handle : wr'[h] = "mid" <=> wr[h] = "mid"

LEMMA ReceiptConn ==
  ASSUME Typing, NEW p \in Peer, NEW i \in Id, Receipt(p, i)
  PROVE  /\ \A r \in Peer : /\ Up(r)' <=> Up(r)
                            /\ conn'[r] = "active" => conn[r] = "active"
                            /\ r # p => conn'[r] = conn[r] /\ wire'[r] = wire[r]
         /\ wire'[p] = Tail(wire[p]) /\ wire[p] \in Seq(AnyFrame)
BY DEF Receipt, Typing, FramesTyped, AnyFrame, Up

LEMMA ReceiptElsewhere ==
  ASSUME Typing, Filed, NEW p \in Peer, NEW i \in Id, Receipt(p, i)
  PROVE  /\ Elsewhere(p, i)
         /\ RecvKept(Other(p), i) /\ SendKept(Other(p), i)
<1>0. Other(p) \in Peer /\ Other(p) # p
  BY TwoPeers
<1>1. \A r \in Peer, j \in Id : r # p \/ j # i => Steady(r, j)
  <2> SUFFICES ASSUME NEW r \in Peer, NEW j \in Id, r # p \/ j # i PROVE Steady(r, j)
    OBVIOUS
  <2>1. \A o \in {streams[r][j], inactive[r][j]} : o # None => shared'[o] = shared[o]
    BY EntryOf DEF Receipt
  <2>2. /\ UNCHANGED <<owed_close, task, object, channel, written, taken>>
        /\ streams'[r][j] = streams[r][j] /\ inactive'[r][j] = inactive[r][j]
        /\ \A h \in HandlesOf(r, j) : wr'[h] = "mid" <=> wr[h] = "mid"
        /\ \A h \in HandlesOf(r, j) : rd'[h] = "eof" <=> rd[h] = "eof"
    BY DEF Receipt, HandlesOf
  <2> QED
    BY <2>1, <2>2, ReceiptConn DEF Steady
<1>2. \A r \in Peer, j \in Id : j # i => Alike(wire[r], wire'[r], j)
  <2> SUFFICES ASSUME NEW r \in Peer, NEW j \in Id, j # i PROVE Alike(wire[r], wire'[r], j)
    OBVIOUS
  <2>1. Foreign(Head(wire[p]), j)
    BY DEF Receipt, Foreign, Data, Ends
  <2>2. Alike(wire[p], wire'[p], j)
    <3>1. wire[p] # <<>> /\ wire'[p] = Tail(wire[p]) /\ wire[p] \in Seq(AnyFrame)
      BY ReceiptConn DEF Receipt
    <3> QED
      BY <2>1, <3>1, AlikeSteps
  <2>3. r # p => Alike(wire[r], wire'[r], j)
    BY ReceiptConn DEF Alike
  <2> QED
    BY <2>2, <2>3
<1>3. \A r \in Peer, j \in Id : AlikeFrame(pending_write_frame[r], pending_write_frame'[r], j)
  BY DEF AlikeFrame, Receipt
<1> QED
  BY <1>0, <1>1, <1>2, <1>3, SteadyKept DEF Elsewhere, Receipt

(* Of what p sends nothing changes; if it had not opened the stream before, *)
(* its peer has.                                                            *)
LEMMA ReceiptStreaming ==
  ASSUME Typing, Filed, Streaming, NEW p \in Peer, NEW i \in Id, Receipt(p, i),
         streams[p][i] # None => streams'[p][i] # None,
         Wired(p, i)' => Wired(p, i) \/ Opened(Other(p), i),
         Side(p, i)', Flows(p, i)'
  PROVE  Streaming'
<1> DEFINE q == Other(p)
<1>0. q \in Peer /\ q # p /\ Other(q) = p
  BY TwoPeers
<1>1. SendKept(p, i)
  <2>1. UNCHANGED <<owed_close, task, channel, written, pending_write_frame>>
    BY DEF Receipt
  <2>2. Opened(p, i) => Opened(p, i)'
    BY <2>1, ReceiptConn DEF Opened, Gone
  <2> QED
    BY <2>1, <2>2, ReceiptConn DEF SendKept, AlikeFrame, Alike, Finished
<1>2. Flows(q, i)'
  <2>1. Alike(wire[q], wire'[q], i)
    BY <1>0, ReceiptConn DEF Alike
  <2> QED
    BY <1>0, <1>1, <2>1, ReceiptElsewhere, FlowsKept DEF Streaming
<1> QED
  BY <1>2, ReceiptElsewhere, ElsewhereKept

(* What the wire held, and what it holds behind the frame that was taken.   *)
Behind(f, s, d, i) ==
  /\ Count(s, i) = One(f, i) + Count(d, i) /\ Count(d, i) \in Nat
  /\ HasEnd(s, i) <=> Ends(f, i) \/ HasEnd(d, i)
  /\ HasSyn(s, i) <=> Opens(f, i) \/ HasSyn(d, i)
  /\ HasBody(s, i) <=> Body(f, i) \/ HasBody(d, i)
  /\ Ordered(s, i) => Ordered(d, i) /\ (Ends(f, i) => Count(d, i) = 0)
  /\ Led(s, i) => (Body(f, i) => Opens(f, i)) /\ (~Opens(f, i) => Led(d, i))

LEMMA ReceiptBehind ==
  ASSUME Typing, NEW p \in Peer, NEW i \in Id, Receipt(p, i)
  PROVE  Behind(Head(wire[p]), wire[p], wire'[p], i)
<1>1. wire[p] # <<>> /\ wire'[p] = Tail(wire[p]) /\ wire[p] \in Seq(AnyFrame)
  BY ReceiptConn DEF Receipt
<1> QED
  BY <1>1, OfTail DEF Behind

LEMMA OnWindowUpdateStreaming ==
  ASSUME NoSiblings, Typing, Filed, Streaming, NEW p \in Peer, OnWindowUpdate(p)
  PROVE  Streaming'
<1>0. PICK i \in Id : /\ Head(wire[p]).id = i /\ Head(wire[p]).kind = "window"
                      /\ Head(wire[p]).len \in Nat
  <2>1. Head(wire[p]) \in StreamFrame /\ Head(wire[p]).kind = "window"
    BY Zenon, ReceivedFrame DEF OnWindowUpdate, Receives, Typing
  <2> QED
    BY <2>1 DEF StreamFrame
<1> DEFINE e == streams[p][i]
           q == Other(p)
<1>1. /\ conn[p] = "active" /\ wire[p] # <<>> /\ wire' = [wire EXCEPT ![p] = Tail(@)]
      /\ UNCHANGED <<streams, inactive, owed_close, task, object, channel, written, taken,
                     rd, conn, pending_write_frame>>
  BY Zenon DEF OnWindowUpdate, Receives
<1>2. /\ e = None => shared' = shared
      /\ e # None => /\ e \in Obj /\ e.peer = p /\ e.id = i
                     /\ \A o \in Obj \ {e} : shared'[o] = shared[o]
                     /\ shared'[e].state = shared[e].state
                     /\ shared'[e].buffer = shared[e].buffer
                     /\ shared'[e].syn_pending = shared[e].syn_pending
                     /\ shared[e].fc.send_window > 0 => shared'[e].fc.send_window > 0
      /\ \A h \in Handle : wr'[h] = "mid" <=> wr[h] = "mid"
  <2>1. CASE e = None
    BY Zenon, <1>0, <2>1 DEF OnWindowUpdate
  <2>2. CASE e # None
    <3> DEFINE s == shared[e]
               fc == Flow!IncreaseSend(s.fc, Head(wire[p]).len)
    <3>1. e \in Obj /\ e.peer = p /\ e.id = i /\ s \in Shared
      BY <2>2, EntryOf
    <3>2. shared' = [shared EXCEPT ![e] = [[s EXCEPT !.fc = fc] EXCEPT !.writer = None]]
      BY Zenon, <1>0, <2>2 DEF OnWindowUpdate
    <3>3. s.fc.send_window > 0 => fc.send_window > 0
      <4>1. s.fc \in Flow!Controller
        BY <3>1 DEF Shared
      <4> QED
        BY <1>0, <4>1 DEF Flow!IncreaseSend, Flow!Controller
    <3>4. \A h \in Handle : wr'[h] = "mid" <=> wr[h] = "mid"
      <4>1. wr' = Awake(wr, {s.writer})
        BY Zenon, <1>0, <2>2 DEF OnWindowUpdate
      <4> QED
        BY <4>1, AwakeKeeps
    <3>5. shared \in [Obj -> Shared]
      BY TypingTyped DEF Typed
    <3> HIDE DEF fc
    <3> QED
      BY <2>2, <3>1, <3>2, <3>3, <3>4, <3>5 DEF Shared
  <2> QED
    BY <2>1, <2>2
<1>3. Receipt(p, i)
  BY <1>0, <1>1, <1>2 DEF Receipt, Up
<1>4. Flows(p, i) /\ Side(p, i) /\ Up(p) /\ Up(p)' /\ q \in Peer
  BY <1>1, TwoPeers DEF Streaming, Up
<1>5. /\ Opened(p, i)' <=> Opened(p, i)
      /\ SeenEnd(p, i)' <=> SeenEnd(p, i)
      /\ SeenFin(p, i)' <=> SeenFin(p, i)
      /\ Wired(p, i)' <=> Wired(p, i)
      /\ Buffered(p, i)' = Buffered(p, i)
  BY <1>1, <1>2 DEF Opened, Gone, SeenEnd, SeenFin, Wired, Buffered, Up
<1>6. Side(p, i)'
  <2> SUFFICES ASSUME NEW h \in HandlesOf(p, i) PROVE Attends(h)'
    <3>1. inactive[p][i] # None => e = None
      BY <1>4 DEF Filed, RegistryConsistent
    <3>2. Quiet(p, i)' /\ Unopened(p, i)'
      BY <1>1, <1>2, <1>4, <3>1 DEF Side, Quiet, Unopened
    <3> QED
      BY <3>2 DEF Side, HandlesOf
  <2>1. /\ h.peer = p /\ h.id = i /\ h \in Handle
        /\ Idle(h) /\ BeforeSyn(h) /\ OwingSyn(h) /\ Closing(h) /\ AtEof(h)
    BY <1>4 DEF Side, Attends, HandlesOf
  <2>2. Idle(h)'
    BY <1>1, <1>2, <2>1 DEF Idle
  <2>3. BeforeSyn(h)'
    <3>1. inactive[p][i] # None => e = None
      BY <1>4 DEF Filed, RegistryConsistent
    <3> QED
      BY <1>1, <1>2, <2>1, <3>1 DEF BeforeSyn
  <2>4. OwingSyn(h)' /\ Closing(h)' /\ AtEof(h)'
    BY <1>1, <1>2, <2>1 DEF OwingSyn, Closing, AtEof, Full
  <2> QED
    BY <2>2, <2>3, <2>4 DEF Attends
<1>7. Flows(p, i)'
  <2>1. RecvKept(p, i)
    BY <1>1, <1>4, <1>5 DEF RecvKept
  <2>2. Alike(wire[p], wire'[p], i)
    <3>1. Foreign(Head(wire[p]), i)
      BY <1>0 DEF Foreign, Data, Ends
    <3> QED
      BY <1>1, <1>3, <3>1, ReceiptConn, AlikeSteps
  <2> QED
    BY <1>3, <1>4, <2>1, <2>2, ReceiptElsewhere, FlowsKept
<1> QED
  BY <1>1, <1>3, <1>5, <1>6, <1>7, ReceiptStreaming

LEMMA OnResetStreaming ==
  ASSUME NoSiblings, Typing, Filed, Streaming, NEW p \in Peer, OnReset(p)
  PROVE  Streaming'
<1>0. PICK i \in Id : Head(wire[p]).id = i /\ Head(wire[p]).kind = "rst"
  <2>1. Head(wire[p]) \in StreamFrame /\ Head(wire[p]).kind = "rst"
    BY Zenon, ReceivedFrame DEF OnReset, Receives, Typing
  <2> QED
    BY <2>1 DEF StreamFrame
<1> DEFINE e == streams[p][i]
           q == Other(p)
           f == Head(wire[p])
<1>1. /\ conn[p] = "active" /\ wire[p] # <<>> /\ wire' = [wire EXCEPT ![p] = Tail(@)]
      /\ UNCHANGED <<streams, inactive, owed_close, task, object, channel, written, taken,
                     conn, pending_write_frame>>
  BY Zenon DEF OnReset, Receives
<1>2. /\ e = None => shared' = shared
      /\ e # None => /\ e \in Obj /\ e.peer = p /\ e.id = i
                     /\ \A o \in Obj \ {e} : shared'[o] = shared[o]
                     /\ shared'[e].state = "Closed"
                     /\ shared'[e].buffer = shared[e].buffer
                     /\ shared'[e].syn_pending = shared[e].syn_pending
                     /\ shared'[e].fc = shared[e].fc
      /\ \A h \in Handle : rd'[h] = "eof" <=> rd[h] = "eof"
      /\ \A h \in Handle : wr'[h] = "mid" <=> wr[h] = "mid"
  <2>1. CASE e = None
    BY Zenon, <1>0, <2>1 DEF OnReset
  <2>2. CASE e # None
    <3> DEFINE s == shared[e]
    <3>1. e \in Obj /\ e.peer = p /\ e.id = i /\ s \in Shared
      BY <2>2, EntryOf
    <3>2. shared' = [shared EXCEPT ![e] = [[[s EXCEPT !.state = "Closed"]
                                               EXCEPT !.reader = None] EXCEPT !.writer = None]]
      BY Zenon, <1>0, <2>2 DEF OnReset
    <3>3. \A h \in Handle : /\ rd'[h] = "eof" <=> rd[h] = "eof"
                            /\ wr'[h] = "mid" <=> wr[h] = "mid"
      <4>1. rd' = Awake(rd, {s.reader}) /\ wr' = Awake(wr, {s.writer})
        BY Zenon, <1>0, <2>2 DEF OnReset
      <4> QED
        BY <4>1, AwakeKeeps
    <3>4. shared \in [Obj -> Shared]
      BY TypingTyped DEF Typed
    <3> QED
      BY <2>2, <3>1, <3>2, <3>3, <3>4 DEF Shared
  <2> QED
    BY <2>1, <2>2
<1>3. Receipt(p, i)
  BY <1>0, <1>1, <1>2 DEF Receipt, Up
<1>4. Flows(p, i) /\ Side(p, i) /\ Up(p) /\ Up(p)' /\ q \in Peer
  BY <1>1, TwoPeers DEF Streaming, Up
<1>5. /\ Opened(p, i)' <=> Opened(p, i)
      /\ Wired(p, i)' <=> Wired(p, i)
      /\ SeenFin(p, i)' => SeenFin(p, i)
      /\ Buffered(p, i)' = Buffered(p, i)
  BY <1>1, <1>2 DEF Opened, Gone, SeenFin, Wired, Buffered, Up
<1>6. Side(p, i)'
  <2>0. inactive[p][i] # None => e = None
    BY EntryOf
  <2> SUFFICES ASSUME NEW h \in HandlesOf(p, i) PROVE Attends(h)'
    <3>1. Quiet(p, i)' /\ Unopened(p, i)'
      BY <1>1, <1>2, <1>4, <2>0 DEF Side, Quiet, Unopened
    <3> QED
      BY <3>1 DEF Side, HandlesOf
  <2>1. /\ h.peer = p /\ h.id = i /\ h \in Handle
        /\ Idle(h) /\ BeforeSyn(h) /\ OwingSyn(h) /\ Closing(h) /\ AtEof(h)
    BY <1>4 DEF Side, Attends, HandlesOf
  <2>2. Idle(h)'
    BY <1>1, <1>2, <2>1 DEF Idle
  <2>3. BeforeSyn(h)'
    BY <1>1, <1>2, <2>0, <2>1 DEF BeforeSyn
  <2>4. OwingSyn(h)' /\ Closing(h)'
    BY <1>1, <1>2, <2>1 DEF OwingSyn, Closing, Full
  <2>5. AtEof(h)'
    BY <1>1, <1>2, <2>1 DEF AtEof, CanRead
  <2> QED
    BY <2>2, <2>3, <2>4, <2>5 DEF Attends
<1>7. Flows(p, i)'
  <2>1. /\ Behind(f, wire[p], wire'[p], i) /\ Ends(f, i)
        /\ ~Body(f, i) /\ ~Opens(f, i) /\ One(f, i) = 0
    <3>1. f # None
      BY <1>0, <1>1, ReceivedFrame, NoneIsNoFrame DEF Typing
    <3> QED
      BY <1>0, <1>3, <3>1, ReceiptBehind DEF Body, Data, Opens, One, Ends
  <2>2. /\ \A r \in Peer : Up(r)' <=> Up(r)
        /\ Opened(q, i)' <=> Opened(q, i)
        /\ Wired(q, i)' <=> Wired(q, i)
        /\ Exhausted(q, i)' <=> Exhausted(q, i)
    <3>1. q # p
      BY TwoPeers
    <3>2. \A o \in {streams[q][i]} : o # None => shared'[o].syn_pending = shared[o].syn_pending
      BY <1>2, <1>4, <3>1, EntryOf
    <3> QED
      BY <1>1, <3>2 DEF Up, Opened, Gone, Wired, Exhausted, Finished
  <2> HIDE DEF f
  <2>3. Sent(p, i)' /\ HalfClosed(p, i)' /\ Reached(p, i)'
    BY <1>1, <1>4, <1>5, <2>1, <2>2 DEF Sent, HalfClosed, Reached, Flows, Behind
  <2>4. LedIn(p, i)'
    BY <1>1, <1>4, <1>5, <2>1, <2>2 DEF LedIn, Flows, Behind
  <2>5. LastOfAll(p, i)' /\ NoneBehind(p, i)'
    BY <1>1, <1>4, <2>1, <2>2 DEF LastOfAll, NoneBehind, Flows, Behind
  <2>6. Balance(p, i)'
    <3>1. Count(wire'[p], i) = Count(wire[p], i)
      BY <2>1 DEF Behind
    <3> QED
      BY <1>1, <1>4, <1>5, <3>1 DEF Balance, Flows
  <2> QED
    BY <2>3, <2>4, <2>5, <2>6 DEF Flows
<1> QED
  BY <1>1, <1>3, <1>5, <1>6, <1>7, ReceiptStreaming

(* The entry that a frame creates is as the inactive Shared was, or new.    *)
LEMMA AdmittedFacts ==
  ASSUME Typing, Filed, NEW p \in Peer, NEW i \in Id, Up(p), Side(p, i)
  PROVE  LET e == streams[p][i]
             n == inactive[p][i]
             o == Addressee(p, i)
             s == Admitted(p, i)
         IN  /\ o \in Obj /\ o.peer = p /\ o.id = i /\ s \in Shared
             /\ e # None => o = e /\ s = shared[e]
             /\ e = None => /\ s.buffer = 0 /\ ~s.syn_pending
                            /\ s.state \in {"Open", "SendClosed"}
                            /\ s.state = "SendClosed" => n # None /\ shared[n].state = "SendClosed"
<1> DEFINE e == streams[p][i]
           n == inactive[p][i]
<1>1. CASE e # None
  BY <1>1, EntryOf DEF Addressee, Admitted
<1>2. CASE e = None /\ n # None
  <2>1. /\ n \in Obj /\ n.peer = p /\ n.id = i /\ shared[n] \in Shared
        /\ shared[n].buffer = 0 /\ ~shared[n].syn_pending
        /\ shared[n].state \in {"Open", "SendClosed"}
    BY <1>2, EntryOf DEF Side, Quiet
  <2>2. Admitted(p, i) = [shared[n] EXCEPT !.activated = TRUE] /\ Addressee(p, i) = n
    BY <1>2 DEF Admitted, Addressee
  <2>3. [shared[n] EXCEPT !.activated = TRUE] \in Shared
    BY <2>1, SharedType
  <2>4. \A r \in Shared : LET t == [r EXCEPT !.activated = TRUE]
                         IN  t.buffer = r.buffer /\ t.syn_pending = r.syn_pending /\ t.state = r.state
    BY DEF Shared
  <2> QED
    BY <1>2, <2>1, <2>2, <2>3, <2>4
<1>3. CASE e = None /\ n = None
  <2>1. Admitted(p, i) = [NewShared EXCEPT !.activated = TRUE] /\ Addressee(p, i) = Implicit(p, i)
    BY <1>3 DEF Admitted, Addressee
  <2>2. [NewShared EXCEPT !.activated = TRUE] \in Shared
    BY NewSharedType, SharedType
  <2> QED
    BY <1>3, <2>1, <2>2, ImplicitIsObject DEF NewShared, Implicit
<1> QED
  BY <1>1, <1>2, <1>3

LEMMA Delivered ==
  ASSUME NEW s \in Shared, NEW f \in StreamFrame
  PROVE  LET t == Deliver(s, f)
         IN  /\ t.syn_pending = s.syn_pending /\ t.fc.send_window = s.fc.send_window
             /\ t.buffer = s.buffer + f.len
             /\ t.state = IF f.kind = "fin" THEN UpdateState(s.state, "RecvClosed") ELSE s.state
<1>1. s.fc \in Flow!Controller
  BY DEF Shared
<1>2. Flow!ConsumeReceive(s.fc, f.len).send_window = s.fc.send_window
  BY <1>1 DEF Flow!ConsumeReceive, Flow!Controller
<1> QED
  BY <1>2 DEF Deliver, Shared

(* A frame that is not admitted belongs to a stream reaped here, unless its *)
(* SYN is refused, which ends the connection.                               *)
LEMMA DroppedStreaming ==
  ASSUME NoSiblings, Typing, Filed, Streaming, NEW p \in Peer, NEW i \in Id,
         NEW f \in StreamFrame, f = Head(wire[p]), Body(f, i), Receipt(p, i),
         UNCHANGED <<streams, inactive, shared>>, conn[p] = "active",
         streams[p][i] = None, conn'[p] = "active" => ~f.syn
  PROVE  Streaming'
<1> DEFINE q == Other(p)
<1>1. /\ Flows(p, i) /\ Side(p, i) /\ q \in Peer /\ q # p
      /\ UNCHANGED <<owed_close, task, object, channel, written, taken, pending_write_frame>>
  BY TwoPeers DEF Streaming, Receipt
<1>2. Behind(f, wire[p], wire'[p], i) /\ RecvKept(q, i) /\ SendKept(q, i)
  BY ReceiptBehind, ReceiptElsewhere
<1>3. Steady(p, i)
  BY <1>1, ReceiptConn DEF Steady, Receipt, HandlesOf
<1>4. Side(p, i)' /\ RecvKept(p, i)
  BY <1>1, <1>3, SteadySide, SteadyReceives
<1>5. Ordered(wire'[p], i)
  BY <1>1, <1>2 DEF Behind, Flows, LastOfAll
<1>6. CASE conn'[p] # "active"
  <2>1. Flows(p, i)'
    BY <1>1, <1>2, <1>4, <1>5, <1>6, Inattentive DEF Behind
  <2> QED
    BY <1>4, <2>1, ReceiptStreaming DEF Wired
<1>7. CASE conn'[p] = "active"
  <2>1. Gone(p, i)
    <3>1. Opened(p, i)
      BY <1>1, <1>2, <1>7 DEF Flows, LedIn, Behind, Opens
    <3>2. Up(p)
      BY DEF Receipt
    <3> QED
      BY <3>1, <3>2 DEF Opened
  <2>2. \A h \in HandlesOf(p, i) : task[h] = "reaped"
    <3>1. PICK g \in HandlesOf(p, i) : task[g] = "reaped"
      BY <2>1 DEF Gone
    <3>2. \A h \in HandlesOf(p, i) : h = g
      BY <3>1 DEF NoSiblings, HandlesOf
    <3> QED
      BY <3>1, <3>2
  <2>3. /\ Opened(p, i)' /\ ~SeenEnd(p, i)' /\ ~SeenFin(p, i)'
        /\ Opened(q, i) => Opened(q, i)'
        /\ Exhausted(q, i)' <=> Exhausted(q, i)
    BY <1>1, <1>2, <2>1 DEF Opened, Gone, SeenEnd, SeenFin, Exhausted, Finished, SendKept
  <2>4. Flows(p, i)'
    <3>1. Sent(p, i)' /\ HalfClosed(p, i)' /\ Reached(p, i)' /\ LedIn(p, i)'
      BY <1>1, <1>2, <2>3 DEF Sent, HalfClosed, Reached, LedIn, Flows, Behind
    <3>2. LastOfAll(p, i)' /\ NoneBehind(p, i)'
      BY <1>1, <1>2, <1>5, <2>3 DEF LastOfAll, NoneBehind, Flows, Behind
    <3>3. Balance(p, i)'
      BY <1>1, <2>2 DEF Balance
    <3> QED
      BY <3>1, <3>2, <3>3 DEF Flows
  <2> QED
    BY <1>4, <2>4, ReceiptStreaming DEF Wired
<1> QED
  BY <1>6, <1>7

(* A frame that is admitted goes into the buffer, unless it overruns it.    *)
LEMMA AdmittedStreaming ==
  ASSUME NoSiblings, Typing, Filed, Streaming, NEW p \in Peer, NEW i \in Id,
         NEW f \in StreamFrame, f = Head(wire[p]), Body(f, i), Sound(f), Receipt(p, i),
         conn[p] = "active",
         NEW o, o = Addressee(p, i), NEW s, s = Admitted(p, i),
         streams'[p][i] = o, inactive'[p][i] = None,
         LET t == shared'[o]
         IN  /\ t.syn_pending = s.syn_pending /\ t.fc.send_window = s.fc.send_window
             /\ IF conn'[p] = "active"
                  THEN /\ t.buffer = s.buffer + f.len
                       /\ t.state = IF f.kind = "fin" THEN UpdateState(s.state, "RecvClosed")
                                    ELSE s.state
                  ELSE t.state = s.state /\ t.buffer = s.buffer
  PROVE  Streaming'
<1> DEFINE q == Other(p)
           e == streams[p][i]
           n == inactive[p][i]
           t == shared'[o]
<1>1. /\ Flows(p, i) /\ Side(p, i) /\ q \in Peer /\ q # p /\ Up(p) /\ Up(p)'
      /\ UNCHANGED <<owed_close, task, object, channel, written, taken, pending_write_frame>>
  BY TwoPeers, ReceiptConn DEF Streaming, Receipt
<1>2. Behind(f, wire[p], wire'[p], i) /\ RecvKept(q, i) /\ SendKept(q, i)
  BY ReceiptBehind, ReceiptElsewhere
<1>3. /\ o \in Obj /\ s \in Shared /\ o # None
      /\ e # None => o = e /\ s = shared[e]
      /\ e = None => /\ s.buffer = 0 /\ ~s.syn_pending
                     /\ s.state \in {"Open", "SendClosed"}
                     /\ s.state = "SendClosed" => n # None /\ shared[n].state = "SendClosed"
  BY <1>1, AdmittedFacts, MuxAssumption
<1>4. /\ s.buffer \in Nat /\ f.len \in Nat
      /\ s.state \in {"Open", "SendClosed", "RecvClosed", "Closed"}
      /\ f.kind = "fin" <=> Ends(f, i)
      /\ One(f, i) = f.len
  <2>1. s.buffer \in Nat /\ s.state \in {"Open", "SendClosed", "RecvClosed", "Closed"}
    BY <1>3 DEF Shared
  <2>2. f.len \in Nat
    BY DEF StreamFrame
  <2> QED
    BY <2>1, <2>2 DEF Body, Ends, One, Data, Sound
<1>5. /\ t.state # s.state => t.state \in {"RecvClosed", "Closed"} /\ Ends(f, i) /\ conn'[p] = "active"
      /\ s.state = "Closed" => t.state = "Closed"
      /\ CanRead(t.state) => CanRead(s.state)
  BY <1>4 DEF UpdateState, CanRead
<1>6. /\ HasBody(wire[p], i)
      /\ Opened(q, i) /\ Opened(q, i)'
  BY <1>1, <1>2 DEF Behind, Flows, Sent, SendKept
<1>7. Opened(p, i)' /\ (SeenFin(p, i)' => SeenFin(p, i) \/ conn'[p] = "active")
  BY <1>1, <1>3, <1>5 DEF Opened, SeenFin
<1>8. Side(p, i)'
  <2>1. Quiet(p, i)'
    BY DEF Quiet
  <2>2. Unopened(p, i)'
    BY <1>1, <1>3 DEF Side, Unopened
  <2> SUFFICES ASSUME NEW h \in HandlesOf(p, i) PROVE Attends(h)'
    BY <2>1, <2>2 DEF Side, HandlesOf
  <2>3. /\ h.peer = p /\ h.id = i /\ h \in Handle
        /\ Idle(h) /\ BeforeSyn(h) /\ OwingSyn(h) /\ Closing(h) /\ AtEof(h)
    BY <1>1 DEF Side, Attends, HandlesOf
  <2>4. /\ rd'[h] = "eof" <=> rd[h] = "eof"
        /\ wr'[h] = "mid" <=> wr[h] = "mid"
    BY <2>3 DEF Receipt
  <2>5. Idle(h)' /\ BeforeSyn(h)'
    BY <1>1, <2>3, <2>4 DEF Idle, BeforeSyn
  <2>6. OwingSyn(h)'
    BY <1>1, <1>3, <1>5, <2>3, <2>4 DEF OwingSyn, Full
  <2>7. Closing(h)'
    BY <1>1, <1>3, <1>5, <2>3 DEF Closing, BeforeSyn
  <2>8. AtEof(h)'
    <3> SUFFICES ASSUME conn'[p] = "active", rd'[h] = "eof"
                 PROVE  object'[h] = o /\ ~CanRead(t.state) /\ t.buffer = 0
      BY <1>3, <2>3 DEF AtEof
    <3>1. e # None /\ object[h] = e /\ ~CanRead(shared[e].state) /\ shared[e].buffer = 0
      BY <2>3, <2>4 DEF AtEof
    <3>2. Count(wire[p], i) = 0
      BY <1>1, <3>1 DEF Flows, NoneBehind, SeenEnd
    <3>3. f.len = 0
      BY <1>2, <1>4, <3>2 DEF Behind
    <3> QED
      BY <1>1, <1>3, <1>5, <3>1, <3>3
  <2> QED
    BY <2>5, <2>6, <2>7, <2>8 DEF Attends
<1>9. Flows(p, i)'
  <2>1. Ordered(wire'[p], i)
    BY <1>1, <1>2 DEF Behind, Flows, LastOfAll
  <2>2. Exhausted(q, i)' <=> Exhausted(q, i)
    BY <1>1 DEF Exhausted, Finished
  <2>3. Sent(p, i)' /\ HalfClosed(p, i)' /\ Reached(p, i)' /\ LedIn(p, i)'
    BY <1>6, <1>7 DEF Sent, HalfClosed, Reached, LedIn
  <2>4. LastOfAll(p, i)'
    BY <1>1, <1>2, <2>1, <2>2 DEF LastOfAll, Flows, Behind
  <2>5. NoneBehind(p, i)'
    <3> SUFFICES ASSUME conn'[p] = "active", ~CanRead(t.state)
                 PROVE  /\ Count(wire'[p], i) = 0
                        /\ ~Data(pending_write_frame[q], i) /\ Exhausted(q, i)
      BY <1>1, <2>2 DEF NoneBehind, SeenEnd
    <3>1. CASE Ends(f, i)
      BY <1>1, <1>2, <3>1 DEF Flows, LastOfAll, Behind
    <3>2. CASE ~Ends(f, i)
      <4>1. ~CanRead(s.state) /\ e # None
        BY <1>3, <1>5, <3>2 DEF CanRead
      <4>2. Count(wire[p], i) = 0 /\ ~Data(pending_write_frame[q], i) /\ Exhausted(q, i)
        BY <1>1, <1>3, <4>1 DEF Flows, NoneBehind, SeenEnd
      <4> QED
        BY <1>2, <1>4, <4>2 DEF Behind
    <3> QED
      BY <3>1, <3>2
  <2>6. Balance(p, i)'
    <3> SUFFICES ASSUME NEW h \in HandlesOf(p, i), NEW g \in HandlesOf(q, i),
                        conn'[p] = "active", conn'[q] = "active", task'[h] # "reaped"
                 PROVE  written[g] = (taken[h] + t.buffer) + Count(wire'[p], i)
                                     + One(pending_write_frame[q], i) + Count(channel[g], i)
      BY <1>1, <1>3 DEF Balance, Buffered
    <3>1. written[g] = (taken[h] + Buffered(p, i)) + Count(wire[p], i)
                       + One(pending_write_frame[q], i) + Count(channel[g], i)
      BY <1>1, <1>2 DEF Balance, Flows, SendKept
    <3>2. Buffered(p, i) = s.buffer /\ t.buffer = s.buffer + f.len
      BY <1>3 DEF Buffered
    <3>3. Count(wire[p], i) = f.len + Count(wire'[p], i) /\ Count(wire'[p], i) \in Nat
      BY <1>2, <1>4 DEF Behind
    <3>4. taken[h] \in Nat /\ One(pending_write_frame[q], i) \in Nat /\ Count(channel[g], i) \in Nat
      BY CountType DEF One, Typing, HandlesTyped, FramesTyped, HandlesOf
    <3> DEFINE T == taken[h]
               B == s.buffer
               L == f.len
               W == Count(wire'[p], i)
               O == One(pending_write_frame[q], i)
               C == Count(channel[g], i)
    <3>5. /\ written[g] = (T + B) + (L + W) + O + C
          /\ T \in Nat /\ B \in Nat /\ L \in Nat /\ W \in Nat /\ O \in Nat /\ C \in Nat
      BY <1>4, <3>1, <3>2, <3>3, <3>4
    <3> HIDE DEF T, B, L, W, O, C
    <3>6. written[g] = (T + (B + L)) + W + O + C
      BY <3>5
    <3> QED
      BY <3>2, <3>6 DEF T, B, L, W, O, C
  <2> QED
    BY <2>3, <2>4, <2>5, <2>6 DEF Flows
<1> QED
  BY <1>3, <1>6, <1>8, <1>9, ReceiptStreaming

LEMMA OnDataStreaming ==
  ASSUME NoSiblings, Typing, Filed, Queues, Streaming, NEW p \in Peer, OnData(p)
  PROVE  Streaming'
<1>0. PICK f \in StreamFrame, i \in Id :
        f = Head(wire[p]) /\ f.id = i /\ f.kind \in {"data", "fin"} /\ Sound(f) /\ wire[p] # <<>>
  <2>1. Head(wire[p]) \in StreamFrame /\ Head(wire[p]).kind \in {"data", "fin"} /\ wire[p] # <<>>
    BY Zenon, ReceivedFrame DEF OnData, Receives, Typing
  <2>2. wire[p] \in Seq(Intact)
    BY DEF Queues
  <2>3. Head(wire[p]) \in Intact
    BY <2>1, <2>2
  <2> QED
    BY <2>1, <2>3 DEF StreamFrame, Intact
<1>1. /\ conn[p] = "active" /\ wire' = [wire EXCEPT ![p] = Tail(@)]
      /\ UNCHANGED <<owed_close, task, object, channel, written, taken, pending_write_frame, wr>>
  BY Zenon DEF OnData, Receives
<1>2. Up(p) /\ Side(p, i) /\ Body(f, i)
  BY <1>0, <1>1, NoneIsNoFrame DEF Streaming, Up, Body
<1> DEFINE o == Addressee(p, i)
           s == Admitted(p, i)
           overrun == f.len > s.fc.receive_window
<1>3. o \in Obj /\ o.peer = p /\ o.id = i /\ s \in Shared
  BY <1>2, AdmittedFacts
<1>4. conn' = [conn EXCEPT ![p] = "terminating"] => conn'[p] = "terminating"
  BY DEF Typing, FramesTyped
<1>5. CASE ~Admits(p, f)
  <2>1. /\ UNCHANGED <<streams, inactive, shared, rd>>
        /\ IF f.syn THEN conn' = [conn EXCEPT ![p] = "terminating"] ELSE conn' = conn
    BY Zenon, <1>0, <1>5 DEF OnData, Terminate
  <2>2. Receipt(p, i)
    BY <1>0, <1>1, <1>2, <2>1 DEF Receipt
  <2>3. streams[p][i] = None
    BY <1>0, <1>5 DEF Admits
  <2> QED
    BY <1>0, <1>1, <1>2, <1>4, <2>1, <2>2, <2>3, DroppedStreaming
<1>6. CASE Admits(p, f)
  <2>1. /\ streams' = [streams EXCEPT ![p][i] = o]
        /\ inactive' = IF streams[p][i] # None THEN inactive
                       ELSE [inactive EXCEPT ![p][i] = None]
        /\ shared' = [shared EXCEPT ![o] = IF overrun THEN s ELSE Deliver(s, f)]
        /\ rd' = IF overrun THEN rd ELSE Awake(rd, {s.reader})
        /\ IF overrun THEN conn' = [conn EXCEPT ![p] = "terminating"] ELSE conn' = conn
    BY Zenon, <1>0, <1>6 DEF OnData, Terminate
  <2> HIDE DEF s, o
  <2>2. /\ streams'[p][i] = o /\ inactive'[p][i] = None
        /\ \A r \in Peer, j \in Id :
             r # p \/ j # i => streams'[r][j] = streams[r][j] /\ inactive'[r][j] = inactive[r][j]
    <3>1. streams[p][i] # None => inactive[p][i] = None
      BY EntryOf
    <3> QED
      BY <2>1, <3>1 DEF Typing, RegistryTyped
  <2>3. /\ shared'[o] = IF overrun THEN s ELSE Deliver(s, f)
        /\ \A x \in Obj \ {o} : shared'[x] = shared[x]
    BY <1>3, <2>1, TypingTyped DEF Typed
  <2>4. \A h \in Handle : rd'[h] = "eof" <=> rd[h] = "eof"
    <3>1. \A h \in Handle : Awake(rd, {s.reader})[h] = "eof" <=> rd[h] = "eof"
      BY AwakeKeeps
    <3> HIDE DEF overrun
    <3> QED
      BY <2>1, <3>1
  <2>5. Receipt(p, i)
    <3> HIDE DEF overrun
    <3> QED
      BY <1>0, <1>1, <1>2, <1>3, <2>1, <2>2, <2>3, <2>4 DEF Receipt
  <2>6. conn'[p] = "active" <=> ~overrun
    <3> HIDE DEF overrun
    <3> QED
      BY <1>1, <1>4, <2>1
  <2>7. LET t == shared'[o]
        IN  /\ t.syn_pending = s.syn_pending /\ t.fc.send_window = s.fc.send_window
            /\ IF conn'[p] = "active"
                 THEN /\ t.buffer = s.buffer + f.len
                      /\ t.state = IF f.kind = "fin" THEN UpdateState(s.state, "RecvClosed")
                                   ELSE s.state
                 ELSE t.state = s.state /\ t.buffer = s.buffer
    <3> HIDE DEF overrun
    <3> QED
      BY <1>3, <2>3, <2>6, Delivered
  <2> QED
    BY <1>0, <1>1, <1>2, <2>2, <2>5, <2>7, AdmittedStreaming DEF o, s
<1> QED
  BY <1>5, <1>6

-----------------------------------------------------------------------------
(* Every queue holds frames of the form the code gives them. *)
LEMMA SoundFrames ==
  ASSUME NEW h \in Handle
  PROVE  /\ Fin(h.id) \in Own(h) /\ Rst(h.id) \in Own(h)
         /\ \A syn \in BOOLEAN : Frame("data", h.id, syn, 1) \in Own(h)
         /\ \A k \in Nat : Frame("window", h.id, FALSE, k) \in Own(h)
BY HandlesAreObjects, FrameTypes DEF Own, Sound, Fin, Rst, Frame

LEMMA GoAwayIntact == GoAway \in Intact
BY DEF Intact, AnyFrame, Sound, GoAway, Frame

LEMMA InitQueues == Init => Queues
<1>1. \A S : <<>> \in Seq(S)
  OBVIOUS
<1> QED
  BY <1>1 DEF Init, Queues

(* The calls of a handle put a frame of its stream into its channel. *)
LEMMA HandleQueues ==
  ASSUME Queues, Typing, NEW h \in Handle, NEW f \in Own(h),
         channel' = channel \/ channel' = [channel EXCEPT ![h] = Append(@, f)],
         UNCHANGED <<pending_write_frame, wire, owed_close>>
  PROVE  Queues'
<1>1. channel'[h] \in {channel[h], Append(channel[h], f)} /\ channel[h] \in Seq(Own(h))
  BY DEF Queues, Typing, FramesTyped
<1>2. channel'[h] \in Seq(Own(h))
  BY <1>1
<1>3. \A g \in Handle \ {h} : channel'[g] = channel[g]
  BY DEF Typing, FramesTyped
<1> QED
  BY <1>2, <1>3 DEF Queues

LEMMA CallsQueues ==
  ASSUME Typing, Queues, NEW h \in Handle,
         \/ NewStream(h) \/ PollActivate(h) \/ PollWrite(h) \/ PollRead(h) \/ PollFlush(h)
         \/ CloseInactive(h) \/ SendClose(h) \/ FinishClose(h) \/ DropShared(h) \/ DropSender(h)
  PROVE  Queues'
<1>1. CASE \/ NewStream(h) \/ PollActivate(h) \/ PollFlush(h) \/ CloseInactive(h)
           \/ FinishClose(h) \/ DropShared(h) \/ DropSender(h)
  <2>1. UNCHANGED <<channel, pending_write_frame, wire, owed_close>>
    BY Zenon, <1>1 DEF NewStream, PollActivate, PollFlush, CloseInactive, FinishClose, DropShared, DropSender,
                registry, driver
  <2> QED
    BY <2>1, HandleQueues, SoundFrames
<1>2. CASE PollWrite(h)
  <2> DEFINE s == shared[object[h]]
  <2>1. UNCHANGED <<pending_write_frame, wire, owed_close>>
    BY <1>2 DEF PollWrite, registry, driver
  <2>2. s.syn_pending \in BOOLEAN
    <3>1. object[h] \in Obj /\ shared \in [Obj -> Shared]
      BY <1>2, MuxAssumption DEF PollWrite, Typing, HandlesTyped, LiveHasShared
    <3> QED
      BY <3>1 DEF Shared
  <2>3. \/ channel' = channel
        \/ channel' = [channel EXCEPT ![h] = Append(@, Frame("data", h.id, s.syn_pending, 1))]
    BY Zenon, <1>2 DEF PollWrite, FailWrite, AwaitRoom, AwaitCredit, SendData
  <2> HIDE DEF s
  <2> QED
    BY <2>1, <2>2, <2>3, HandleQueues, SoundFrames
<1>3. CASE PollRead(h)
  <2> DEFINE s == shared[object[h]]
             k == Flow!NextWindowUpdate(s.fc, s.buffer, 0, FALSE).credit
  <2>1. UNCHANGED <<pending_write_frame, wire, owed_close>>
    BY <1>3 DEF PollRead, registry, driver
  <2>2. k \in Nat
    <3>1. object[h] \in Obj /\ shared \in [Obj -> Shared]
      BY <1>3, MuxAssumption DEF PollRead, Typing, HandlesTyped, LiveHasShared
    <3>2. s.fc \in Flow!Controller /\ s.buffer \in Nat
      BY <3>1 DEF Shared
    <3> QED
      BY <3>2, WindowUpdateType
  <2>3. \/ channel' = channel
        \/ channel' = [channel EXCEPT ![h] = Append(@, Frame("window", h.id, FALSE, k))]
    BY Zenon, <1>3 DEF PollRead
  <2> HIDE DEF k
  <2> QED
    BY <2>1, <2>2, <2>3, HandleQueues, SoundFrames
<1>4. CASE SendClose(h)
  BY <1>4, HandleQueues, SoundFrames DEF SendClose, registry, driver
<1> QED
  BY <1>1, <1>2, <1>3, <1>4

LEMMA DriverQueues ==
  ASSUME Typing, Queues, NEW p \in Peer, Driver(p)
  PROVE  Queues'
<1>t. /\ wire \in [Peer -> Seq(AnyFrame)] /\ conn \in [Peer -> ConnStates]
      /\ pending_write_frame \in [Peer -> StreamFrame \cup {None}]
      /\ owed_close \in [Peer -> [Id -> StreamFrame \cup {None}]]
      /\ wire[p] \in Seq(Intact) /\ wire[Other(p)] \in Seq(Intact) /\ Other(p) \in Peer
  BY TwoPeers DEF Queues, Typing, FramesTyped, RegistryTyped, AnyFrame
<1>1. CASE SendGoAway(p)
  <2>1. /\ UNCHANGED <<channel, owed_close, pending_write_frame>>
        /\ wire' = [wire EXCEPT ![Other(p)] = Append(@, GoAway)]
    BY <1>1 DEF SendGoAway, Send, registry, handles
  <2>2. Append(wire[Other(p)], GoAway) \in Seq(Intact)
    BY <1>t, GoAwayIntact
  <2> QED
    BY <1>t, <2>1, <2>2 DEF Queues
<1>2. CASE SendPending(p)
  <2> DEFINE f == pending_write_frame[p]
  <2>1. /\ UNCHANGED <<channel, owed_close>> /\ f # None
        /\ pending_write_frame' = [pending_write_frame EXCEPT ![p] = None]
        /\ wire' = [wire EXCEPT ![Other(p)] = Append(@, f)]
    BY <1>2 DEF SendPending, Send, registry, handles
  <2>2. f \in Intact
    BY <1>t, <2>1 DEF Queues, Intact, AnyFrame
  <2>3. Append(wire[Other(p)], f) \in Seq(Intact)
    BY <1>t, <2>2
  <2> HIDE DEF f
  <2> QED
    BY <1>t, <2>1, <2>3 DEF Queues
<1>3. CASE TakeOwed(p)
  <2>1. PICK i \in Id :
          /\ owed_close[p][i] # None
          /\ pending_write_frame' = [pending_write_frame EXCEPT ![p] = owed_close[p][i]]
          /\ owed_close' = [owed_close EXCEPT ![p][i] = None]
    BY <1>3 DEF TakeOwed, Owed
  <2>2. Sound(owed_close[p][i])
    BY <2>1 DEF Queues, Sound, Fin, Rst, Frame
  <2> QED
    BY <1>3, <1>t, <2>1, <2>2 DEF TakeOwed, Queues
<1>4. CASE IgnoreFrame(p) \/ OnData(p) \/ OnReset(p) \/ OnWindowUpdate(p)
  <2>1. /\ UNCHANGED <<channel, owed_close, pending_write_frame>>
        /\ wire[p] # <<>> /\ wire' = [wire EXCEPT ![p] = Tail(@)]
    BY Zenon, <1>4 DEF IgnoreFrame, OnData, OnReset, OnWindowUpdate, Receives
  <2>2. Tail(wire[p]) \in Seq(Intact)
    BY <1>t, <2>1
  <2> QED
    BY <1>t, <2>1, <2>2 DEF Queues
<1>5. CASE OnGoAway(p) \/ SocketClosed(p) \/ Fail(p)
  <2>1. /\ channel' = [h \in Handle |-> IF h.peer = p THEN <<>> ELSE channel[h]]
        /\ pending_write_frame' = [pending_write_frame EXCEPT ![p] = None]
        /\ wire' = [wire EXCEPT ![p] = <<>>] /\ owed_close' = owed_close
    BY <1>5 DEF OnGoAway, SocketClosed, Fail, CloseReceivers, registry
  <2>2. \A S : <<>> \in Seq(S)
    OBVIOUS
  <2> QED
    BY <1>t, <2>1, <2>2 DEF Queues
<1>6. CASE DropAllStreams(p)
  BY <1>6 DEF DropAllStreams, Queues
<1> QED
  BY <1>1, <1>2, <1>3, <1>4, <1>5, <1>6 DEF Driver

LEMMA TakenQueues ==
  ASSUME Typing, Queues, NEW h \in Handle, PollStream(h) \/ ReapStream(h)
  PROVE  Queues'
<1>t. /\ channel \in [Handle -> Seq(StreamFrame)] /\ h.peer \in Peer /\ h.id \in Id
      /\ pending_write_frame \in [Peer -> StreamFrame \cup {None}]
      /\ owed_close \in [Peer -> [Id -> StreamFrame \cup {None}]]
      /\ channel[h] \in Seq(Own(h))
  BY HandlesAreObjects DEF Queues, Typing, FramesTyped, RegistryTyped
<1>1. CASE PollStream(h)
  <2>1. /\ channel[h] # <<>> /\ UNCHANGED <<owed_close, wire>>
        /\ pending_write_frame' = [pending_write_frame EXCEPT ![h.peer] = Head(channel[h])]
        /\ channel' = [channel EXCEPT ![h] = Tail(@)]
    BY <1>1 DEF PollStream, registry
  <2>2. Head(channel[h]) \in Own(h) /\ Tail(channel[h]) \in Seq(Own(h))
    BY <1>t, <2>1
  <2> QED
    BY <1>t, <2>1, <2>2 DEF Queues, Own
<1>2. CASE ReapStream(h)
  <2> DEFINE f == OwedClose(h.id, shared[streams[h.peer][h.id]].state)
  <2>1. UNCHANGED <<channel, wire, pending_write_frame>>
    BY <1>2 DEF ReapStream, driver
  <2>2. \/ owed_close' = owed_close
        \/ owed_close' = [owed_close EXCEPT ![h.peer][h.id] = IF f # None THEN f ELSE @]
    BY Zenon, <1>2 DEF ReapStream, Forget, Release, registry
  <2>3. f \in {None, Fin(h.id), Rst(h.id)}
    BY DEF OwedClose
  <2> HIDE DEF f
  <2>4. \A p \in Peer, j \in Id : \/ owed_close'[p][j] = owed_close[p][j]
                                  \/ h.id = j /\ owed_close'[p][j] = f
    BY <1>t, <2>2
  <2>5. /\ \A g \in Handle : channel'[g] = channel[g]
        /\ \A p \in Peer : /\ pending_write_frame'[p] = pending_write_frame[p]
                          /\ wire'[p] = wire[p]
    BY <2>1
  <2> QED
    BY <2>3, <2>4, <2>5 DEF Queues
<1> QED
  BY <1>1, <1>2

LEMMA NextQueues ==
  ASSUME Typing, Queues, [Next]_vars
  PROVE  Queues'
<1>1. CASE UNCHANGED vars
  BY <1>1 DEF vars, registry, handles, driver, Queues
<1> QED
  BY <1>1, DriverQueues, CallsQueues, TakenQueues DEF Next

-----------------------------------------------------------------------------
LEMMA InitStreaming == Init => Streaming
<1> SUFFICES ASSUME Init, NEW p \in Peer, NEW i \in Id PROVE Side(p, i) /\ Flows(p, i)
  BY DEF Streaming
<1>0. Other(p) \in Peer
  BY TwoPeers
<1>1. \A r \in Peer : /\ streams[r][i] = None /\ inactive[r][i] = None
                      /\ owed_close[r][i] = None /\ pending_write_frame[r] = None
                      /\ wire[r] = <<>> /\ conn[r] = "active"
  BY DEF Init
<1>2. \A h \in Handle : /\ task[h] = "new" /\ object[h] = None /\ channel[h] = <<>>
                        /\ rd[h] = "idle" /\ wr[h] = "idle"
                        /\ written[h] = 0 /\ taken[h] = 0
  BY DEF Init
<1>3. Quiet(p, i) /\ Unopened(p, i)
  BY <1>1 DEF Quiet, Unopened
<1>4. \A h \in HandlesOf(p, i) : Attends(h)
  <2> SUFFICES ASSUME NEW h \in HandlesOf(p, i) PROVE Attends(h)
    OBVIOUS
  <2>1. h \in Handle /\ h.peer \in Peer /\ h.id = i
    BY DEF HandlesOf
  <2>2. Idle(h)
    BY <1>1, <1>2, <2>1, OfNothing DEF Idle, Leaving
  <2>3. BeforeSyn(h) /\ OwingSyn(h) /\ Closing(h) /\ AtEof(h)
    BY <1>1, <1>2, <2>1 DEF BeforeSyn, OwingSyn, Closing, AtEof
  <2> QED
    BY <2>2, <2>3 DEF Attends
<1>5. /\ ~Body(None, i) /\ ~Data(None, i) /\ ~Ends(None, i) /\ One(None, i) = 0
  BY DEF Body, Data, Ends, One
<1>6. Sent(p, i) /\ HalfClosed(p, i) /\ Reached(p, i)
  BY <1>0, <1>1, <1>2, <1>5, OfNothing DEF Sent, HalfClosed, Reached, SeenFin, Wired, HandlesOf
<1>7. LedIn(p, i)
  BY <1>0, <1>1, <1>2, <1>5, OfNothing DEF LedIn, HandlesOf
<1>8. LastOfAll(p, i) /\ NoneBehind(p, i)
  BY <1>0, <1>1, <1>5, OfNothing DEF LastOfAll, NoneBehind, SeenEnd
<1>9. Balance(p, i)
  BY <1>0, <1>1, <1>2, <1>5, OfNothing DEF Balance, Buffered, HandlesOf
<1> QED
  BY <1>3, <1>4, <1>6, <1>7, <1>8, <1>9 DEF Side, Flows

LEMMA NextStreaming ==
  ASSUME NoSiblings, Typing, Filed, Queues, Streaming, [Next]_vars
  PROVE  Streaming'
<1>1. ASSUME NEW p \in Peer, Driver(p) PROVE Streaming'
  <2>1. CASE OnGoAway(p) \/ SocketClosed(p) \/ Fail(p)
    <3>1. Up(p) /\ CloseReceivers(p)
      BY <2>1 DEF OnGoAway, SocketClosed, Fail, Up
    <3> QED
      BY <3>1, CloseReceiversStreaming
  <2> QED
    BY <1>1, <2>1, SendGoAwayStreaming, SendPendingStreaming, TakeOwedStreaming,
       IgnoreFrameStreaming, OnDataStreaming, OnResetStreaming, OnWindowUpdateStreaming,
       DropAllStreamsStreaming DEF Driver
<1>2. ASSUME NEW h \in Handle,
             \/ NewStream(h) \/ PollActivate(h) \/ PollWrite(h) \/ PollRead(h)
             \/ PollFlush(h) \/ CloseInactive(h) \/ SendClose(h) \/ FinishClose(h)
             \/ DropShared(h) \/ DropSender(h) \/ PollStream(h) \/ ReapStream(h)
      PROVE  Streaming'
  BY <1>2, NewStreamStreaming, PollActivateStreaming, PollWriteStreaming, PollReadStreaming,
     PollFlushStreaming, CloseInactiveStreaming, SendCloseStreaming, FinishCloseStreaming, DropStreaming,
     PollStreamStreaming, ReapStreamStreaming
<1>3. CASE UNCHANGED vars
  <2>1. UNCHANGED <<streams, inactive, owed_close, shared, task, object, channel, rd, wr,
                    written, taken, conn, pending_write_frame, wire>>
    BY <1>3 DEF vars, registry, handles, driver
  <2> QED
    BY <2>1, SteadyStreaming DEF Steady, Alike, AlikeFrame, Up
<1> QED
  BY <1>1, <1>2, <1>3 DEF Next

LEMMA StreamingInvariant == NoSiblings => (Spec => [](Typing /\ Filed /\ Queues /\ Streaming))
<1> SUFFICES ASSUME NoSiblings PROVE Spec => [](Typing /\ Filed /\ Queues /\ Streaming)
  OBVIOUS
<1>1. Typing /\ Filed /\ Queues /\ Streaming /\ [Next]_vars => (Filed /\ Queues /\ Streaming)'
  BY NextFiled, NextQueues, NextStreaming
<1>2. Init => Filed /\ Queues /\ Streaming
  BY InitFiled, InitQueues, InitStreaming
<1> QED
  BY <1>1, <1>2, TypingInvariant, PTL DEF Spec

(* While both connections live, a reader that has seen the end of a stream  *)
(* has been handed every byte the writer of its peer was told it had sent,  *)
(* whatever the windows, queues and sockets did on the way, and whichever   *)
(* of a FIN, a reset or an owed close ended the stream.                     *)
THEOREM SpecEofMeansComplete == NoSiblings => (Spec => []EofMeansComplete)
<1> SUFFICES ASSUME NoSiblings PROVE Spec => []EofMeansComplete
  OBVIOUS
<1>1. Typing /\ Streaming => EofMeansComplete
  <2> SUFFICES ASSUME Typing, Streaming, NEW h \in Handle, NEW g \in Handle,
                      h.id = g.id, g.peer = Other(h.peer), rd[h] = "eof",
                      \A p \in Peer : conn[p] = "active"
               PROVE  taken[h] = written[g]
    BY DEF EofMeansComplete
  <2> DEFINE p == h.peer
             i == h.id
             q == Other(p)
  <2>1. /\ p \in Peer /\ i \in Id /\ q \in Peer /\ conn[p] = "active" /\ conn[q] = "active"
        /\ h \in HandlesOf(p, i) /\ g \in HandlesOf(q, i) /\ Up(p)
    BY HandlesAreObjects, TwoPeers DEF HandlesOf, Up
  <2>2. Flows(p, i) /\ Idle(h) /\ AtEof(h)
    BY <2>1, OfSide DEF Streaming
  <2>3. SeenEnd(p, i) /\ Buffered(p, i) = 0 /\ task[h] # "reaped"
    BY <2>1, <2>2 DEF AtEof, SeenEnd, Buffered, Idle
  <2>4. /\ Count(wire[p], i) = 0 /\ One(pending_write_frame[q], i) = 0
        /\ Count(channel[g], i) = 0
    BY <2>1, <2>2, <2>3 DEF Flows, NoneBehind, Exhausted, One
  <2>5. written[g] = (taken[h] + Buffered(p, i)) + Count(wire[p], i)
                     + One(pending_write_frame[q], i) + Count(channel[g], i)
    BY <2>1, <2>2, <2>3 DEF Flows, Balance
  <2>6. taken[h] \in Nat
    BY DEF Typing, HandlesTyped
  <2> QED
    BY <2>3, <2>4, <2>5, <2>6
<1> QED
  BY <1>1, StreamingInvariant, PTL

(* Data or a FIN that opens nothing and finds no stream is left over from   *)
(* one that has been reaped here: on_data may drop it, for what it belongs  *)
(* to is nothing an application still waits for.  With siblings it does not *)
(* hold, since the end of the second one meets whatever is filed by then.   *)
THEOREM SpecLeftoversOnlyAfterReap == NoSiblings => (Spec => []LeftoversOnlyAfterReap)
<1> SUFFICES ASSUME NoSiblings PROVE Spec => []LeftoversOnlyAfterReap
  OBVIOUS
<1>1. Typing /\ Streaming => LeftoversOnlyAfterReap
  <2> SUFFICES ASSUME Typing, Streaming, NEW p \in Peer, wire[p] # <<>>, conn[p] = "active",
                      Head(wire[p]).kind \in {"data", "fin"}, ~Head(wire[p]).syn,
                      streams[p][Head(wire[p]).id] = None
               PROVE  \E h \in HandlesOf(p, Head(wire[p]).id) : task[h] = "reaped"
    BY DEF LeftoversOnlyAfterReap
  <2> DEFINE f == Head(wire[p])
             i == f.id
  <2>1. f \in StreamFrame /\ i \in Id /\ f # None
    BY ReceivedFrame, NoneIsNoFrame DEF Typing, StreamFrame
  <2>2. Body(f, i) /\ ~Opens(f, i)
    BY <2>1 DEF Body, Opens
  <2>3. wire[p] \in Seq(AnyFrame) /\ LedIn(p, i)
    BY <2>1 DEF Typing, FramesTyped, AnyFrame, Streaming, Flows
  <2>4. ~Led(wire[p], i)
    BY <2>2, <2>3, OfTail
  <2>5. Opened(p, i) /\ Up(p)
    BY <2>3, <2>4 DEF LedIn, Up
  <2> QED
    BY <2>5 DEF Opened, Gone
<1> QED
  BY <1>1, StreamingInvariant, PTL

=============================================================================
