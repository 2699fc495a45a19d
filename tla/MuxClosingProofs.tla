-------------------------- MODULE MuxClosingProofs --------------------------
(***************************************************************************)
(* How two connections end, for every number of frames, pings and pieces a *)
(* socket takes: nothing a stream was told is accepted is left behind a    *)
(* Term, no honest ping is a violation, and a close is an error for        *)
(* nobody.                                                                 *)
(*                                                                         *)
(* A frame goes from the channel, or from where it is staged, into the     *)
(* codec and onto the wire.  All that p has started to send is Line(p),    *)
(* which reading does not change; all it has yet to send is Queue(p).      *)
(***************************************************************************)
EXTENDS MuxClosing, SequenceTheorems, TLAPS

(* A frame of the stream, and sequences of frames, or of the frames that    *)
(* pieces end, whose numbers are those after a and up to b, in order.       *)
OfStream(f) == f.tag \in {"Data", "Close"}
Counted(c) == Whole(c) /\ OfStream(c.frame)

Run(s, a, b) ==
  /\ a \in Nat /\ b \in Nat /\ a <= b
  /\ \A k \in 1 .. Len(s) : OfStream(s[k]) => a < s[k].n /\ s[k].n <= b
  /\ \A j, k \in 1 .. Len(s) : OfStream(s[j]) /\ OfStream(s[k]) /\ j < k => s[j].n < s[k].n
  /\ \A n \in a + 1 .. b : \E k \in 1 .. Len(s) : OfStream(s[k]) /\ s[k].n = n

LineRun(s, b) ==
  /\ b \in Nat
  /\ \A k \in 1 .. Len(s) : Counted(s[k]) => 0 < s[k].frame.n /\ s[k].frame.n <= b
  /\ \A j, k \in 1 .. Len(s) :
       Counted(s[j]) /\ Counted(s[k]) /\ j < k => s[j].frame.n < s[k].frame.n
  /\ \A n \in 1 .. b : \E k \in 1 .. Len(s) : Counted(s[k]) /\ s[k].frame.n = n

(* What p has yet to send, in the order in which it will be sent. *)
Some(f) == IF f = None THEN <<>> ELSE <<f>>
Staged(p) == Some(pending_write_frame[p]) \o Some(owed_close[p])
Queue(p) == pending_frames[p] \o (Staged(p) \o chan[p])

(* Term among frames, among pieces, and at the end of either and only there.*)
NoTerm(s) == \A k \in 1 .. Len(s) : s[k] # Term
OneTerm(s) == s # <<>> /\ s[Len(s)] = Term /\ \A k \in 1 .. Len(s) - 1 : s[k] # Term
NoTermIn(s) == \A k \in 1 .. Len(s) : s[k].frame # Term
Said(p) == \E k \in 1 .. Len(Line(p)) : Line(p)[k].frame = Term
Heard(p) == \E k \in 1 .. Len(seen[p]) : seen[p][k].frame = Term
TermLast(p) == \A k \in 1 .. Len(Line(p)) : Line(p)[k].frame = Term => k = Len(Line(p))

(* Types, with the room a send has been promised, and what is there only    *)
(* while the connection is active.                                          *)
SocketTyped ==
  /\ writing \in [Peer -> Seq(Piece)] /\ reading \in [Peer -> Seq(Piece)]
  /\ wire \in [Peer -> Seq(Piece)] /\ \A p \in Peer : Len(wire[p]) <= WireCap[p]
  /\ seen \in [Peer -> Seq(Piece)]

AppTyped ==
  /\ chan \in [Peer -> Seq(Frames)] /\ sending \in [Peer -> Frames \cup {None}]
  /\ accepted \in [Peer -> Nat]
  /\ \A p \in Peer : /\ Len(chan[p]) <= ChannelCap
                     /\ sending[p] # None => Len(chan[p]) < ChannelCap

ControlTyped ==
  /\ config \in Configs /\ conn \in [Peer -> State]
  /\ result \in [Peer -> {None, "ok", "error"}] /\ io \in [Peer -> BOOLEAN]
  /\ shut \in [Peer -> BOOLEAN] /\ gone \in [Peer -> BOOLEAN]
  /\ terminating \in [Peer -> BOOLEAN] /\ wait_for_reply \in [Peer -> BOOLEAN]
  /\ pending_frames \in [Peer -> Seq(Frames)] /\ at_close \in [Peer -> Nat \cup {None}]

DriverTyped ==
  /\ awaited \in [Peer -> Nonce \cup {None}] /\ pings \in [Peer -> Nat]
  /\ pending_terminate \in [Peer -> {ProtocolError, None}]
  /\ pending_pong \in [Peer -> Nonce \cup {None}]
  /\ pending_write_frame \in [Peer -> Frames \cup {None}]
  /\ owed_close \in [Peer -> Frames \cup {None}]

Phases == \A p \in Peer :
  /\ conn[p] = "Active" => pending_frames[p] = <<>>
  /\ conn[p] # "Active" => /\ at_close[p] \in Nat /\ pending_write_frame[p] = None
                          /\ owed_close[p] = None /\ pending_pong[p] = None
                          /\ pending_terminate[p] = None /\ awaited[p] = None

Typing == SocketTyped /\ AppTyped /\ ControlTyped /\ DriverTyped /\ Phases

(* The numbers of the frames, and the place of Term. *)
Sends(p) ==
  /\ sending[p] # None => sending[p] = Frame("Data", accepted[p] + 1)
  /\ owed_close[p] # None =>
       /\ chan[p] = <<>> /\ sending[p] = None /\ accepted[p] > MaxSent[p]
       /\ OfStream(owed_close[p])
  /\ pending_write_frame[p] # None => OfStream(pending_write_frame[p])
  /\ \A k \in 1 .. Len(chan[p]) : OfStream(chan[p][k])

Unsaid(p, c) ==
  conn[p] \in {"Active", "DrainingStreamReceiver"} =>
    /\ NoTermIn(Line(p)) /\ NoTerm(Queue(p)) /\ Run(Queue(p), c, accepted[p])
    /\ conn[p] # "Active" => at_close[p] <= accepted[p]

Saying(p, c) ==
  conn[p] = "FlushingPendingFrames" =>
    \/ /\ pending_frames[p] = <<>> /\ Said(p) /\ at_close[p] <= c
    \/ /\ OneTerm(pending_frames[p]) /\ NoTermIn(Line(p))
       /\ \E d \in Nat : Run(pending_frames[p], c, d) /\ at_close[p] <= d

Closed(p, c) ==
  /\ TermLast(p)
  /\ Said(p) => at_close[p] \in Nat /\ at_close[p] <= c

Ledger(p, c) == LineRun(Line(p), c) /\ Unsaid(p, c) /\ Saying(p, c) /\ Closed(p, c)
Accounted(p) == Sends(p) /\ \E c \in Nat : Ledger(p, c)
Flushing == \A p \in Peer : Accounted(p)

(* Pings. *)
Lone(line, tag, n) ==
  \A k \in 1 .. Len(line) : Whole(line[k]) /\ line[k].frame.tag = tag =>
    /\ line[k].frame.n = n
    /\ \A j \in 1 .. Len(line) : Whole(line[j]) /\ line[j].frame.tag = tag => j = k
On(line, tag) == \E k \in 1 .. Len(line) : Whole(line[k]) /\ line[k].frame.tag = tag

LonePong(s, n) ==
  \A k \in 1 .. Len(s) : s[k].tag = "Pong" =>
    s[k].n = n /\ \A j \in 1 .. Len(s) : s[j].tag = "Pong" => j = k
HasPong(s) == \E k \in 1 .. Len(s) : s[k].tag = "Pong"

Asked(p) == On(UnderWay(p), "Ping")
Owing(p) == pending_pong[Other(p)] # None
Leaving(p) == HasPong(pending_frames[Other(p)])
Answered(p) == On(UnderWay(Other(p)), "Pong")

Tokens(p) ==
  LET q == Other(p)
  IN  /\ Lone(UnderWay(p), "Ping", awaited[p]) /\ Lone(UnderWay(q), "Pong", awaited[p])
      /\ LonePong(pending_frames[q], awaited[p])
      /\ pending_pong[q] \in {None, awaited[p]}
      /\ Asked(p) => ~Owing(p) /\ ~Leaving(p) /\ ~Answered(p)
      /\ Owing(p) => ~Leaving(p) /\ ~Answered(p)
      /\ Leaving(p) => ~Answered(p)
      /\ Asked(p) \/ Owing(p) \/ Leaving(p) \/ Answered(p) => awaited[p] # None

Driven(p) == conn[p] = "Active" /\ ~terminating[p]
Tracked(p) ==
  Driven(p) => /\ Tokens(p)
               /\ Driven(Other(p)) /\ awaited[p] # None => Asked(p) \/ Owing(p) \/ Answered(p)
Pinging == \A p \in Peer : Tracked(p)
Honest == \A p \in Peer : terminating[p] => p \in Violators

(* Pieces: what is under way ends with the last piece of a frame, and holds *)
(* the rest of a frame that has been read in part.                          *)
Paired(p) ==
  LET u == UnderWay(p)
  IN  /\ \A k \in 1 .. Len(u) : ~Whole(u[k]) => k < Len(u)
      /\ reading[Other(p)] # <<>> => u # <<>>
Framing == \A p \in Peer : Paired(p)

(* A close that nothing disturbs. *)
Calm == ~Disturbed /\ \A p, q \in Peer : config[p].close_sync = config[q].close_sync

Silent(p) == Said(p) /\ writing[p] = <<>>
Peaceable(f) == f.tag = "GoAway" => f = Term
Leaves(p) == conn[p] \in {"DrainingStreamReceiver", "FlushingPendingFrames"}

Polite(p) ==
  /\ pending_terminate[p] = None
  /\ \A k \in 1 .. Len(Line(p)) : Peaceable(Line(p)[k].frame)
  /\ \A k \in 1 .. Len(pending_frames[p]) : Peaceable(pending_frames[p][k])

Listening(p) ==
  \/ conn[p] \in {"Active", "WaitingForReply"}
  \/ Leaves(p) /\ wait_for_reply[p]

Finished(p) == conn[p] = "ClosingSocket" \/ io[p]

Orderly(p) ==
  /\ Heard(p) => ~Listening(p)
  /\ Listening(p) /\ conn[p] # "Active" => config[p].close_sync
  /\ Leaves(p) /\ ~wait_for_reply[p] /\ config[p].close_sync => Heard(p)
  /\ Finished(p) /\ config[p].close_sync => Heard(p)
  /\ Finished(p) \/ conn[p] = "WaitingForReply" => Silent(p)
  /\ gone[p] => Heard(p)
  /\ shut[p] => Silent(p) \/ (Heard(p) /\ ~config[p].close_sync)
  /\ io[p] => conn[p] = "Closed"
  /\ result[p] # "error"

Peaceful == Calm => \A p \in Peer : Polite(p) /\ Orderly(p)
-----------------------------------------------------------------------------
LEMMA TwoPeers ==
  ASSUME NEW p \in Peer
  PROVE  /\ Other(p) \in Peer /\ Other(p) # p /\ Other(Other(p)) = p
         /\ \A r \in Peer : r = p \/ r = Other(p)
<1>1. PICK a \in Peer, b \in Peer : a # b /\ Peer = {a, b}
  BY MuxClosingAssumption
<1>2. \A r \in Peer : Other(r) \in Peer /\ Other(r) # r
  BY <1>1 DEF Other
<1> QED
  BY <1>1, <1>2

(* Sequences: taking the head of one to the end of the one before it. *)
LEMMA MoveHead ==
  ASSUME NEW S, NEW s \in Seq(S), NEW t \in Seq(S), t # <<>>
  PROVE  /\ Append(s, Head(t)) \o Tail(t) = s \o t
         /\ Tail(t) \in Seq(S) /\ Head(t) \in S /\ <<Head(t)>> \o Tail(t) = t
<1>1. Tail(t) \in Seq(S) /\ Head(t) \in S /\ <<Head(t)>> \o Tail(t) = t
  BY HeadTailProperties, HeadTailAppend
<1>2. Append(s, Head(t)) = s \o <<Head(t)>>
  BY <1>1, AppendIsConcat
<1>3. (s \o <<Head(t)>>) \o Tail(t) = s \o (<<Head(t)>> \o Tail(t))
  BY <1>1, ConcatAssociative
<1> QED
  BY <1>1, <1>2, <1>3

LEMMA MoveFrame ==
  \A s, t \in Seq(Frames) : t # <<>> => Append(s, Head(t)) \o Tail(t) = s \o t
<1> SUFFICES ASSUME NEW s \in Seq(Frames), NEW t \in Seq(Frames), t # <<>>
             PROVE  Append(s, Head(t)) \o Tail(t) = s \o t
  OBVIOUS
<1> QED
  BY MoveHead

LEMMA TailOfConcat ==
  ASSUME NEW S, NEW s \in Seq(S), NEW t \in Seq(S), s # <<>>
  PROVE  /\ Tail(s \o t) = Tail(s) \o t /\ Head(s \o t) = Head(s) /\ s \o t # <<>>
         /\ Tail(s) \in Seq(S) /\ Head(s) \in S /\ s \o t \in Seq(S)
<1>1. Tail(s) \in Seq(S) /\ Head(s) \in S /\ Len(Tail(s)) = Len(s) - 1
  BY HeadTailProperties
<1>2. /\ s \o t \in Seq(S) /\ Len(s \o t) = Len(s) + Len(t) /\ Len(s) > 0
      /\ \A i \in 1 .. Len(s) + Len(t) :
           (s \o t)[i] = IF i <= Len(s) THEN s[i] ELSE t[i - Len(s)]
  BY ConcatProperties, EmptySeq
<1>3. Tail(s \o t) \in Seq(S) /\ Tail(s) \o t \in Seq(S)
  BY <1>1, <1>2
<1>4. \A i \in 1 .. Len(s) + Len(t) - 1 : Tail(s \o t)[i] = (Tail(s) \o t)[i]
  BY <1>1, <1>2
<1>5. Tail(s \o t) = Tail(s) \o t
  BY <1>1, <1>2, <1>3, <1>4, SeqEqual
<1> QED
  BY <1>1, <1>2, <1>5

LEMMA OfAppend ==
  ASSUME NEW S, NEW s \in Seq(S), NEW x \in S
  PROVE  /\ Len(s) \in Nat /\ Append(s, x) \in Seq(S) /\ Append(s, x) # <<>>
         /\ Len(Append(s, x)) = Len(s) + 1 /\ Append(s, x)[Len(s) + 1] = x
         /\ \A k \in 1 .. Len(s) : Append(s, x)[k] = s[k] /\ s[k] \in S
BY AppendProperties, ElementOfSeq, LenProperties

LEMMA OfTail ==
  ASSUME NEW S, NEW s \in Seq(S), s # <<>>
  PROVE  /\ Len(s) \in Nat /\ Len(s) > 0 /\ Tail(s) \in Seq(S) /\ Len(Tail(s)) = Len(s) - 1
         /\ Head(s) = s[1] /\ Head(s) \in S
         /\ \A k \in 1 .. Len(s) - 1 : Tail(s)[k] = s[k + 1]
         /\ \A k \in 2 .. Len(s) : s[k] = Tail(s)[k - 1]
         /\ \A k \in 1 .. Len(s) : s[k] \in S
<1>1. /\ Len(s) \in Nat /\ Len(s) > 0 /\ Tail(s) \in Seq(S) /\ Len(Tail(s)) = Len(s) - 1
      /\ Head(s) = s[1] /\ Head(s) \in S
      /\ \A k \in 1 .. Len(s) - 1 : Tail(s)[k] = s[k + 1]
  BY HeadTailProperties, LenProperties, EmptySeq
<1>2. \A k \in 2 .. Len(s) : s[k] = Tail(s)[k - 1]
  BY <1>1
<1>3. \A k \in 1 .. Len(s) : s[k] \in S
  BY ElementOfSeq
<1> QED
  BY <1>1, <1>2, <1>3

LEMMA OfConcat ==
  ASSUME NEW S, NEW s \in Seq(S), NEW t \in Seq(S)
  PROVE  /\ Len(s) \in Nat /\ Len(t) \in Nat /\ s \o t \in Seq(S)
         /\ Len(s \o t) = Len(s) + Len(t)
         /\ \A k \in 1 .. Len(s) : (s \o t)[k] = s[k] /\ s[k] \in S
         /\ \A k \in 1 .. Len(t) : (s \o t)[Len(s) + k] = t[k] /\ t[k] \in S
         /\ \A k \in Len(s) + 1 .. Len(s) + Len(t) : (s \o t)[k] = t[k - Len(s)]
<1>1. /\ Len(s) \in Nat /\ Len(t) \in Nat /\ s \o t \in Seq(S)
      /\ Len(s \o t) = Len(s) + Len(t)
      /\ \A k \in 1 .. Len(s) + Len(t) :
           (s \o t)[k] = IF k <= Len(s) THEN s[k] ELSE t[k - Len(s)]
  BY ConcatProperties, LenProperties
<1>2. /\ \A k \in 1 .. Len(s) : s[k] \in S
      /\ \A k \in 1 .. Len(t) : t[k] \in S
  BY ElementOfSeq
<1> QED
  BY <1>1, <1>2

LEMMA FrameFields == \A f \in Frames : f.n \in Nat
<1>1. Nonce \subseteq Nat
  BY MuxClosingAssumption
<1>2. Term.n = 0 /\ ProtocolError.n = 1
  BY DEF Term, ProtocolError, Frame
<1> DEFINE D == [tag : {"Data", "Close"}, n : Nat]
           P == [tag : {"Ping", "Pong"}, n : Nonce]
<1>3. \A f \in D : f.n \in Nat
  OBVIOUS
<1>4. \A f \in P : f.n \in Nonce
  OBVIOUS
<1>5. Frames = D \cup P \cup {Term, ProtocolError}
  BY DEF Frames
<1> HIDE DEF D, P
<1>6. ASSUME NEW f \in Frames PROVE f.n \in Nat
  <2>1. f \in D \/ f \in P \/ f = Term \/ f = ProtocolError
    BY <1>5
  <2>2. f = Term \/ f = ProtocolError => f.n \in Nat
    BY <1>2
  <2>3. f \in D \/ f \in P => f.n \in Nat
    BY <1>1, <1>3, <1>4
  <2> QED
    BY <2>1, <2>2, <2>3
<1> QED
  BY <1>6

LEMMA PieceFields ==
  \A c \in Piece : /\ c.frame \in Frames /\ c.frame.n \in Nat /\ c.k \in 1 .. 2
                   /\ c.k <= Size(c.frame)
BY FrameFields DEF Piece

LEMMA ThreeInARow ==
  ASSUME NEW S, NEW r \in Seq(S), NEW s \in Seq(S), NEW t \in Seq(S)
  PROVE  (r \o s) \o t = r \o (s \o t) /\ s \o t \in Seq(S)
BY ConcatAssociative, ConcatProperties

LEMMA RunEmpty ==
  /\ \A a \in Nat : Run(<<>>, a, a)
  /\ \A a, b : Run(<<>>, a, b) => a = b
<1>1. Len(<<>>) = 0
  OBVIOUS
<1>2. \A a, b : Run(<<>>, a, b) => a = b
  <2> SUFFICES ASSUME NEW a, NEW b, Run(<<>>, a, b), a # b PROVE FALSE
    OBVIOUS
  <2>1. a + 1 \in a + 1 .. b
    BY DEF Run
  <2> QED
    BY <1>1, <2>1 DEF Run
<1> QED
  BY <1>1, <1>2 DEF Run

LEMMA RunAppend ==
  ASSUME NEW s \in Seq(Frames), NEW a, NEW b, NEW f \in Frames, Run(s, a, b)
  PROVE  /\ ~OfStream(f) => Run(Append(s, f), a, b)
         /\ OfStream(f) /\ f.n = b + 1 => Run(Append(s, f), a, b + 1)
<1> DEFINE t == Append(s, f)
           l == Len(s) + 1
<1>1. /\ Len(t) = l /\ t[l] = f /\ Len(s) \in Nat /\ l \in Nat /\ l \in 1 .. l
      /\ \A k \in 1 .. Len(s) : t[k] = s[k] /\ s[k].n \in Nat /\ k \in 1 .. l /\ k < l
      /\ \A k \in 1 .. l : k \in 1 .. Len(s) \/ k = l
  BY OfAppend, FrameFields
<1>2. /\ a \in Nat /\ b \in Nat /\ a <= b
      /\ \A k \in 1 .. Len(s) : OfStream(s[k]) => a < s[k].n /\ s[k].n <= b
      /\ \A j, k \in 1 .. Len(s) : OfStream(s[j]) /\ OfStream(s[k]) /\ j < k => s[j].n < s[k].n
      /\ \A n \in a + 1 .. b : \E k \in 1 .. Len(s) : OfStream(s[k]) /\ s[k].n = n
  BY DEF Run
<1> HIDE DEF t, l
<1>3. CASE ~OfStream(f)
  <2>1. \A n \in a + 1 .. b : \E k \in 1 .. l : OfStream(t[k]) /\ t[k].n = n
    BY <1>1, <1>2
  <2>2. \A k \in 1 .. l : OfStream(t[k]) => a < t[k].n /\ t[k].n <= b
    BY <1>1, <1>2, <1>3
  <2>3. \A j, k \in 1 .. l : OfStream(t[j]) /\ OfStream(t[k]) /\ j < k => t[j].n < t[k].n
    BY <1>1, <1>2, <1>3
  <2> QED
    BY <1>1, <1>2, <1>3, <2>1, <2>2, <2>3 DEF Run, t
<1>4. CASE OfStream(f) /\ f.n = b + 1
  <2>1. \A n \in a + 1 .. b + 1 : \E k \in 1 .. l : OfStream(t[k]) /\ t[k].n = n
    <3> SUFFICES ASSUME NEW n \in a + 1 .. b + 1
                 PROVE  \E k \in 1 .. l : OfStream(t[k]) /\ t[k].n = n
      OBVIOUS
    <3>1. CASE n = b + 1
      BY <1>1, <1>4, <3>1
    <3>2. CASE n # b + 1
      <4>1. n \in a + 1 .. b
        BY <1>2, <3>2
      <4>2. PICK k \in 1 .. Len(s) : OfStream(s[k]) /\ s[k].n = n
        BY <1>2, <4>1
      <4> QED
        BY <1>1, <4>2
    <3> QED
      BY <3>1, <3>2
  <2>2. \A k \in 1 .. l : OfStream(t[k]) => a < t[k].n /\ t[k].n <= b + 1
    BY <1>1, <1>2, <1>4
  <2>3. \A j, k \in 1 .. l : OfStream(t[j]) /\ OfStream(t[k]) /\ j < k => t[j].n < t[k].n
    BY <1>1, <1>2, <1>4
  <2> QED
    BY <1>1, <1>2, <1>4, <2>1, <2>2, <2>3 DEF Run, t
<1> QED
  BY <1>3, <1>4 DEF t

LEMMA RunTail ==
  ASSUME NEW s \in Seq(Frames), NEW a, NEW b, Run(s, a, b), s # <<>>
  PROVE  /\ ~OfStream(Head(s)) => Run(Tail(s), a, b)
         /\ OfStream(Head(s)) => Head(s).n = a + 1 /\ Run(Tail(s), a + 1, b)
<1> DEFINE t == Tail(s)
           l == Len(s) - 1
<1>1. /\ Len(t) = l /\ s[1] = Head(s) /\ Len(s) \in Nat /\ Len(s) > 0 /\ l \in Nat
      /\ 1 \in 1 .. Len(s)
      /\ \A k \in 1 .. Len(s) : s[k].n \in Nat /\ (k = 1 \/ k \in 2 .. Len(s))
  BY OfTail, FrameFields
<1>f. \A k \in 1 .. l : t[k] = s[k + 1] /\ k + 1 \in 1 .. Len(s) /\ 1 < k + 1
  BY OfTail
<1>b. \A k \in 1 .. Len(s) : k # 1 => s[k] = t[k - 1] /\ k - 1 \in 1 .. l
  BY OfTail
<1>2. /\ a \in Nat /\ b \in Nat /\ a <= b
      /\ \A k \in 1 .. Len(s) : OfStream(s[k]) => a < s[k].n /\ s[k].n <= b
      /\ \A j, k \in 1 .. Len(s) : OfStream(s[j]) /\ OfStream(s[k]) /\ j < k => s[j].n < s[k].n
      /\ \A n \in a + 1 .. b : \E k \in 1 .. Len(s) : OfStream(s[k]) /\ s[k].n = n
  BY DEF Run
<1> HIDE DEF t, l
<1>3. \A j, k \in 1 .. l : OfStream(t[j]) /\ OfStream(t[k]) /\ j < k => t[j].n < t[k].n
  <2> SUFFICES ASSUME NEW j \in 1 .. l, NEW k \in 1 .. l, OfStream(t[j]), OfStream(t[k]), j < k
               PROVE  t[j].n < t[k].n
    OBVIOUS
  <2>1. /\ j + 1 \in 1 .. Len(s) /\ k + 1 \in 1 .. Len(s) /\ j + 1 < k + 1
        /\ t[j] = s[j + 1] /\ t[k] = s[k + 1]
    BY <1>f
  <2> QED
    BY <1>2, <2>1
<1>4. CASE ~OfStream(s[1])
  <2>1. \A n \in a + 1 .. b : \E k \in 1 .. l : OfStream(t[k]) /\ t[k].n = n
    <3> SUFFICES ASSUME NEW n \in a + 1 .. b
                 PROVE  \E k \in 1 .. l : OfStream(t[k]) /\ t[k].n = n
      OBVIOUS
    <3>1. PICK k \in 1 .. Len(s) : OfStream(s[k]) /\ s[k].n = n
      BY <1>2
    <3> QED
      BY <1>b, <1>4, <3>1
  <2>2. \A k \in 1 .. l : OfStream(t[k]) => a < t[k].n /\ t[k].n <= b
    BY <1>f, <1>2
  <2> QED
    BY <1>1, <1>2, <1>3, <1>4, <2>1, <2>2 DEF Run, t
<1>5. CASE OfStream(s[1])
  <2>1. s[1].n = a + 1 /\ a + 1 <= b
    <3>1. a < s[1].n /\ s[1].n <= b /\ a + 1 \in a + 1 .. b
      BY <1>1, <1>2, <1>5
    <3>2. PICK k \in 1 .. Len(s) : OfStream(s[k]) /\ s[k].n = a + 1
      BY <1>2, <3>1
    <3>3. k # 1 => s[1].n < s[k].n
      <4> SUFFICES ASSUME k # 1 PROVE s[1].n < s[k].n
        OBVIOUS
      <4>1. 1 < k
        BY <1>1
      <4> QED
        BY <1>1, <1>2, <1>5, <3>2, <4>1
    <3> QED
      BY <1>1, <1>2, <3>1, <3>2, <3>3
  <2>2. \A k \in 1 .. Len(s) : OfStream(s[k]) /\ 1 < k => a + 1 < s[k].n
    BY <1>1, <1>2, <1>5, <2>1
  <2>3. \A n \in (a + 1) + 1 .. b : \E k \in 1 .. l : OfStream(t[k]) /\ t[k].n = n
    <3> SUFFICES ASSUME NEW n \in (a + 1) + 1 .. b
                 PROVE  \E k \in 1 .. l : OfStream(t[k]) /\ t[k].n = n
      OBVIOUS
    <3>1. PICK k \in 1 .. Len(s) : OfStream(s[k]) /\ s[k].n = n
      BY <1>2
    <3>2. k # 1
      BY <1>2, <2>1, <3>1
    <3> QED
      BY <1>b, <3>1, <3>2
  <2>4. \A k \in 1 .. l : OfStream(t[k]) => a + 1 < t[k].n /\ t[k].n <= b
    BY <1>f, <1>2, <2>2
  <2>5. Run(t, a + 1, b)
    BY <1>1, <1>2, <1>3, <2>1, <2>3, <2>4 DEF Run
  <2> QED
    BY <1>1, <1>5, <2>1, <2>5 DEF t
<1> QED
  BY <1>1, <1>4, <1>5 DEF t

LEMMA OneAhead ==
  ASSUME NEW S, NEW s \in Seq(S), NEW x \in S
  PROVE  /\ Len(s) \in Nat /\ <<x>> \o s \in Seq(S) /\ <<x>> \o s # <<>>
         /\ Len(<<x>> \o s) = Len(s) + 1 /\ (<<x>> \o s)[1] = x
         /\ \A k \in 1 .. Len(s) : (<<x>> \o s)[k + 1] = s[k] /\ s[k] \in S
         /\ \A k \in 2 .. Len(s) + 1 : (<<x>> \o s)[k] = s[k - 1]
         /\ Head(<<x>> \o s) = x /\ Tail(<<x>> \o s) = s
<1>1. <<x>> \in Seq(S) /\ Len(<<x>>) = 1 /\ <<x>>[1] = x
  OBVIOUS
<1>2. /\ Len(s) \in Nat /\ <<x>> \o s \in Seq(S)
      /\ Len(<<x>> \o s) = Len(s) + 1 /\ (<<x>> \o s)[1] = x
      /\ \A k \in 1 .. Len(s) : (<<x>> \o s)[1 + k] = s[k] /\ s[k] \in S
      /\ \A k \in 2 .. Len(s) + 1 : (<<x>> \o s)[k] = s[k - 1]
  BY <1>1, OfConcat
<1>3. <<x>> \o s # <<>>
  BY <1>2, EmptySeq
<1>4. Tail(<<x>> \o s) = s
  <2>1. /\ Tail(<<x>> \o s) \in Seq(S) /\ Len(Tail(<<x>> \o s)) = Len(s)
        /\ \A k \in 1 .. Len(s) : Tail(<<x>> \o s)[k] = (<<x>> \o s)[k + 1]
    BY <1>2, <1>3, HeadTailProperties
  <2> QED
    BY <1>2, <2>1, SeqEqual
<1> QED
  BY <1>2, <1>3, <1>4

LEMMA RunCons ==
  ASSUME NEW s \in Seq(Frames), NEW a, NEW b, NEW f \in Frames, ~OfStream(f), Run(s, a, b)
  PROVE  Run(<<f>> \o s, a, b)
<1> DEFINE t == <<f>> \o s
           l == Len(s) + 1
<1>1. /\ Len(t) = l /\ t[1] = f /\ Len(s) \in Nat /\ l \in Nat
      /\ \A k \in 1 .. Len(s) : s[k].n \in Nat
  BY OneAhead, FrameFields
<1>f. \A k \in 1 .. l : k # 1 => t[k] = s[k - 1] /\ k - 1 \in 1 .. Len(s)
  BY OneAhead
<1>b. \A k \in 1 .. Len(s) : t[k + 1] = s[k] /\ k + 1 \in 1 .. l
  BY OneAhead
<1>2. /\ a \in Nat /\ b \in Nat /\ a <= b
      /\ \A k \in 1 .. Len(s) : OfStream(s[k]) => a < s[k].n /\ s[k].n <= b
      /\ \A j, k \in 1 .. Len(s) : OfStream(s[j]) /\ OfStream(s[k]) /\ j < k => s[j].n < s[k].n
      /\ \A n \in a + 1 .. b : \E k \in 1 .. Len(s) : OfStream(s[k]) /\ s[k].n = n
  BY DEF Run
<1> HIDE DEF t, l
<1>3. \A n \in a + 1 .. b : \E k \in 1 .. l : OfStream(t[k]) /\ t[k].n = n
  <2> SUFFICES ASSUME NEW n \in a + 1 .. b
               PROVE  \E k \in 1 .. l : OfStream(t[k]) /\ t[k].n = n
    OBVIOUS
  <2>1. PICK k \in 1 .. Len(s) : OfStream(s[k]) /\ s[k].n = n
    BY <1>2
  <2> QED
    BY <1>b, <2>1
<1>4. \A k \in 1 .. l : OfStream(t[k]) => a < t[k].n /\ t[k].n <= b
  BY <1>1, <1>f, <1>2
<1>5. \A j, k \in 1 .. l : OfStream(t[j]) /\ OfStream(t[k]) /\ j < k => t[j].n < t[k].n
  <2> SUFFICES ASSUME NEW j \in 1 .. l, NEW k \in 1 .. l, OfStream(t[j]), OfStream(t[k]), j < k
               PROVE  t[j].n < t[k].n
    OBVIOUS
  <2>1. /\ j - 1 \in 1 .. Len(s) /\ k - 1 \in 1 .. Len(s) /\ j - 1 < k - 1
        /\ t[j] = s[j - 1] /\ t[k] = s[k - 1]
    BY <1>1, <1>f
  <2> QED
    BY <1>2, <2>1
<1> QED
  BY <1>1, <1>2, <1>3, <1>4, <1>5 DEF Run, t

LEMMA PiecesOf ==
  ASSUME NEW f \in Frames
  PROVE  /\ Pieces(f) \in Seq(Piece) /\ Len(Pieces(f)) = Size(f) /\ Size(f) \in {1, 2}
         /\ Pieces(f) # <<>>
         /\ \A k \in 1 .. Size(f) : /\ Pieces(f)[k] = [frame |-> f, k |-> k]
                                    /\ Whole(Pieces(f)[k]) <=> k = Size(f)
         /\ Size(f) = 2 <=> f.tag = "Data"
<1>1. Size(f) \in {1, 2} /\ (Size(f) = 2 <=> f.tag = "Data")
  BY DEF Size
<1>2. \A k \in 1 .. Size(f) : [frame |-> f, k |-> k] \in Piece
  BY <1>1 DEF Piece, Size
<1>3. Pieces(f) \in Seq(Piece) /\ Len(Pieces(f)) = Size(f)
  BY <1>1, <1>2, IsASeq DEF Pieces
<1>4. \A k \in 1 .. Size(f) : Pieces(f)[k] = [frame |-> f, k |-> k]
  BY DEF Pieces
<1> QED
  BY <1>1, <1>3, <1>4 DEF Whole

LEMMA LineRunSends ==
  ASSUME NEW s \in Seq(Piece), NEW b, NEW f \in Frames, LineRun(s, b)
  PROVE  /\ ~OfStream(f) => LineRun(s \o Pieces(f), b)
         /\ OfStream(f) /\ f.n = b + 1 => LineRun(s \o Pieces(f), b + 1)
<1> DEFINE t == s \o Pieces(f)
           l == Len(s) + Size(f)
<1>p. Pieces(f) \in Seq(Piece) /\ Len(Pieces(f)) = Size(f) /\ Size(f) \in {1, 2}
  BY PiecesOf
<1>1. /\ Len(t) = l /\ Len(s) \in Nat /\ l \in Nat
      /\ \A k \in 1 .. Len(s) : t[k] = s[k] /\ s[k] \in Piece /\ k \in 1 .. l /\ k < l
      /\ \A k \in Len(s) + 1 .. l : t[k] = Pieces(f)[k - Len(s)] /\ k - Len(s) \in 1 .. Size(f)
      /\ l \in Len(s) + 1 .. l /\ l \in 1 .. l
      /\ \A k \in 1 .. l : k \in 1 .. Len(s) \/ k \in Len(s) + 1 .. l
  BY <1>p, OfConcat
<1>2. \A k \in 1 .. Len(s) : s[k].frame.n \in Nat
  BY <1>1, PieceFields
<1>3. \A k \in Len(s) + 1 .. l : t[k].frame = f /\ (Whole(t[k]) <=> k = l)
  <2> SUFFICES ASSUME NEW k \in Len(s) + 1 .. l
               PROVE  t[k].frame = f /\ (Whole(t[k]) <=> k = l)
    OBVIOUS
  <2>1. t[k] = Pieces(f)[k - Len(s)] /\ k - Len(s) \in 1 .. Size(f)
    BY <1>1
  <2>2. t[k] = [frame |-> f, k |-> k - Len(s)] /\ (Whole(t[k]) <=> k - Len(s) = Size(f))
    BY <2>1, PiecesOf
  <2> QED
    BY <1>p, <1>1, <2>2
<1>4. /\ b \in Nat
      /\ \A k \in 1 .. Len(s) : Counted(s[k]) => 0 < s[k].frame.n /\ s[k].frame.n <= b
      /\ \A j, k \in 1 .. Len(s) :
           Counted(s[j]) /\ Counted(s[k]) /\ j < k => s[j].frame.n < s[k].frame.n
  BY DEF LineRun
<1>n. \A n \in 1 .. b : \E k \in 1 .. Len(s) : Counted(s[k]) /\ s[k].frame.n = n
  BY DEF LineRun
<1> HIDE DEF t, l
<1>5. CASE ~OfStream(f)
  <2>1. \A k \in 1 .. l : Counted(t[k]) => k \in 1 .. Len(s) /\ Counted(s[k])
    BY <1>1, <1>3, <1>5 DEF Counted
  <2>2. \A n \in 1 .. b : \E k \in 1 .. l : Counted(t[k]) /\ t[k].frame.n = n
    BY <1>1, <1>n
  <2>3. /\ \A k \in 1 .. l : Counted(t[k]) => 0 < t[k].frame.n /\ t[k].frame.n <= b
        /\ \A j, k \in 1 .. l :
             Counted(t[j]) /\ Counted(t[k]) /\ j < k => t[j].frame.n < t[k].frame.n
    BY <1>1, <1>4, <2>1
  <2> QED
    BY <1>1, <1>4, <1>5, <2>2, <2>3 DEF LineRun, t
<1>6. CASE OfStream(f) /\ f.n = b + 1
  <2>1. \A k \in 1 .. l : Counted(t[k]) => k = l \/ (k \in 1 .. Len(s) /\ Counted(s[k]))
    BY <1>1, <1>3 DEF Counted
  <2>2. Counted(t[l]) /\ t[l].frame.n = b + 1
    BY <1>1, <1>3, <1>6 DEF Counted
  <2>3. \A n \in 1 .. b + 1 : \E k \in 1 .. l : Counted(t[k]) /\ t[k].frame.n = n
    <3> SUFFICES ASSUME NEW n \in 1 .. b + 1
                 PROVE  \E k \in 1 .. l : Counted(t[k]) /\ t[k].frame.n = n
      OBVIOUS
    <3>1. CASE n = b + 1
      BY <1>1, <2>2, <3>1
    <3>2. CASE n # b + 1
      <4>1. n \in 1 .. b
        BY <1>4, <3>2
      <4>2. PICK k \in 1 .. Len(s) : Counted(s[k]) /\ s[k].frame.n = n
        BY <1>n, <4>1
      <4> QED
        BY <1>1, <4>2
    <3> QED
      BY <3>1, <3>2
  <2>4. \A k \in 1 .. l : Counted(t[k]) => 0 < t[k].frame.n /\ t[k].frame.n <= b + 1
    <3> SUFFICES ASSUME NEW k \in 1 .. l, Counted(t[k])
                 PROVE  0 < t[k].frame.n /\ t[k].frame.n <= b + 1
      OBVIOUS
    <3>1. CASE k = l
      BY <1>4, <2>2, <3>1
    <3>2. CASE k # l
      BY <1>1, <1>2, <1>4, <2>1, <3>2
    <3> QED
      BY <3>1, <3>2
  <2>5. \A j, k \in 1 .. l :
          Counted(t[j]) /\ Counted(t[k]) /\ j < k => t[j].frame.n < t[k].frame.n
    <3> SUFFICES ASSUME NEW j \in 1 .. l, NEW k \in 1 .. l, Counted(t[j]), Counted(t[k]), j < k
                 PROVE  t[j].frame.n < t[k].frame.n
      OBVIOUS
    <3>1. j \in 1 .. Len(s) /\ Counted(s[j]) /\ t[j] = s[j]
      BY <1>1, <2>1
    <3>2. CASE k = l
      BY <1>2, <1>4, <2>2, <3>1, <3>2
    <3>3. CASE k # l
      BY <1>1, <1>4, <2>1, <3>1, <3>3
    <3> QED
      BY <3>2, <3>3
  <2>6. LineRun(t, b + 1)
    BY <1>1, <1>4, <2>3, <2>4, <2>5 DEF LineRun
  <2> QED
    BY <1>6, <2>6 DEF t
<1> QED
  BY <1>5, <1>6 DEF t

-----------------------------------------------------------------------------
(* Types. *)
LEMMA FrameTypes ==
  /\ \A n \in Nat : Frame("Data", n) \in Frames /\ Frame("Close", n) \in Frames
  /\ \A n \in Nonce : Frame("Ping", n) \in Frames /\ Frame("Pong", n) \in Frames
  /\ \A tag, n : Frame(tag, n).tag = tag /\ Frame(tag, n).n = n
  /\ Term \in Frames /\ ProtocolError \in Frames /\ Term # None /\ ProtocolError # None
  /\ Term.tag = "GoAway" /\ ProtocolError.tag = "GoAway" /\ Term # ProtocolError
  /\ None \notin Frames
  /\ \A f \in Frames : /\ f.tag \in {"Ping", "Pong"} => f.n \in Nonce
                       /\ f.tag = "GoAway" => f = Term \/ f = ProtocolError
BY NoneAssumption DEF Frame, Frames, Term, ProtocolError

PendingPong(p) == IF pending_pong[p] = None THEN None ELSE Frame("Pong", pending_pong[p])

LEMMA StagedFrames ==
  ASSUME AppTyped, ControlTyped, DriverTyped, NEW p \in Peer
  PROVE  /\ pending_write_frame[p] \in Frames \cup {None}
         /\ owed_close[p] \in Frames \cup {None} /\ PendingPong(p) \in Frames \cup {None}
         /\ pending_terminate[p] \in {ProtocolError, None}
         /\ pending_terminate[p] \in Frames \cup {None}
         /\ \A f \in Frames \cup {None} : Some(f) \in Seq(Frames)
         /\ Staged(p) \in Seq(Frames) /\ Queue(p) \in Seq(Frames)
         /\ TakePendingFrames(p) \in Seq(Frames)
         /\ TakePendingFrames(p)
              = Some(pending_terminate[p]) \o (Some(PendingPong(p)) \o Staged(p))
<1>1. /\ pending_write_frame[p] \in Frames \cup {None}
      /\ owed_close[p] \in Frames \cup {None} /\ PendingPong(p) \in Frames \cup {None}
      /\ pending_terminate[p] \in {ProtocolError, None}
      /\ pending_terminate[p] \in Frames \cup {None}
  <2>1. pending_pong[p] \in Nonce \cup {None}
    BY DEF DriverTyped
  <2>2. \A n \in Nonce : Frame("Pong", n) \in Frames
    BY FrameTypes
  <2>3. PendingPong(p) \in Frames \cup {None}
    BY <2>1, <2>2 DEF PendingPong
  <2> QED
    BY <2>3, FrameTypes DEF DriverTyped
<1>2. \A f \in Frames \cup {None} : Some(f) \in Seq(Frames)
  BY DEF Some
<1>3. /\ Staged(p) \in Seq(Frames) /\ chan[p] \in Seq(Frames) /\ pending_frames[p] \in Seq(Frames)
      /\ Some(pending_terminate[p]) \in Seq(Frames) /\ Some(PendingPong(p)) \in Seq(Frames)
      /\ Some(pending_write_frame[p]) \in Seq(Frames) /\ Some(owed_close[p]) \in Seq(Frames)
  BY <1>1, <1>2, ThreeInARow DEF Staged, AppTyped, ControlTyped
<1>4. Queue(p) \in Seq(Frames)
  BY <1>3, ConcatProperties DEF Queue
<1>5. TakePendingFrames(p)
        = ((Some(pending_terminate[p]) \o Some(PendingPong(p))) \o Some(pending_write_frame[p]))
            \o Some(owed_close[p])
  BY Zenon DEF TakePendingFrames, Some, PendingPong
<1> DEFINE a == Some(pending_terminate[p])
           b == Some(PendingPong(p))
           c == Some(pending_write_frame[p])
           d == Some(owed_close[p])
<1>6. TakePendingFrames(p) = a \o (b \o (c \o d)) /\ a \o (b \o (c \o d)) \in Seq(Frames)
  <2>1. a \in Seq(Frames) /\ b \in Seq(Frames) /\ c \in Seq(Frames) /\ d \in Seq(Frames)
    BY <1>3
  <2>2. TakePendingFrames(p) = ((a \o b) \o c) \o d
    BY <1>5
  <2> HIDE DEF a, b, c, d
  <2> DEFINE Cat(x, y) == x \o y
             Q == Seq(Frames)
  <2>3. /\ \A x, y, z \in Q : Cat(Cat(x, y), z) = Cat(x, Cat(y, z))
        /\ \A y, z \in Q : Cat(y, z) \in Q
    BY ThreeInARow
  <2>4. a \in Q /\ b \in Q /\ c \in Q /\ d \in Q
    BY <2>1
  <2> HIDE DEF Cat, Q
  <2>5. Cat(Cat(Cat(a, b), c), d) = Cat(a, Cat(b, Cat(c, d))) /\ Cat(a, Cat(b, Cat(c, d))) \in Q
    BY <2>3, <2>4
  <2>6. ((a \o b) \o c) \o d = a \o (b \o (c \o d)) /\ a \o (b \o (c \o d)) \in Seq(Frames)
    BY <2>5 DEF Cat, Q
  <2> QED
    BY Zenon, <2>2, <2>6
<1> QED
  BY <1>1, <1>2, <1>3, <1>4, <1>6 DEF Staged

(* What leaving the active state does. *)
LEMMA LeavingTyped ==
  ASSUME DriverTyped, NEW p \in Peer, LeaveActive(p)
  PROVE  /\ DriverTyped'
         /\ /\ pending_write_frame'[p] = None /\ owed_close'[p] = None
            /\ pending_pong'[p] = None /\ pending_terminate'[p] = None /\ awaited'[p] = None
         /\ \A r \in Peer \ {p} :
              /\ pending_write_frame'[r] = pending_write_frame[r] /\ owed_close'[r] = owed_close[r]
              /\ pending_pong'[r] = pending_pong[r] /\ awaited'[r] = awaited[r]
              /\ pending_terminate'[r] = pending_terminate[r]
         /\ terminating' = terminating
BY DEF LeaveActive, DriverTyped

LEMMA StartClosingTyped ==
  ASSUME Typing, NEW p \in Peer, NEW w \in BOOLEAN, StartClosing(p, w), UNCHANGED <<config, io>>
  PROVE  ControlTyped' /\ DriverTyped' /\ Phases'
<1>1. /\ conn' = [conn EXCEPT ![p] = "DrainingStreamReceiver"]
      /\ pending_frames' = [pending_frames EXCEPT ![p] = TakePendingFrames(p)]
      /\ wait_for_reply' = [wait_for_reply EXCEPT ![p] = w]
      /\ at_close' = [at_close EXCEPT ![p] = accepted[p]]
      /\ LeaveActive(p) /\ UNCHANGED <<result, shut, gone>>
  BY DEF StartClosing
<1>2. TakePendingFrames(p) \in Seq(Frames) /\ accepted[p] \in Nat
  BY StagedFrames DEF Typing, AppTyped
<1>3. DriverTyped' /\ terminating' = terminating
  BY <1>1, LeavingTyped DEF Typing
<1>4. ControlTyped'
  BY <1>1, <1>2, <1>3 DEF Typing, ControlTyped, State
<1>5. Phases'
  <2>1. /\ conn'[p] # "Active" /\ at_close'[p] = accepted[p]
        /\ \A r \in Peer \ {p} : /\ conn'[r] = conn[r] /\ at_close'[r] = at_close[r]
                                 /\ pending_frames'[r] = pending_frames[r]
    BY <1>1 DEF Typing, ControlTyped
  <2> QED
    BY <1>1, <1>2, <2>1, LeavingTyped DEF Typing, Phases
<1> QED
  BY <1>3, <1>4, <1>5

LEMMA StartCleanupTyped ==
  ASSUME Typing, NEW p \in Peer, NEW r \in {"ok", "error"}, StartCleanup(p, r),
         UNCHANGED <<config, io>>
  PROVE  ControlTyped' /\ DriverTyped' /\ Phases'
<1>1. /\ conn' = [conn EXCEPT ![p] = "Cleanup"]
      /\ result' = [result EXCEPT ![p] = r]
      /\ shut' = [shut EXCEPT ![p] = TRUE] /\ gone' = [gone EXCEPT ![p] = TRUE]
      /\ at_close' = [at_close EXCEPT ![p] = accepted[p]]
      /\ LeaveActive(p) /\ UNCHANGED <<pending_frames, wait_for_reply>>
  BY DEF StartCleanup
<1>2. accepted[p] \in Nat
  BY DEF Typing, AppTyped
<1>3. DriverTyped' /\ terminating' = terminating
  BY <1>1, LeavingTyped DEF Typing
<1>4. ControlTyped'
  BY <1>1, <1>2, <1>3 DEF Typing, ControlTyped, State
<1>5. Phases'
  <2>1. /\ conn'[p] # "Active" /\ at_close'[p] = accepted[p]
        /\ \A q \in Peer \ {p} : conn'[q] = conn[q] /\ at_close'[q] = at_close[q]
    BY <1>1 DEF Typing, ControlTyped
  <2> QED
    BY <1>1, <1>2, <2>1, LeavingTyped DEF Typing, Phases
<1> QED
  BY <1>3, <1>4, <1>5

(* Only conn of p changes, and not to or from the active state. *)
LEMMA PhaseChangeTyped ==
  ASSUME Typing, NEW p \in Peer, NEW c \in State, conn[p] # "Active", c # "Active",
         conn' = [conn EXCEPT ![p] = c], UNCHANGED <<driver, at_close>>,
         \A r \in Peer \ {p} : pending_frames'[r] = pending_frames[r]
  PROVE  /\ Phases' /\ DriverTyped' /\ terminating' = terminating
         /\ conn' \in [Peer -> State] /\ at_close' \in [Peer -> Nat \cup {None}]
<1>1. /\ conn' \in [Peer -> State] /\ conn'[p] = c
      /\ \A r \in Peer \ {p} : conn'[r] = conn[r]
  BY DEF Typing, ControlTyped
<1>2. DriverTyped' /\ terminating' = terminating /\ at_close' \in [Peer -> Nat \cup {None}]
  BY DEF driver, Typing, DriverTyped, ControlTyped
<1>3. UNCHANGED <<awaited, pending_terminate, pending_pong, pending_write_frame, owed_close>>
  BY DEF driver
<1> QED
  BY <1>1, <1>2, <1>3 DEF Typing, Phases

(* Which actions change the socket of p beside its two ends, and how. *)
LEMMA SocketKept ==
  ASSUME NEW p \in Peer,
         \/ WriteFails(p) \/ TakeFrame(p) \/ ReadEnd(p) \/ DrainCommand(p) \/ FinishDraining(p)
         \/ FinishFlushing(p) \/ CloseSocket(p) \/ FinishCleanup(p) \/ User(p)
  PROVE  UNCHANGED <<writing, reading, wire, seen>>
<1>1. CASE WriteFails(p) \/ ReadEnd(p) \/ CloseSocket(p)
  BY <1>1 DEF WriteFails, ReadEnd, CloseSocket
<1>2. CASE TakeFrame(p) \/ DrainCommand(p) \/ FinishDraining(p) \/ FinishFlushing(p)
  BY <1>2 DEF TakeFrame, DrainCommand, FinishDraining, FinishFlushing, socket
<1>3. CASE FinishCleanup(p) \/ User(p)
  BY <1>3 DEF FinishCleanup, User, BeginSend, EndSend, DropStream, Close, DropConnection, socket
<1> QED
  BY <1>1, <1>2, <1>3

(* A frame that p sends next: StartSend of it. *)
Sent(p, f) == Ready(p) /\ StartSend(p, f)

LEMMA SendsOne ==
  ASSUME Typing, NEW p \in Peer, SendPing(p) \/ SendPending(p) \/ FlushFrame(p)
  PROVE  \E f \in Frames : Sent(p, f)
<1>1. CASE SendPing(p)
  BY <1>1, FrameTypes DEF SendPing, Sent
<1>2. CASE SendPending(p)
  <2>1. /\ pending_write_frame[p] \in Frames \cup {None}
        /\ pending_terminate[p] \in Frames \cup {None}
        /\ pending_pong[p] \in Nonce \cup {None}
    BY StagedFrames DEF Typing, DriverTyped
  <2> QED
    BY <1>2, <2>1, FrameTypes DEF SendPending, Sent
<1>3. CASE FlushFrame(p)
  <2>1. pending_frames[p] \in Seq(Frames) /\ pending_frames[p] # <<>>
    BY <1>3 DEF FlushFrame, Typing, ControlTyped
  <2>2. Head(pending_frames[p]) \in Frames
    BY <2>1, OfTail
  <2> QED
    BY <1>3, <2>2 DEF FlushFrame, Sent
<1> QED
  BY <1>1, <1>2, <1>3

LEMMA SocketTypedStep ==
  ASSUME Typing, NEW p \in Peer, Poll(p) \/ User(p)
  PROVE  SocketTyped'
<1>1. CASE WritePiece(p)
  <2>1. /\ wire[p] \in Seq(Piece) /\ writing[p] \in Seq(Piece) /\ writing[p] # <<>>
        /\ Len(wire[p]) < WireCap[p] /\ WireCap[p] \in Nat
        /\ wire' = [wire EXCEPT ![p] = Append(@, Head(writing[p]))]
        /\ writing' = [writing EXCEPT ![p] = Tail(@)]
        /\ UNCHANGED <<reading, seen>>
    BY <1>1, MuxClosingAssumption DEF WritePiece, Ready, Typing, SocketTyped
  <2>2. Head(writing[p]) \in Piece /\ Tail(writing[p]) \in Seq(Piece)
    BY <2>1, OfTail
  <2>3. /\ Append(wire[p], Head(writing[p])) \in Seq(Piece)
        /\ Len(Append(wire[p], Head(writing[p]))) <= WireCap[p]
    BY <2>1, <2>2, OfAppend
  <2> QED
    BY <2>1, <2>2, <2>3 DEF Typing, SocketTyped
<1>2. CASE \E f \in Frames : Sent(p, f)
  BY <1>2, PiecesOf DEF Sent, StartSend, Typing, SocketTyped
<1>3. CASE ReadPiece(p)
  <2> DEFINE q == Other(p)
             c == Head(wire[q])
  <2>1. q \in Peer
    BY TwoPeers
  <2>2. /\ wire[q] \in Seq(Piece) /\ wire[q] # <<>> /\ seen[p] \in Seq(Piece)
        /\ wire' = [wire EXCEPT ![q] = Tail(@)]
        /\ seen' = [seen EXCEPT ![p] = Append(@, c)]
        /\ reading' = [reading EXCEPT ![p] = IF Whole(c) THEN <<>> ELSE Append(@, c)]
        /\ reading[p] \in Seq(Piece)
        /\ UNCHANGED writing
    BY <1>3, <2>1 DEF ReadPiece, Typing, SocketTyped
  <2> HIDE DEF q
  <2>3. /\ c \in Piece /\ Tail(wire[q]) \in Seq(Piece)
        /\ Len(Tail(wire[q])) <= Len(wire[q]) /\ Len(wire[q]) \in Nat
        /\ Len(Tail(wire[q])) \in Nat
    BY <2>2, OfTail
  <2> HIDE DEF c
  <2>4. Append(seen[p], c) \in Seq(Piece) /\ Append(reading[p], c) \in Seq(Piece)
    BY <2>2, <2>3, OfAppend
  <2>5. reading' \in [Peer -> Seq(Piece)] /\ seen' \in [Peer -> Seq(Piece)]
    BY <2>2, <2>4 DEF Typing, SocketTyped
  <2>6. wire' \in [Peer -> Seq(Piece)] /\ \A r \in Peer : Len(wire'[r]) <= WireCap[r]
    <3>1. WireCap[q] \in Nat /\ Len(wire[q]) <= WireCap[q]
      BY <2>1, MuxClosingAssumption DEF Typing, SocketTyped
    <3>2. Len(Tail(wire[q])) <= WireCap[q]
      BY <2>3, <3>1
    <3> QED
      BY <2>1, <2>2, <2>3, <3>2 DEF Typing, SocketTyped
  <2> QED
    BY <2>2, <2>5, <2>6 DEF Typing, SocketTyped
<1>4. CASE UNCHANGED <<writing, reading, wire, seen>>
  BY <1>4 DEF Typing, SocketTyped
<1> QED
  BY <1>1, <1>2, <1>3, <1>4, SocketKept, SendsOne DEF Poll

(* The actions that change the channel. *)
LEMMA AppKept ==
  ASSUME NEW p \in Peer,
         \/ WritePiece(p) \/ WriteFails(p) \/ SendPing(p) \/ SendPending(p) \/ ReadPiece(p)
         \/ ReadEnd(p) \/ FinishDraining(p) \/ FlushFrame(p) \/ FinishFlushing(p)
         \/ CloseSocket(p) \/ Close(p) \/ DropConnection(p)
  PROVE  UNCHANGED <<chan, sending, accepted>>
<1>1. CASE WritePiece(p) \/ WriteFails(p) \/ SendPing(p) \/ SendPending(p)
  BY <1>1 DEF WritePiece, WriteFails, SendPing, SendPending, app
<1>2. CASE ReadPiece(p) \/ ReadEnd(p) \/ Close(p) \/ DropConnection(p)
  BY <1>2 DEF ReadPiece, ReadEnd, Close, DropConnection, app
<1>3. CASE FinishDraining(p) \/ FlushFrame(p) \/ FinishFlushing(p) \/ CloseSocket(p)
  BY <1>3 DEF FinishDraining, FlushFrame, FinishFlushing, CloseSocket, app
<1> QED
  BY <1>1, <1>2, <1>3

LEMMA AppTypedStep ==
  ASSUME Typing, NEW p \in Peer, Poll(p) \/ User(p)
  PROVE  AppTyped'
<1>t. /\ chan[p] \in Seq(Frames) /\ sending[p] \in Frames \cup {None} /\ accepted[p] \in Nat
      /\ Len(chan[p]) \in Nat /\ ChannelCap \in Nat
      /\ Len(chan[p]) <= ChannelCap /\ (sending[p] # None => Len(chan[p]) < ChannelCap)
  BY MuxClosingAssumption, LenProperties DEF Typing, AppTyped
<1>1. CASE BeginSend(p)
  <2>1. Frame("Data", accepted[p] + 1) \in Frames
    BY <1>t, FrameTypes
  <2> QED
    BY <1>1, <1>t, <2>1 DEF BeginSend, Typing, AppTyped
<1>2. CASE EndSend(p)
  <2>1. /\ Append(chan[p], sending[p]) \in Seq(Frames)
        /\ Len(Append(chan[p], sending[p])) <= ChannelCap
    BY <1>2, <1>t, OfAppend DEF EndSend
  <2> QED
    BY <1>2, <1>t, <2>1 DEF EndSend, Typing, AppTyped
<1>3. CASE DropStream(p)
  BY <1>3, <1>t DEF DropStream, Typing, AppTyped
<1>4. CASE TakeFrame(p) \/ DrainCommand(p)
  <2>1. /\ chan' = chan \/ (chan[p] # <<>> /\ chan' = [chan EXCEPT ![p] = Tail(@)])
        /\ UNCHANGED <<sending, accepted>>
    BY <1>4 DEF TakeFrame, DrainCommand
  <2>2. chan[p] # <<>> => Tail(chan[p]) \in Seq(Frames) /\ Len(Tail(chan[p])) = Len(chan[p]) - 1
    BY <1>t, OfTail
  <2>3. CASE chan' = [chan EXCEPT ![p] = Tail(@)] /\ chan[p] # <<>>
    <3>1. Len(Tail(chan[p])) < ChannelCap
      BY <1>t, <2>2, <2>3
    <3>2. chan' \in [Peer -> Seq(Frames)] /\ Len(chan'[p]) < ChannelCap
      BY <2>2, <2>3, <3>1 DEF Typing, AppTyped
    <3>3. \A r \in Peer \ {p} : chan'[r] = chan[r]
      BY <2>3 DEF Typing, AppTyped
    <3>4. \A r \in Peer : Len(chan'[r]) <= ChannelCap /\ (sending[r] # None => Len(chan'[r]) < ChannelCap)
      BY <1>t, <2>2, <3>1, <3>2, <3>3, <2>3 DEF Typing, AppTyped
    <3> QED
      BY <2>1, <3>2, <3>4 DEF Typing, AppTyped
  <2>4. CASE chan' = chan
    BY <2>1, <2>4 DEF Typing, AppTyped
  <2> QED
    BY <2>1, <2>3, <2>4
<1>5. CASE FinishCleanup(p)
  <2>1. <<>> \in Seq(Frames) /\ Len(<<>>) = 0 /\ 0 < ChannelCap
    BY MuxClosingAssumption
  <2> QED
    BY <1>5, <1>t, <2>1 DEF FinishCleanup, Typing, AppTyped
<1>6. CASE UNCHANGED <<chan, sending, accepted>>
  BY <1>6 DEF Typing, AppTyped
<1> QED
  BY <1>1, <1>2, <1>3, <1>4, <1>5, <1>6, AppKept DEF Poll, User
(* What the rest of the state must be: the control of both connections. *)
Controls == ControlTyped /\ DriverTyped /\ Phases

LEMMA PeerClosedTyped ==
  ASSUME Typing, NEW p \in Peer, PeerClosed(p), UNCHANGED <<config, io>>
  PROVE  Controls'
<1>1. CASE StartClosing(p, FALSE)
  BY <1>1, StartClosingTyped DEF Controls
<1>2. CASE StartCleanup(p, "ok")
  BY <1>2, StartCleanupTyped DEF Controls
<1> QED
  BY <1>1, <1>2 DEF PeerClosed

LEMMA FailTyped ==
  ASSUME Typing, NEW p \in Peer, Fail(p), UNCHANGED <<config, io>>
  PROVE  Controls'
<1>1. CASE conn[p] = "Active"
  <2>1. StartCleanup(p, "error")
    BY <1>1 DEF Fail
  <2> QED
    BY <2>1, StartCleanupTyped DEF Controls
<1>2. CASE conn[p] # "Active"
  <2>1. /\ conn' = [conn EXCEPT ![p] = "Closed"] /\ result' = [result EXCEPT ![p] = "error"]
        /\ shut' = [shut EXCEPT ![p] = TRUE] /\ gone' = [gone EXCEPT ![p] = TRUE]
        /\ UNCHANGED <<driver, closing>>
    BY <1>2 DEF Fail
  <2>2. UNCHANGED <<pending_frames, wait_for_reply, at_close>>
    BY <2>1 DEF closing
  <2>3. /\ Phases' /\ DriverTyped' /\ terminating' = terminating
        /\ conn' \in [Peer -> State] /\ at_close' \in [Peer -> Nat \cup {None}]
    BY <1>2, <2>1, <2>2, PhaseChangeTyped DEF State
  <2> QED
    BY <2>1, <2>2, <2>3 DEF Typing, ControlTyped, Controls
<1> QED
  BY <1>1, <1>2

(* The control of the connection is not touched, the driver of an active    *)
(* one is.                                                                  *)
LEMMA DrivenTyped ==
  ASSUME Typing, NEW p \in Peer, conn[p] = "Active",
         UNCHANGED <<config, conn, io, result, shut, gone, closing>>,
         /\ awaited' \in [Peer -> Nonce \cup {None}] /\ pings' \in [Peer -> Nat]
         /\ pending_terminate' \in [Peer -> {ProtocolError, None}]
         /\ terminating' \in [Peer -> BOOLEAN]
         /\ pending_pong' \in [Peer -> Nonce \cup {None}]
         /\ pending_write_frame' \in [Peer -> Frames \cup {None}]
         /\ owed_close' \in [Peer -> Frames \cup {None}],
         \A r \in Peer \ {p} :
           /\ awaited'[r] = awaited[r] /\ pending_terminate'[r] = pending_terminate[r]
           /\ pending_pong'[r] = pending_pong[r] /\ owed_close'[r] = owed_close[r]
           /\ pending_write_frame'[r] = pending_write_frame[r]
  PROVE  Controls'
<1>1. UNCHANGED <<pending_frames, wait_for_reply, at_close>>
  BY DEF closing
<1>2. ControlTyped'
  BY <1>1 DEF Typing, ControlTyped
<1>3. DriverTyped'
  BY DEF DriverTyped
<1>4. Phases'
  BY <1>1 DEF Typing, Phases
<1> QED
  BY <1>2, <1>3, <1>4 DEF Controls

LEMMA OnFrameTyped ==
  ASSUME Typing, NEW p \in Peer, NEW f \in Frames, conn[p] = "Active", OnFrame(p, f),
         UNCHANGED <<config, io>>
  PROVE  Controls'
<1>t. /\ awaited \in [Peer -> Nonce \cup {None}] /\ pings \in [Peer -> Nat]
      /\ pending_terminate \in [Peer -> {ProtocolError, None}]
      /\ terminating \in [Peer -> BOOLEAN]
      /\ pending_pong \in [Peer -> Nonce \cup {None}]
      /\ pending_write_frame \in [Peer -> Frames \cup {None}]
      /\ owed_close \in [Peer -> Frames \cup {None}]
  BY DEF Typing, DriverTyped, ControlTyped
<1>1. CASE Stay /\ UNCHANGED driver
  <2>1. /\ UNCHANGED <<conn, result, shut, gone, closing>>
        /\ UNCHANGED <<awaited, pings, pending_terminate, terminating, pending_pong,
                       pending_write_frame, owed_close>>
    BY <1>1 DEF Stay, driver
  <2> QED
    BY <1>t, <2>1, DrivenTyped
<1>2. CASE /\ OnData(p) /\ Stay
           /\ UNCHANGED <<awaited, pings, pending_pong, pending_write_frame, owed_close>>
  <2>1. UNCHANGED <<conn, result, shut, gone, closing>>
    BY <1>2 DEF Stay
  <2>2. /\ pending_terminate' \in [Peer -> {ProtocolError, None}]
        /\ terminating' \in [Peer -> BOOLEAN]
        /\ \A r \in Peer \ {p} : pending_terminate'[r] = pending_terminate[r]
    BY <1>2, <1>t DEF OnData
  <2> QED
    BY <1>2, <1>t, <2>1, <2>2, DrivenTyped
<1>3. CASE /\ f.tag = "Ping" /\ pending_pong' = [pending_pong EXCEPT ![p] = f.n] /\ Stay
           /\ UNCHANGED <<awaited, pings, pending_terminate, terminating, pending_write_frame,
                          owed_close>>
  <2>1. UNCHANGED <<conn, result, shut, gone, closing>>
    BY <1>3 DEF Stay
  <2>2. f.n \in Nonce
    BY <1>3, FrameTypes
  <2>3. /\ pending_pong' \in [Peer -> Nonce \cup {None}]
        /\ \A r \in Peer \ {p} : pending_pong'[r] = pending_pong[r]
    BY <1>3, <1>t, <2>2
  <2> QED
    BY <1>3, <1>t, <2>1, <2>3, DrivenTyped
<1>4. CASE /\ HandlePong(p, f.n) /\ Stay
           /\ UNCHANGED <<pings, pending_pong, pending_write_frame, owed_close>>
  <2>1. UNCHANGED <<conn, result, shut, gone, closing>>
    BY <1>4 DEF Stay
  <2>2. /\ pending_terminate' \in [Peer -> {ProtocolError, None}]
        /\ terminating' \in [Peer -> BOOLEAN]
        /\ awaited' \in [Peer -> Nonce \cup {None}]
        /\ \A r \in Peer \ {p} : /\ pending_terminate'[r] = pending_terminate[r]
                                 /\ awaited'[r] = awaited[r]
    BY <1>4, <1>t DEF HandlePong
  <2> QED
    BY <1>4, <1>t, <2>1, <2>2, DrivenTyped
<1>5. CASE PeerClosed(p) \/ StartCleanup(p, "error")
  BY <1>5, PeerClosedTyped, StartCleanupTyped DEF Controls
<1> QED
  BY Zenon, <1>1, <1>2, <1>3, <1>4, <1>5 DEF OnFrame

LEMMA ReadingTyped ==
  ASSUME Typing, NEW p \in Peer, ReadPiece(p) \/ ReadEnd(p)
  PROVE  Controls'
<1>1. UNCHANGED <<config, io>>
  BY DEF ReadPiece, ReadEnd
<1>2. CASE ReadPiece(p)
  <2>1. PICK c : /\ c = Head(wire[Other(p)])
                 /\ IF ~Whole(c) THEN Stay /\ UNCHANGED driver
                    ELSE IF conn[p] = "Active" THEN OnFrame(p, c.frame)
                    ELSE AwaitGoAway(p, c.frame)
                 /\ conn[p] \in {"Active", "WaitingForReply"} /\ wire[Other(p)] # <<>>
    BY Zenon, <1>2 DEF ReadPiece
  <2>2. c.frame \in Frames
    <3>1. wire[Other(p)] \in Seq(Piece)
      BY TwoPeers DEF Typing, SocketTyped
    <3> QED
      BY <2>1, <3>1, OfTail, PieceFields
  <2>3. CASE Stay /\ UNCHANGED driver
    <3>1. UNCHANGED <<config, conn, io, result, shut, gone, pending_frames, wait_for_reply,
                      at_close, awaited, pings, pending_terminate, terminating, pending_pong,
                      pending_write_frame, owed_close>>
      BY <1>1, <2>3 DEF Stay, driver, closing
    <3>2. ControlTyped'
      BY <3>1 DEF Typing, ControlTyped
    <3>3. DriverTyped' /\ Phases'
      BY <3>1 DEF Typing, DriverTyped, Phases
    <3> QED
      BY <3>2, <3>3 DEF Controls
  <2>4. CASE conn[p] = "Active" /\ OnFrame(p, c.frame)
    BY <1>1, <2>2, <2>4, OnFrameTyped
  <2>5. CASE conn[p] = "WaitingForReply" /\ AwaitGoAway(p, c.frame)
    <3>1. /\ conn' = [conn EXCEPT ![p] = "ClosingSocket"] \/ conn' = conn
          /\ UNCHANGED <<result, shut, gone, driver, closing>>
      BY <2>5 DEF AwaitGoAway
    <3>2. UNCHANGED <<pending_frames, wait_for_reply, at_close>>
      BY <3>1 DEF closing
    <3>3. conn' = conn => conn' = [conn EXCEPT ![p] = "WaitingForReply"]
      BY <2>5 DEF Typing, ControlTyped
    <3>4. /\ Phases' /\ DriverTyped' /\ terminating' = terminating
          /\ conn' \in [Peer -> State] /\ at_close' \in [Peer -> Nat \cup {None}]
      <4>1. \E x \in State : x # "Active" /\ conn' = [conn EXCEPT ![p] = x]
        BY <3>1, <3>3 DEF State
      <4> QED
        BY <2>5, <3>1, <3>2, <4>1, PhaseChangeTyped
    <3> QED
      BY <1>1, <3>1, <3>2, <3>4 DEF Typing, ControlTyped, Controls
  <2> QED
    BY <2>1, <2>3, <2>4, <2>5
<1>3. CASE ReadEnd(p)
  <2>1. CASE Fail(p) \/ PeerClosed(p)
    BY <1>1, <2>1, FailTyped, PeerClosedTyped
  <2>2. CASE /\ conn[p] = "WaitingForReply" /\ conn' = [conn EXCEPT ![p] = "ClosingSocket"]
             /\ UNCHANGED <<result, shut, gone, driver, closing>>
    <3>1. UNCHANGED <<pending_frames, wait_for_reply, at_close>>
      BY <2>2 DEF closing
    <3>2. /\ Phases' /\ DriverTyped' /\ terminating' = terminating
          /\ conn' \in [Peer -> State] /\ at_close' \in [Peer -> Nat \cup {None}]
      BY <2>2, <3>1, PhaseChangeTyped DEF State
    <3> QED
      BY <1>1, <2>2, <3>1, <3>2 DEF Typing, ControlTyped, Controls
  <2> QED
    BY <1>3, <2>1, <2>2 DEF ReadEnd
<1> QED
  BY <1>2, <1>3
LEMMA ControlsStep ==
  ASSUME Typing, NEW p \in Peer, Poll(p) \/ User(p)
  PROVE  Controls'
<1>t. /\ awaited \in [Peer -> Nonce \cup {None}] /\ pings \in [Peer -> Nat]
      /\ pending_terminate \in [Peer -> {ProtocolError, None}]
      /\ terminating \in [Peer -> BOOLEAN]
      /\ pending_pong \in [Peer -> Nonce \cup {None}]
      /\ pending_write_frame \in [Peer -> Frames \cup {None}]
      /\ owed_close \in [Peer -> Frames \cup {None}]
  BY DEF Typing, DriverTyped, ControlTyped
<1>1. CASE WritePiece(p) \/ BeginSend(p) \/ EndSend(p)
  <2>1. UNCHANGED <<config, conn, result, io, shut, gone, driver, closing>>
    <3>1. CASE WritePiece(p)
      BY <3>1 DEF WritePiece
    <3>2. CASE BeginSend(p) \/ EndSend(p)
      BY <3>2 DEF BeginSend, EndSend, socket
    <3> QED
      BY <1>1, <3>1, <3>2
  <2>2. UNCHANGED <<pending_frames, wait_for_reply, at_close, awaited, pings, pending_terminate,
                    terminating, pending_pong, pending_write_frame, owed_close>>
    BY <2>1 DEF driver, closing
  <2>3. ControlTyped' /\ DriverTyped'
    BY <2>1, <2>2 DEF Typing, ControlTyped, DriverTyped
  <2>4. Phases'
    BY <2>1, <2>2 DEF Typing, Phases
  <2> QED
    BY <2>3, <2>4 DEF Controls
<1>2. CASE SendPing(p)
  <2>1. /\ UNCHANGED <<config, conn, result, io, shut, gone, closing>> /\ conn[p] = "Active"
        /\ \E n \in Nonce : awaited' = [awaited EXCEPT ![p] = n]
        /\ pings' = [pings EXCEPT ![p] = @ + 1]
        /\ UNCHANGED <<pending_terminate, terminating, pending_pong, pending_write_frame,
                       owed_close>>
    BY <1>2 DEF SendPing, StartSend
  <2> QED
    BY <1>t, <2>1, DrivenTyped
<1>3. CASE SendPending(p)
  <2>1. UNCHANGED <<config, conn, result, io, shut, gone, closing>> /\ conn[p] = "Active"
    BY <1>3 DEF SendPending, StartSend
  <2>2. /\ UNCHANGED <<awaited, pings, terminating, owed_close>>
        /\ pending_terminate' \in {pending_terminate, [pending_terminate EXCEPT ![p] = None]}
        /\ pending_pong' \in {pending_pong, [pending_pong EXCEPT ![p] = None]}
        /\ pending_write_frame' \in {pending_write_frame,
                                     [pending_write_frame EXCEPT ![p] = None]}
    BY <1>3 DEF SendPending
  <2>3. /\ pending_terminate' \in [Peer -> {ProtocolError, None}]
        /\ pending_pong' \in [Peer -> Nonce \cup {None}]
        /\ pending_write_frame' \in [Peer -> Frames \cup {None}]
    BY <1>t, <2>2
  <2>4. \A r \in Peer \ {p} :
          /\ pending_terminate'[r] = pending_terminate[r] /\ pending_pong'[r] = pending_pong[r]
          /\ pending_write_frame'[r] = pending_write_frame[r]
    BY <1>t, <2>2
  <2> QED
    BY <1>t, <2>1, <2>2, <2>3, <2>4, DrivenTyped
<1>4. CASE TakeFrame(p) \/ DropStream(p)
  <2>t. chan[p] \in Seq(Frames) /\ accepted[p] \in Nat /\ Frame("Close", accepted[p] + 1) \in Frames
    BY FrameTypes DEF Typing, AppTyped
  <2>1. UNCHANGED <<config, conn, result, io, shut, gone, closing>> /\ conn[p] = "Active"
    BY <1>4 DEF TakeFrame, DropStream, socket
  <2>2. UNCHANGED <<awaited, pings, pending_terminate, terminating, pending_pong>>
    BY <1>4 DEF TakeFrame, DropStream
  <2>3. \E f, g \in Frames \cup {None} :
          /\ pending_write_frame' \in {pending_write_frame, [pending_write_frame EXCEPT ![p] = f]}
          /\ owed_close' \in {owed_close, [owed_close EXCEPT ![p] = g]}
    <3>1. CASE TakeFrame(p) /\ owed_close[p] # None
      BY <1>t, <3>1 DEF TakeFrame
    <3>2. CASE TakeFrame(p) /\ owed_close[p] = None
      <4>1. Head(chan[p]) \in Frames
        BY <2>t, <3>2, OfTail DEF TakeFrame
      <4> QED
        BY <3>2, <4>1 DEF TakeFrame
    <3>3. CASE DropStream(p)
      BY <2>t, <3>3 DEF DropStream
    <3> QED
      BY <1>4, <3>1, <3>2, <3>3
  <2>4. /\ pending_write_frame' \in [Peer -> Frames \cup {None}]
        /\ owed_close' \in [Peer -> Frames \cup {None}]
        /\ \A r \in Peer \ {p} : /\ pending_write_frame'[r] = pending_write_frame[r]
                                 /\ owed_close'[r] = owed_close[r]
    BY <1>t, <2>3
  <2> QED
    BY <1>t, <2>1, <2>2, <2>4, DrivenTyped
<1>5. CASE WriteFails(p)
  BY <1>5, FailTyped DEF WriteFails
<1>6. CASE ReadPiece(p) \/ ReadEnd(p)
  BY <1>6, ReadingTyped
<1>7. CASE Close(p)
  <2>1. config[p].close_sync \in BOOLEAN
    BY MuxClosingAssumption DEF Typing, ControlTyped
  <2>2. StartClosing(p, config[p].close_sync) /\ UNCHANGED <<config, io>>
    BY <1>7 DEF Close
  <2> QED
    BY <2>1, <2>2, StartClosingTyped DEF Controls
<1>8. CASE DropConnection(p)
  <2>1. /\ conn' = [conn EXCEPT ![p] = "Dropped"] /\ conn[p] # "Active"
        /\ shut' = [shut EXCEPT ![p] = TRUE] /\ gone' = [gone EXCEPT ![p] = TRUE]
        /\ LeaveActive(p) /\ UNCHANGED <<config, result, io, closing>>
    BY <1>8 DEF DropConnection
  <2>2. UNCHANGED <<pending_frames, wait_for_reply, at_close>>
    BY <2>1 DEF closing
  <2>3. DriverTyped' /\ terminating' = terminating
    BY <2>1, LeavingTyped DEF Typing
  <2>4. ControlTyped'
    BY <2>1, <2>2, <2>3 DEF Typing, ControlTyped, State
  <2>5. Phases'
    <3>1. /\ conn'[p] # "Active" /\ at_close' = at_close
          /\ \A r \in Peer \ {p} : conn'[r] = conn[r]
      BY <2>1, <2>2 DEF Typing, ControlTyped
    <3> QED
      BY <2>1, <2>2, <3>1, LeavingTyped DEF Typing, Phases
  <2> QED
    BY <2>3, <2>4, <2>5 DEF Controls
<1>9. CASE DrainCommand(p) \/ FlushFrame(p)
  <2>1. /\ UNCHANGED <<config, conn, result, io, shut, gone, driver, wait_for_reply, at_close>>
        /\ conn[p] # "Active"
    BY <1>9 DEF DrainCommand, FlushFrame, socket, StartSend
  <2>2. /\ pending_frames' \in [Peer -> Seq(Frames)]
        /\ \A r \in Peer \ {p} : pending_frames'[r] = pending_frames[r]
    <3>t. chan[p] \in Seq(Frames) /\ pending_frames \in [Peer -> Seq(Frames)]
          /\ pending_frames[p] \in Seq(Frames)
      BY DEF Typing, AppTyped, ControlTyped
    <3>1. CASE DrainCommand(p)
      <4>1. /\ chan[p] # <<>>
            /\ pending_frames' = [pending_frames EXCEPT ![p] = Append(@, Head(chan[p]))]
        BY <3>1 DEF DrainCommand
      <4>2. Append(pending_frames[p], Head(chan[p])) \in Seq(Frames)
        BY <3>t, <4>1, OfTail, OfAppend
      <4> QED
        BY <3>t, <4>1, <4>2
    <3>2. CASE FlushFrame(p)
      <4>1. /\ pending_frames[p] # <<>>
            /\ pending_frames' = [pending_frames EXCEPT ![p] = Tail(@)]
        BY <3>2 DEF FlushFrame
      <4>2. Tail(pending_frames[p]) \in Seq(Frames)
        BY <3>t, <4>1, OfTail
      <4> QED
        BY <3>t, <4>1, <4>2
    <3> QED
      BY <1>9, <3>1, <3>2
  <2>3. /\ UNCHANGED <<awaited, pings, pending_terminate, terminating, pending_pong,
                       pending_write_frame, owed_close>>
    BY <2>1 DEF driver
  <2>4. ControlTyped' /\ DriverTyped'
    BY <2>1, <2>2, <2>3 DEF Typing, ControlTyped, DriverTyped
  <2>5. Phases'
    BY <2>1, <2>2, <2>3 DEF Typing, Phases
  <2> QED
    BY <2>4, <2>5 DEF Controls
<1>10. CASE FinishDraining(p)
  <2>1. /\ conn' = [conn EXCEPT ![p] = "FlushingPendingFrames"] /\ conn[p] # "Active"
        /\ pending_frames' = [pending_frames EXCEPT ![p] = Append(@, Term)]
        /\ UNCHANGED <<config, result, io, shut, gone, driver, wait_for_reply, at_close>>
    BY <1>10 DEF FinishDraining, socket
  <2>2. Append(pending_frames[p], Term) \in Seq(Frames)
    BY FrameTypes, OfAppend DEF Typing, ControlTyped
  <2>3. /\ pending_frames' \in [Peer -> Seq(Frames)]
        /\ \A r \in Peer \ {p} : pending_frames'[r] = pending_frames[r]
    BY <2>1, <2>2 DEF Typing, ControlTyped
  <2>4. /\ Phases' /\ DriverTyped' /\ terminating' = terminating
        /\ conn' \in [Peer -> State] /\ at_close' \in [Peer -> Nat \cup {None}]
    BY <2>1, <2>3, PhaseChangeTyped DEF State
  <2> QED
    BY <2>1, <2>3, <2>4 DEF Typing, ControlTyped, Controls
<1>11. CASE FinishFlushing(p) \/ CloseSocket(p) \/ FinishCleanup(p)
  <2>1. /\ \E c \in State : c # "Active" /\ conn' = [conn EXCEPT ![p] = c]
        /\ conn[p] # "Active" /\ UNCHANGED <<config, gone, driver, closing>>
    BY <1>11 DEF FinishFlushing, CloseSocket, FinishCleanup, socket, State
  <2>2. UNCHANGED <<pending_frames, wait_for_reply, at_close>>
    BY <2>1 DEF closing
  <2>3. /\ Phases' /\ DriverTyped' /\ terminating' = terminating
        /\ conn' \in [Peer -> State] /\ at_close' \in [Peer -> Nat \cup {None}]
    BY <2>1, <2>2, PhaseChangeTyped
  <2>4. /\ shut' \in [Peer -> BOOLEAN] /\ result' \in [Peer -> {None, "ok", "error"}]
        /\ io' \in [Peer -> BOOLEAN]
    <3>1. config[p].close_sync \in BOOLEAN /\ config[p].keep_alive \in BOOLEAN
      BY MuxClosingAssumption DEF Typing, ControlTyped
    <3>2. CASE FinishFlushing(p) \/ FinishCleanup(p)
      BY <3>2 DEF FinishFlushing, FinishCleanup, socket, Typing, ControlTyped
    <3>3. CASE CloseSocket(p)
      BY <3>1, <3>3 DEF CloseSocket, Typing, ControlTyped
    <3> QED
      BY <1>11, <3>2, <3>3
  <2> QED
    BY <2>1, <2>2, <2>3, <2>4 DEF Typing, ControlTyped, Controls
<1> QED
  BY <1>1, <1>2, <1>3, <1>4, <1>5, <1>6, <1>7, <1>8, <1>9, <1>10, <1>11 DEF Poll, User

LEMMA StutterTyped ==
  ASSUME Typing, UNCHANGED vars
  PROVE  Typing'
<1>1. /\ UNCHANGED <<config, conn, result, io, chan, sending, accepted, writing, reading, wire,
                     shut, gone, seen, pending_frames, wait_for_reply, at_close>>
      /\ UNCHANGED <<awaited, pings, pending_terminate, terminating, pending_pong,
                     pending_write_frame, owed_close>>
  BY DEF vars, app, socket, driver, closing
<1>2. SocketTyped' /\ AppTyped'
  BY <1>1 DEF Typing, SocketTyped, AppTyped
<1>3. ControlTyped' /\ DriverTyped'
  BY <1>1 DEF Typing, ControlTyped, DriverTyped
<1>4. Phases'
  BY <1>1 DEF Typing, Phases
<1> QED
  BY <1>2, <1>3, <1>4 DEF Typing

LEMMA InitTyping == Init => Typing
<1> SUFFICES ASSUME Init PROVE Typing
  OBVIOUS
<1>1. \A S : <<>> \in Seq(S)
  OBVIOUS
<1>2. \A r \in Peer : 0 <= WireCap[r]
  BY MuxClosingAssumption
<1>3. SocketTyped
  BY <1>1, <1>2 DEF Init, SocketTyped
<1>4. AppTyped
  BY <1>1, MuxClosingAssumption DEF Init, AppTyped
<1>5. ControlTyped
  BY <1>1 DEF Init, ControlTyped, State
<1>6. DriverTyped
  BY DEF Init, DriverTyped
<1>7. Phases
  BY DEF Init, Phases
<1> QED
  BY <1>3, <1>4, <1>5, <1>6, <1>7 DEF Typing

LEMMA NextTyping == Typing /\ [Step]_vars => Typing'
<1>1. ASSUME Typing, NEW p \in Peer, Poll(p) \/ User(p) PROVE Typing'
  BY <1>1, SocketTypedStep, AppTypedStep, ControlsStep DEF Typing, Controls
<1> QED
  BY <1>1, StutterTyped DEF Step

LEMMA SpecTyping == Spec => []Typing
BY InitTyping, NextTyping, PTL DEF Spec

(* The variables of both connections have their types: among them, that no *)
(* channel holds more commands than it has room for, whatever the driver   *)
(* and the sender do between counting a command and linking it, and no      *)
(* socket more pieces.                                                     *)
THEOREM SpecTypeOK == Spec => []TypeOK
<1>1. Typing => TypeOK
  BY DEF Typing, SocketTyped, AppTyped, ControlTyped, DriverTyped, TypeOK
<1> QED
  BY <1>1, SpecTyping, PTL
-----------------------------------------------------------------------------
(* What a step of p leaves of the other peer.  Only the pieces under way    *)
(* from it may become fewer, by one p reads.                                *)
Local(r) ==
  <<conn[r], result[r], io[r], writing[r], reading[r], shut[r], gone[r], seen[r], awaited[r],
    pending_terminate[r], terminating[r], pending_pong[r], pending_write_frame[r], owed_close[r],
    pending_frames[r], wait_for_reply[r], chan[r], sending[r], accepted[r], at_close[r]>>

LEMMA LeavingLocal ==
  ASSUME Typing, NEW p \in Peer, NEW r \in Peer, r # p,
         \/ \E w \in BOOLEAN : StartClosing(p, w)
         \/ \E o \in {"ok", "error"} : StartCleanup(p, o)
         \/ PeerClosed(p) \/ Fail(p)
  PROVE  /\ UNCHANGED <<conn[r], result[r], shut[r], gone[r], pending_frames[r],
                        wait_for_reply[r], at_close[r]>>
         /\ UNCHANGED <<awaited[r], pending_terminate[r], pending_pong[r],
                        pending_write_frame[r], owed_close[r]>>
         /\ UNCHANGED terminating
<1>d. DriverTyped /\ ControlTyped
  BY DEF Typing
<1>1. ASSUME NEW w \in BOOLEAN, StartClosing(p, w)
      PROVE  /\ UNCHANGED <<conn[r], result[r], shut[r], gone[r], pending_frames[r],
                            wait_for_reply[r], at_close[r]>>
             /\ LeaveActive(p)
  BY <1>1, <1>d DEF StartClosing, ControlTyped
<1>2. ASSUME NEW o \in {"ok", "error"}, StartCleanup(p, o)
      PROVE  /\ UNCHANGED <<conn[r], result[r], shut[r], gone[r], pending_frames[r],
                            wait_for_reply[r], at_close[r]>>
             /\ LeaveActive(p)
  BY <1>2, <1>d DEF StartCleanup, ControlTyped
<1>3. CASE Fail(p) /\ conn[p] # "Active"
  BY <1>3, <1>d DEF Fail, ControlTyped, driver, closing
<1>4. LeaveActive(p) => /\ UNCHANGED <<awaited[r], pending_terminate[r], pending_pong[r],
                                       pending_write_frame[r], owed_close[r]>>
                        /\ UNCHANGED terminating
  BY <1>d, LeavingTyped
<1>5. Fail(p) /\ conn[p] = "Active" => StartCleanup(p, "error")
  BY DEF Fail
<1>6. PeerClosed(p) => StartClosing(p, FALSE) \/ StartCleanup(p, "ok")
  BY DEF PeerClosed
<1> QED
  BY <1>1, <1>2, <1>3, <1>4, <1>5, <1>6

LEMMA FrameLocal ==
  ASSUME Typing, NEW p \in Peer, NEW r \in Peer, r # p, NEW f, OnFrame(p, f)
  PROVE  /\ UNCHANGED <<conn[r], result[r], shut[r], gone[r], pending_frames[r],
                        wait_for_reply[r], at_close[r]>>
         /\ UNCHANGED <<awaited[r], pending_terminate[r], terminating[r], pending_pong[r],
                        pending_write_frame[r], owed_close[r]>>
<1>d. DriverTyped /\ ControlTyped
  BY DEF Typing
<1>1. CASE Stay
  <2>1. UNCHANGED <<conn[r], result[r], shut[r], gone[r], pending_frames[r], wait_for_reply[r],
                    at_close[r]>>
    BY <1>1 DEF Stay, closing
  <2>2. \/ UNCHANGED driver
        \/ OnData(p) /\ UNCHANGED <<awaited, pending_pong, pending_write_frame, owed_close>>
        \/ /\ pending_pong' = [pending_pong EXCEPT ![p] = f.n]
           /\ UNCHANGED <<awaited, pending_terminate, terminating, pending_write_frame,
                          owed_close>>
        \/ HandlePong(p, f.n) /\ UNCHANGED <<pending_pong, pending_write_frame, owed_close>>
        \/ PeerClosed(p) \/ StartCleanup(p, "error")
    BY DEF OnFrame
  <2>3. CASE UNCHANGED driver
    BY <2>1, <2>3 DEF driver
  <2>4. CASE OnData(p) /\ UNCHANGED <<awaited, pending_pong, pending_write_frame, owed_close>>
    <3>1. pending_terminate'[r] = pending_terminate[r] /\ terminating'[r] = terminating[r]
      BY <1>d, <2>4 DEF OnData, DriverTyped, ControlTyped
    <3> QED
      BY <2>1, <2>4, <3>1
  <2>5. CASE /\ pending_pong' = [pending_pong EXCEPT ![p] = f.n]
             /\ UNCHANGED <<awaited, pending_terminate, terminating, pending_write_frame,
                            owed_close>>
    BY <1>d, <2>1, <2>5 DEF DriverTyped
  <2>6. CASE HandlePong(p, f.n) /\ UNCHANGED <<pending_pong, pending_write_frame, owed_close>>
    <3>1. /\ pending_terminate'[r] = pending_terminate[r] /\ terminating'[r] = terminating[r]
          /\ awaited'[r] = awaited[r]
      BY <1>d, <2>6 DEF HandlePong, DriverTyped, ControlTyped
    <3> QED
      BY <2>1, <2>6, <3>1
  <2>7. CASE PeerClosed(p) \/ StartCleanup(p, "error")
    BY <2>7, LeavingLocal
  <2> QED
    BY <2>2, <2>3, <2>4, <2>5, <2>6, <2>7
<1>2. CASE PeerClosed(p) \/ StartCleanup(p, "error")
  BY <1>2, LeavingLocal
<1> QED
  BY Zenon, <1>1, <1>2 DEF OnFrame

LEMMA OtherLocal ==
  ASSUME Typing, NEW p \in Peer, NEW r \in Peer, r # p, Poll(p) \/ User(p)
  PROVE  Local(r)' = Local(r)
<1>d. SocketTyped /\ AppTyped /\ DriverTyped /\ ControlTyped
  BY DEF Typing
<1>1. UNCHANGED <<writing[r], reading[r], seen[r]>>
  <2>1. CASE WritePiece(p)
    BY <1>d, <2>1 DEF WritePiece, SocketTyped
  <2>2. CASE \E f \in Frames : Sent(p, f)
    BY <1>d, <2>2 DEF Sent, StartSend, SocketTyped
  <2>3. CASE ReadPiece(p)
    BY <1>d, <2>3 DEF ReadPiece, SocketTyped
  <2>4. CASE UNCHANGED <<writing, reading, wire, seen>>
    BY <2>4
  <2> QED
    BY <2>1, <2>2, <2>3, <2>4, SocketKept, SendsOne DEF Poll
<1>2. UNCHANGED <<chan[r], sending[r], accepted[r]>>
  <2>1. CASE BeginSend(p) \/ EndSend(p) \/ DropStream(p)
    BY <1>d, <2>1 DEF BeginSend, EndSend, DropStream, AppTyped
  <2>2. CASE TakeFrame(p) \/ DrainCommand(p) \/ FinishCleanup(p)
    BY <1>d, <2>2 DEF TakeFrame, DrainCommand, FinishCleanup, AppTyped
  <2>3. CASE UNCHANGED <<chan, sending, accepted>>
    BY <2>3
  <2> QED
    BY <2>1, <2>2, <2>3, AppKept DEF Poll, User
<1> DEFINE Kept == /\ UNCHANGED <<conn[r], result[r], io[r], shut[r], gone[r],
                                  pending_frames[r], wait_for_reply[r], at_close[r]>>
                   /\ UNCHANGED <<awaited[r], pending_terminate[r], terminating[r],
                                  pending_pong[r], pending_write_frame[r], owed_close[r]>>
<1>3. Kept
  <2>1. CASE WritePiece(p) \/ BeginSend(p) \/ EndSend(p) \/ DropStream(p)
    BY <1>d, <2>1 DEF WritePiece, BeginSend, EndSend, DropStream, DriverTyped, socket, driver,
                      closing
  <2>2. CASE SendPing(p) \/ SendPending(p) \/ TakeFrame(p)
    BY <1>d, <2>2 DEF SendPing, SendPending, TakeFrame, StartSend, DriverTyped, socket, closing
  <2>3. CASE WriteFails(p)
    <3>1. Fail(p) /\ UNCHANGED io
      BY <2>3 DEF WriteFails
    <3> QED
      BY <3>1, LeavingLocal
  <2>4. CASE ReadPiece(p)
    <3>1. PICK f : /\ \/ Stay /\ UNCHANGED driver
                      \/ OnFrame(p, f) \/ AwaitGoAway(p, f)
                   /\ UNCHANGED io
      BY Zenon, <2>4 DEF ReadPiece
    <3>2. CASE Stay /\ UNCHANGED driver
      BY <3>1, <3>2 DEF Stay, driver, closing
    <3>3. CASE OnFrame(p, f)
      BY <3>1, <3>3, FrameLocal
    <3>4. CASE AwaitGoAway(p, f)
      BY <1>d, <3>1, <3>4 DEF AwaitGoAway, driver, closing, ControlTyped
    <3> QED
      BY <3>1, <3>2, <3>3, <3>4
  <2>5. CASE ReadEnd(p)
    <3>1. /\ \/ Fail(p) \/ PeerClosed(p)
             \/ /\ conn' = [conn EXCEPT ![p] = "ClosingSocket"]
                /\ UNCHANGED <<result, shut, gone, driver, closing>>
          /\ UNCHANGED io
      BY <2>5 DEF ReadEnd
    <3>2. CASE Fail(p) \/ PeerClosed(p)
      BY <3>1, <3>2, LeavingLocal
    <3>3. CASE /\ conn' = [conn EXCEPT ![p] = "ClosingSocket"]
               /\ UNCHANGED <<result, shut, gone, driver, closing>>
      BY <1>d, <3>1, <3>3 DEF driver, closing, ControlTyped
    <3> QED
      BY <3>1, <3>2, <3>3
  <2>6. CASE DrainCommand(p) \/ FinishDraining(p) \/ FlushFrame(p)
    BY <1>d, <2>6 DEF DrainCommand, FinishDraining, FlushFrame, StartSend, ControlTyped, socket,
                      driver
  <2>7. CASE FinishFlushing(p) \/ CloseSocket(p) \/ FinishCleanup(p)
    BY <1>d, <2>7 DEF FinishFlushing, CloseSocket, FinishCleanup, ControlTyped, socket, driver,
                      closing
  <2>8. CASE Close(p)
    <3>1. config[p].close_sync \in BOOLEAN
      BY <1>d, MuxClosingAssumption DEF ControlTyped
    <3>2. StartClosing(p, config[p].close_sync) /\ UNCHANGED io
      BY <2>8 DEF Close
    <3> QED
      BY <3>1, <3>2, LeavingLocal
  <2>9. CASE DropConnection(p)
    <3>1. /\ LeaveActive(p) /\ UNCHANGED <<result, io, closing>>
          /\ conn' = [conn EXCEPT ![p] = "Dropped"]
          /\ shut' = [shut EXCEPT ![p] = TRUE] /\ gone' = [gone EXCEPT ![p] = TRUE]
      BY <2>9 DEF DropConnection
    <3>2. /\ UNCHANGED <<awaited[r], pending_terminate[r], pending_pong[r],
                         pending_write_frame[r], owed_close[r]>>
          /\ UNCHANGED terminating
      BY <1>d, <3>1, LeavingTyped
    <3> QED
      BY <1>d, <3>1, <3>2 DEF ControlTyped, closing
  <2> QED
    BY Zenon, <2>1, <2>2, <2>3, <2>4, <2>5, <2>6, <2>7, <2>8, <2>9 DEF Poll, User
<1> QED
  BY <1>1, <1>2, <1>3 DEF Local
-----------------------------------------------------------------------------
(* The line of a peer: a step appends a frame to it or leaves it alone.     *)
LEMMA LineTyped ==
  ASSUME Typing, NEW r \in Peer
  PROVE  /\ wire[r] \in Seq(Piece) /\ writing[r] \in Seq(Piece) /\ seen[r] \in Seq(Piece)
         /\ UnderWay(r) \in Seq(Piece) /\ Line(r) \in Seq(Piece)
         /\ seen[Other(r)] \in Seq(Piece)
<1>1. /\ wire[r] \in Seq(Piece) /\ writing[r] \in Seq(Piece) /\ seen[r] \in Seq(Piece)
      /\ seen[Other(r)] \in Seq(Piece)
  BY TwoPeers DEF Typing, SocketTyped
<1>2. UnderWay(r) \in Seq(Piece)
  BY <1>1, ConcatProperties DEF UnderWay
<1>3. Line(r) \in Seq(Piece)
  BY <1>1, <1>2, ConcatProperties DEF Line
<1> QED
  BY <1>1, <1>2, <1>3

LEMMA SocketKeptLine ==
  ASSUME UNCHANGED <<writing, wire, seen>>
  PROVE  \A r \in Peer : UnderWay(r)' = UnderWay(r) /\ Line(r)' = Line(r)
BY DEF UnderWay, Line

LEMMA WriteLine ==
  ASSUME Typing, NEW p \in Peer, WritePiece(p)
  PROVE  \A r \in Peer : UnderWay(r)' = UnderWay(r) /\ Line(r)' = Line(r)
<1>1. /\ wire[p] \in Seq(Piece) /\ writing[p] \in Seq(Piece) /\ writing[p] # <<>>
      /\ wire' = [wire EXCEPT ![p] = Append(@, Head(writing[p]))]
      /\ writing' = [writing EXCEPT ![p] = Tail(@)]
      /\ seen' = seen
  BY LineTyped DEF WritePiece, Ready
<1>2. Append(wire[p], Head(writing[p])) \o Tail(writing[p]) = wire[p] \o writing[p]
  <2>1. wire[p] \in Seq(Piece) /\ writing[p] \in Seq(Piece) /\ writing[p] # <<>>
    BY <1>1
  <2>2. \A s, t \in Seq(Piece) : t # <<>> => Append(s, Head(t)) \o Tail(t) = s \o t
    BY MoveHead
  <2> QED
    BY Zenon, <2>1, <2>2
<1>3. /\ wire'[p] = Append(wire[p], Head(writing[p])) /\ writing'[p] = Tail(writing[p])
      /\ \A r \in Peer \ {p} : wire'[r] = wire[r] /\ writing'[r] = writing[r]
  BY <1>1 DEF Typing, SocketTyped
<1>4. \A r \in Peer : UnderWay(r)' = UnderWay(r)
  BY <1>2, <1>3 DEF UnderWay
<1> QED
  BY <1>1, <1>4 DEF Line

LEMMA SendLine ==
  ASSUME Typing, NEW p \in Peer, NEW f \in Frames, Sent(p, f)
  PROVE  /\ UnderWay(p)' = UnderWay(p) \o Pieces(f) /\ Line(p)' = Line(p) \o Pieces(f)
         /\ writing'[p] = Pieces(f)
         /\ \A r \in Peer \ {p} : UnderWay(r)' = UnderWay(r) /\ Line(r)' = Line(r)
         /\ UNCHANGED <<seen, reading>>
<1>1. /\ wire[p] \in Seq(Piece) /\ writing[p] = <<>> /\ seen[Other(p)] \in Seq(Piece)
      /\ writing' = [writing EXCEPT ![p] = Pieces(f)] /\ UNCHANGED <<wire, seen, reading>>
      /\ Pieces(f) \in Seq(Piece)
  BY LineTyped, PiecesOf DEF Sent, StartSend, Ready
<1>2. /\ writing'[p] = Pieces(f) /\ \A r \in Peer \ {p} : writing'[r] = writing[r]
  BY <1>1 DEF Typing, SocketTyped
<1>3. UnderWay(p) = wire[p]
  BY <1>1, ConcatEmptySeq DEF UnderWay
<1>4. UnderWay(p)' = UnderWay(p) \o Pieces(f)
  BY <1>1, <1>2, <1>3 DEF UnderWay
<1>5. Line(p)' = Line(p) \o Pieces(f)
  <2>1. Line(p)' = seen[Other(p)] \o (wire[p] \o Pieces(f))
    BY <1>1, <1>3, <1>4 DEF Line
  <2>2. Line(p) = seen[Other(p)] \o wire[p]
    BY <1>3 DEF Line
  <2>3. wire[p] \in Seq(Piece) /\ seen[Other(p)] \in Seq(Piece) /\ Pieces(f) \in Seq(Piece)
    BY <1>1
  <2>4. (seen[Other(p)] \o wire[p]) \o Pieces(f) = seen[Other(p)] \o (wire[p] \o Pieces(f))
    <3>1. \A r, s, t \in Seq(Piece) : (r \o s) \o t = r \o (s \o t)
      BY ThreeInARow
    <3> QED
      BY Zenon, <2>3, <3>1
  <2> QED
    BY <2>1, <2>2, <2>4
<1>6. \A r \in Peer \ {p} : UnderWay(r)' = UnderWay(r)
  BY <1>1, <1>2 DEF UnderWay
<1> QED
  BY <1>1, <1>2, <1>4, <1>5, <1>6 DEF Line

LEMMA ReadLine ==
  ASSUME Typing, NEW p \in Peer, ReadPiece(p)
  PROVE  /\ UnderWay(Other(p)) # <<>> /\ wire[Other(p)] # <<>>
         /\ Head(UnderWay(Other(p))) = Head(wire[Other(p)])
         /\ Head(wire[Other(p)]) \in Piece
         /\ UnderWay(Other(p))' = Tail(UnderWay(Other(p)))
         /\ UnderWay(p)' = UnderWay(p)
         /\ seen'[p] = Append(seen[p], Head(wire[Other(p)])) /\ seen'[Other(p)] = seen[Other(p)]
         /\ \A r \in Peer : Line(r)' = Line(r)
         /\ writing' = writing
<1> DEFINE q == Other(p)
           c == Head(wire[q])
<1>1. q \in Peer /\ q # p /\ Other(q) = p /\ \A r \in Peer : r = p \/ r = q
  BY TwoPeers
<1>2. /\ wire[q] # <<>> /\ wire' = [wire EXCEPT ![q] = Tail(@)]
      /\ seen' = [seen EXCEPT ![p] = Append(@, c)] /\ writing' = writing
  BY DEF ReadPiece
<1> HIDE DEF q
<1>3. /\ wire[q] \in Seq(Piece) /\ writing[q] \in Seq(Piece) /\ seen[p] \in Seq(Piece)
  BY <1>1, LineTyped
<1>4. /\ UnderWay(q) # <<>> /\ Head(UnderWay(q)) = c /\ c \in Piece
      /\ UnderWay(q) \in Seq(Piece) /\ Tail(UnderWay(q)) = Tail(wire[q]) \o writing[q]
  <2>1. wire[q] \in Seq(Piece) /\ writing[q] \in Seq(Piece) /\ wire[q] # <<>>
    BY <1>2, <1>3
  <2>2. /\ Tail(wire[q] \o writing[q]) = Tail(wire[q]) \o writing[q]
        /\ Head(wire[q] \o writing[q]) = Head(wire[q]) /\ wire[q] \o writing[q] # <<>>
        /\ Head(wire[q]) \in Piece /\ wire[q] \o writing[q] \in Seq(Piece)
    <3>1. \A s, t \in Seq(Piece) : s # <<>> =>
            /\ Tail(s \o t) = Tail(s) \o t /\ Head(s \o t) = Head(s) /\ s \o t # <<>>
            /\ Head(s) \in Piece /\ s \o t \in Seq(Piece)
      BY TailOfConcat
    <3> QED
      BY Zenon, <2>1, <3>1
  <2> QED
    BY <2>2 DEF UnderWay
<1>5. /\ wire'[q] = Tail(wire[q]) /\ wire'[p] = wire[p]
      /\ seen'[p] = Append(seen[p], c) /\ seen'[q] = seen[q]
  BY <1>1, <1>2 DEF Typing, SocketTyped
<1>6. UnderWay(q)' = Tail(UnderWay(q)) /\ UnderWay(p)' = UnderWay(p)
  BY <1>2, <1>4, <1>5 DEF UnderWay
<1>7. Line(p)' = Line(p)
  BY <1>5, <1>6 DEF Line, q
<1>8. Line(q)' = Line(q)
  <2>1. Append(seen[p], c) \o Tail(UnderWay(q)) = seen[p] \o UnderWay(q)
    BY <1>3, <1>4, MoveHead
  <2> QED
    BY <1>1, <1>5, <1>6, <2>1 DEF Line
<1> QED
  BY <1>1, <1>2, <1>4, <1>5, <1>6, <1>7, <1>8 DEF q

LEMMA LineSteps ==
  ASSUME Typing, NEW p \in Peer, Poll(p) \/ User(p)
  PROVE  /\ \A r \in Peer \ {p} : Line(r)' = Line(r)
         /\ \/ Line(p)' = Line(p)
            \/ \E f \in Frames : Sent(p, f)
<1>1. CASE WritePiece(p)
  BY <1>1, WriteLine
<1>2. CASE \E f \in Frames : Sent(p, f)
  BY <1>2, SendLine
<1>3. CASE ReadPiece(p)
  BY <1>3, ReadLine
<1>4. CASE UNCHANGED <<writing, wire, seen>>
  BY <1>4, SocketKeptLine
<1> QED
  BY <1>1, <1>2, <1>3, <1>4, SocketKept, SendsOne DEF Poll

(* What one more frame on a line, or one more piece read, says of Term. *)
LEMMA SaidAppends ==
  ASSUME Typing, NEW p \in Peer, NEW f \in Frames, Sent(p, f)
  PROVE  /\ f # Term /\ NoTermIn(Line(p)) => NoTermIn(Line(p))'
         /\ f = Term /\ NoTermIn(Line(p)) => Said(p)' /\ TermLast(p)'
         /\ NoTermIn(Line(p)) <=> ~Said(p)
         /\ NoTermIn(Line(p)) => TermLast(p)
         /\ NoTermIn(Line(p))' => ~Said(p)' /\ TermLast(p)'
<1> DEFINE s == Line(p)
           t == Line(p) \o Pieces(f)
<1>1. s \in Seq(Piece) /\ Pieces(f) \in Seq(Piece) /\ Len(Pieces(f)) = Size(f) /\ Size(f) \in {1, 2}
  BY LineTyped, PiecesOf
<1>2. Line(p)' = t
  BY SendLine
<1>3. /\ Len(s) \in Nat /\ Len(t) = Len(s) + Size(f)
      /\ \A k \in 1 .. Len(s) : t[k] = s[k]
      /\ \A k \in Len(s) + 1 .. Len(s) + Size(f) : t[k] = Pieces(f)[k - Len(s)]
  BY <1>1, OfConcat
<1>4. \A k \in Len(s) + 1 .. Len(s) + Size(f) : t[k].frame = f
  <2> SUFFICES ASSUME NEW k \in Len(s) + 1 .. Len(s) + Size(f) PROVE t[k].frame = f
    OBVIOUS
  <2>1. PICK e \in 1 .. Size(f) : t[k] = Pieces(f)[e]
    BY <1>1, <1>3
  <2>2. Pieces(f)[e] = [frame |-> f, k |-> e]
    BY PiecesOf
  <2> QED
    BY <2>1, <2>2
<1>5. f = Term => Size(f) = 1
  BY FrameTypes DEF Size
<1> HIDE DEF s, t
<1>6. \A k \in 1 .. Len(t) : k \in 1 .. Len(s) \/ k \in Len(s) + 1 .. Len(s) + Size(f)
  BY <1>1, <1>3
<1>7. f # Term /\ NoTermIn(s) => NoTermIn(t)
  BY <1>3, <1>4, <1>6 DEF NoTermIn
<1>8. ASSUME f = Term, NoTermIn(s)
      PROVE  /\ \E k \in 1 .. Len(t) : t[k].frame = Term
             /\ \A k \in 1 .. Len(t) : t[k].frame = Term => k = Len(t)
  <2>1. Len(t) = Len(s) + 1 /\ Len(t) \in Len(s) + 1 .. Len(s) + Size(f) /\ Len(t) \in 1 .. Len(t)
    BY <1>3, <1>5, <1>8
  <2>2. t[Len(t)].frame = Term
    BY <1>4, <1>8, <2>1
  <2>3. \A k \in 1 .. Len(t) : k = Len(t) \/ k \in 1 .. Len(s)
    BY <1>3, <2>1
  <2> QED
    BY <1>3, <1>8, <2>1, <2>2, <2>3 DEF NoTermIn
<1> QED
  BY <1>2, <1>7, <1>8 DEF Said, TermLast, NoTermIn, s
-----------------------------------------------------------------------------
(* The accounts of a peer: the numbers on its line and in its queue.        *)
LEMMA AccountedKept ==
  ASSUME NEW r \in Peer, Accounted(r), Line(r)' = Line(r),
         UNCHANGED <<conn[r], pending_frames[r], pending_write_frame[r], owed_close[r], chan[r],
                     sending[r], accepted[r], at_close[r]>>
  PROVE  Accounted(r)'
<1>1. Queue(r)' = Queue(r)
  BY DEF Queue, Staged
<1>2. PICK c \in Nat : Ledger(r, c)
  BY DEF Accounted
<1>3. Ledger(r, c)'
  <2>1. LineRun(Line(r), c)' /\ Unsaid(r, c)'
    BY <1>1, <1>2 DEF Ledger, Unsaid
  <2>2. Said(r)' = Said(r) /\ TermLast(r)' = TermLast(r) /\ NoTermIn(Line(r))' = NoTermIn(Line(r))
    BY DEF Said, TermLast, NoTermIn
  <2>3. Saying(r, c)' /\ Closed(r, c)'
    BY <1>2, <2>2 DEF Ledger, Saying, Closed
  <2> QED
    BY <2>1, <2>3 DEF Ledger
<1>4. Sends(r)'
  BY DEF Accounted, Sends
<1> QED
  BY <1>3, <1>4 DEF Accounted

LEMMA TermOnLine ==
  ASSUME NEW r
  PROVE  /\ NoTermIn(Line(r)) <=> ~Said(r)
         /\ NoTermIn(Line(r)) => TermLast(r)
BY DEF NoTermIn, Said, TermLast

(* The queue while the connection is active, and after. *)
LEMMA QueueOf ==
  ASSUME Typing, NEW p \in Peer
  PROVE  /\ Queue(p) \in Seq(Frames) /\ chan[p] \in Seq(Frames) /\ pending_frames[p] \in Seq(Frames)
         /\ conn[p] = "Active" => Queue(p) = Staged(p) \o chan[p]
         /\ conn[p] # "Active" => Queue(p) = pending_frames[p] \o chan[p]
<1>1. /\ Queue(p) \in Seq(Frames) /\ Staged(p) \in Seq(Frames) /\ chan[p] \in Seq(Frames)
      /\ pending_frames[p] \in Seq(Frames)
  BY StagedFrames DEF Typing, AppTyped, ControlTyped
<1>2. \A s \in Seq(Frames) : <<>> \o s = s /\ s \o <<>> = s
  BY ConcatEmptySeq
<1>3. Staged(p) \o chan[p] \in Seq(Frames)
  BY <1>1, ConcatProperties
<1>4. CASE conn[p] = "Active"
  <2>1. pending_frames[p] = <<>>
    BY <1>4 DEF Typing, Phases
  <2> QED
    BY <1>1, <1>2, <1>3, <1>4, <2>1 DEF Queue
<1>5. CASE conn[p] # "Active"
  <2>1. Some(pending_write_frame[p]) = <<>> /\ Some(owed_close[p]) = <<>>
    BY <1>5 DEF Typing, Phases, Some
  <2>2. Staged(p) = <<>> \o <<>>
    BY <2>1 DEF Staged
  <2>3. Staged(p) = <<>>
    BY <2>2
  <2> QED
    BY <1>1, <1>2, <1>5, <2>3 DEF Queue
<1> QED
  BY <1>1, <1>4, <1>5

(* Other frames may precede those of the stream. *)
LEMMA RunAhead ==
  ASSUME NEW s \in Seq(Frames), NEW a, NEW b, NEW f \in Frames \cup {None},
         f # None => ~OfStream(f) /\ f # Term, Run(s, a, b), NoTerm(s)
  PROVE  Run(Some(f) \o s, a, b) /\ NoTerm(Some(f) \o s) /\ Some(f) \o s \in Seq(Frames)
<1>1. CASE f = None
  <2>1. Some(f) \o s = s
    BY <1>1, ConcatEmptySeq DEF Some
  <2> QED
    BY <2>1
<1>2. CASE f # None
  <2>1. Some(f) = <<f>> /\ f \in Frames
    BY <1>2 DEF Some
  <2>2. Run(<<f>> \o s, a, b)
    BY <1>2, <2>1, RunCons
  <2>3. NoTerm(<<f>> \o s) /\ <<f>> \o s \in Seq(Frames)
    <3>1. /\ <<f>> \o s \in Seq(Frames) /\ Len(<<f>> \o s) = Len(s) + 1 /\ Len(s) \in Nat
          /\ (<<f>> \o s)[1] = f /\ \A k \in 2 .. Len(s) + 1 : (<<f>> \o s)[k] = s[k - 1]
      BY <2>1, OneAhead
    <3>2. \A k \in 1 .. Len(s) + 1 : k = 1 \/ (k \in 2 .. Len(s) + 1 /\ k - 1 \in 1 .. Len(s))
      BY <3>1
    <3> QED
      BY <1>2, <3>1, <3>2 DEF NoTerm
  <2> QED
    BY <2>1, <2>2, <2>3
<1> QED
  BY <1>1, <1>2

LEMMA ClosingAccounts ==
  ASSUME Typing, NEW p \in Peer, NEW w \in BOOLEAN, conn[p] = "Active", Accounted(p),
         StartClosing(p, w), Line(p)' = Line(p), UNCHANGED <<chan, sending, accepted>>
  PROVE  Accounted(p)'
<1>1. /\ conn'[p] = "DrainingStreamReceiver" /\ at_close'[p] = accepted[p]
      /\ pending_frames'[p] = TakePendingFrames(p)
      /\ pending_write_frame'[p] = None /\ owed_close'[p] = None
  BY LeavingTyped DEF StartClosing, Typing, ControlTyped
<1>2. PICK c \in Nat : Ledger(p, c)
  BY DEF Accounted
<1>3. /\ NoTermIn(Line(p)) /\ NoTerm(Queue(p)) /\ Run(Queue(p), c, accepted[p])
      /\ LineRun(Line(p), c) /\ accepted[p] \in Nat
  BY <1>2 DEF Ledger, Unsaid, Typing, AppTyped
<1> DEFINE pong == PendingPong(p)
           t == pending_terminate[p]
           g == Staged(p)
           h == chan[p]
           r == TakePendingFrames(p)
<1>4. /\ pong \in Frames \cup {None} /\ (pong # None => ~OfStream(pong) /\ pong # Term)
      /\ t \in Frames \cup {None} /\ (t # None => ~OfStream(t) /\ t # Term)
  <2>1. pong \in Frames \cup {None} /\ t \in Frames \cup {None} /\ t \in {ProtocolError, None}
    BY StagedFrames DEF Typing
  <2>2. pong # None => pong.tag = "Pong"
    BY FrameTypes DEF PendingPong
  <2>3. \A f : f.tag \in {"Pong", "GoAway"} => ~OfStream(f)
    BY DEF OfStream
  <2>4. Term.tag = "GoAway" /\ ProtocolError.tag = "GoAway" /\ Term # ProtocolError
    BY FrameTypes
  <2> HIDE DEF pong, t
  <2>5. pong # None => ~OfStream(pong) /\ pong # Term
    BY <2>2, <2>3, <2>4
  <2>6. t # None => ~OfStream(t) /\ t # Term
    BY <2>1, <2>3, <2>4
  <2> QED
    BY <2>1, <2>5, <2>6
<1>5. /\ g \in Seq(Frames) /\ h \in Seq(Frames) /\ r = Some(t) \o (Some(pong) \o g)
      /\ Some(t) \in Seq(Frames) /\ Some(pong) \in Seq(Frames) /\ r \in Seq(Frames)
      /\ Queue(p) = g \o h /\ g \o h \in Seq(Frames)
  BY <1>4, StagedFrames, QueueOf DEF Typing
<1>6. Queue(p)' = r \o h
  <2>1. /\ Some(pending_write_frame[p])' = <<>> /\ Some(owed_close[p])' = <<>>
        /\ pending_frames'[p] = r /\ chan'[p] = h
    BY <1>1 DEF Some
  <2>2. Staged(p)' = <<>> \o <<>>
    BY <2>1 DEF Staged
  <2>3. Queue(p)' = r \o (<<>> \o h)
    BY <2>1, <2>2 DEF Queue
  <2>4. <<>> \o h = h
    BY <1>5, ConcatEmptySeq
  <2> QED
    BY <2>3, <2>4
<1> HIDE DEF pong, t, g, h, r
<1>7. r \o h = Some(t) \o (Some(pong) \o (g \o h))
  <2> DEFINE Cat(x, y) == x \o y
             Q == Seq(Frames)
  <2>1. /\ \A x, y, z \in Q : Cat(Cat(x, y), z) = Cat(x, Cat(y, z))
        /\ \A y, z \in Q : Cat(y, z) \in Q
    BY ThreeInARow
  <2>2. /\ Some(t) \in Q /\ Some(pong) \in Q /\ g \in Q /\ h \in Q
        /\ r = Cat(Some(t), Cat(Some(pong), g))
    BY <1>5
  <2> HIDE DEF Cat, Q
  <2>3. Cat(r, h) = Cat(Some(t), Cat(Some(pong), Cat(g, h)))
    BY <2>1, <2>2
  <2> QED
    BY <2>3 DEF Cat
<1> DEFINE u == g \o h
<1>8. u \in Seq(Frames) /\ Run(u, c, accepted[p]) /\ NoTerm(u)
  BY <1>3, <1>5
<1> HIDE DEF u
<1>9. /\ Run(Some(pong) \o u, c, accepted[p]) /\ NoTerm(Some(pong) \o u)
      /\ Some(pong) \o u \in Seq(Frames)
  BY <1>4, <1>8, RunAhead
<1>10. Run(Some(t) \o (Some(pong) \o u), c, accepted[p]) /\ NoTerm(Some(t) \o (Some(pong) \o u))
  BY <1>4, <1>9, RunAhead
<1>11. Run(Queue(p)', c, accepted[p]) /\ NoTerm(Queue(p)')
  BY <1>6, <1>7, <1>10 DEF u
<1>12. Ledger(p, c)'
  <2>1. Unsaid(p, c)'
    BY <1>1, <1>3, <1>11 DEF Unsaid
  <2>2. Saying(p, c)' /\ LineRun(Line(p), c)'
    BY <1>1, <1>3 DEF Saying
  <2>3. Closed(p, c)'
    <3>1. ~Said(p) /\ TermLast(p)
      BY <1>3, TermOnLine
    <3>2. ~Said(p)' /\ TermLast(p)'
      BY <3>1 DEF Said, TermLast
    <3> QED
      BY <3>2 DEF Closed
  <2> QED
    BY <2>1, <2>2, <2>3 DEF Ledger
<1>13. Sends(p)'
  BY <1>1 DEF Accounted, Sends
<1> QED
  BY <1>12, <1>13 DEF Accounted
(* The connection of p is past its flushing, or cut off from it. *)
LEMMA OffAccounts ==
  ASSUME Typing, NEW p \in Peer, conn[p] # "Active", Accounted(p),
         conn'[p] \notin {"Active", "DrainingStreamReceiver", "FlushingPendingFrames"},
         pending_write_frame'[p] = None, owed_close'[p] = None,
         chan'[p] \in {chan[p], <<>>},
         Line(p)' = Line(p), UNCHANGED <<at_close[p], sending[p], accepted[p]>>
  PROVE  Accounted(p)'
<1>1. PICK c \in Nat : Ledger(p, c)
  BY DEF Accounted
<1>2. Ledger(p, c)'
  <2>1. Said(p)' = Said(p) /\ TermLast(p)' = TermLast(p)
    BY DEF Said, TermLast
  <2>2. Unsaid(p, c)' /\ Saying(p, c)'
    BY DEF Unsaid, Saying
  <2>3. Closed(p, c)' /\ LineRun(Line(p), c)'
    BY <1>1, <2>1 DEF Ledger, Closed
  <2> QED
    BY <2>2, <2>3 DEF Ledger
<1>3. Sends(p)'
  <2>1. sending'[p] # None => sending'[p] = Frame("Data", accepted'[p] + 1)
    BY DEF Accounted, Sends
  <2>2. \A k \in 1 .. Len(chan'[p]) : OfStream(chan'[p][k])
    <3>1. CASE chan'[p] = chan[p]
      BY <3>1 DEF Accounted, Sends
    <3>2. CASE chan'[p] = <<>>
      BY <3>2
    <3> QED
      BY <3>1, <3>2
  <2> QED
    BY <2>1, <2>2 DEF Sends
<1> QED
  BY <1>2, <1>3 DEF Accounted

LEMMA CleanupAccounts ==
  ASSUME Typing, NEW p \in Peer, NEW o, conn[p] = "Active", Accounted(p),
         StartCleanup(p, o), Line(p)' = Line(p), UNCHANGED <<chan, sending, accepted>>
  PROVE  Accounted(p)'
<1>1. conn'[p] = "Cleanup" /\ pending_write_frame'[p] = None /\ owed_close'[p] = None
  BY LeavingTyped DEF StartCleanup, Typing, ControlTyped
<1>2. PICK c \in Nat : Ledger(p, c)
  BY DEF Accounted
<1>3. Ledger(p, c)'
  <2>1. NoTermIn(Line(p)) /\ LineRun(Line(p), c)
    BY <1>2 DEF Ledger, Unsaid
  <2>2. ~Said(p)' /\ TermLast(p)'
    BY <2>1, TermOnLine DEF Said, TermLast
  <2>3. Unsaid(p, c)' /\ Saying(p, c)' /\ Closed(p, c)'
    BY <1>1, <2>2 DEF Unsaid, Saying, Closed
  <2> QED
    BY <2>1, <2>3 DEF Ledger
<1>4. Sends(p)'
  BY <1>1 DEF Accounted, Sends
<1> QED
  BY <1>3, <1>4 DEF Accounted

LEMMA FailAccounts ==
  ASSUME Typing, NEW p \in Peer, Accounted(p), Fail(p), Line(p)' = Line(p),
         UNCHANGED <<chan, sending, accepted>>
  PROVE  Accounted(p)'
<1>1. CASE conn[p] = "Active"
  BY <1>1, CleanupAccounts DEF Fail
<1>2. CASE conn[p] # "Active"
  <2>1. /\ conn'[p] = "Closed" /\ at_close' = at_close
        /\ pending_write_frame' = pending_write_frame /\ owed_close' = owed_close
    BY <1>2 DEF Fail, Typing, ControlTyped, driver, closing
  <2>2. pending_write_frame[p] = None /\ owed_close[p] = None
    BY <1>2 DEF Typing, Phases
  <2> QED
    BY <1>2, <2>1, <2>2, OffAccounts
<1> QED
  BY <1>1, <1>2

LEMMA PeerClosedAccounts ==
  ASSUME Typing, NEW p \in Peer, conn[p] = "Active", Accounted(p), PeerClosed(p),
         Line(p)' = Line(p), UNCHANGED <<chan, sending, accepted>>
  PROVE  Accounted(p)'
BY ClosingAccounts, CleanupAccounts DEF PeerClosed

LEMMA ReadingAccounts ==
  ASSUME Typing, NEW p \in Peer, Accounted(p), ReadPiece(p) \/ ReadEnd(p)
  PROVE  Accounted(p)'
<1>1. Line(p)' = Line(p) /\ UNCHANGED <<chan, sending, accepted>>
  BY ReadLine, SocketKept, SocketKeptLine, AppKept
<1>2. CASE Stay /\ UNCHANGED <<pending_write_frame, owed_close>>
  <2>1. UNCHANGED <<conn, pending_frames, at_close>>
    BY <1>2 DEF Stay, closing
  <2> QED
    BY <1>1, <1>2, <2>1, AccountedKept
<1>3. CASE conn[p] = "Active" /\ (PeerClosed(p) \/ StartCleanup(p, "error"))
  BY <1>1, <1>3, PeerClosedAccounts, CleanupAccounts
<1>4. CASE Fail(p)
  BY <1>1, <1>4, FailAccounts
<1>5. CASE /\ conn[p] = "WaitingForReply" /\ conn' = [conn EXCEPT ![p] = "ClosingSocket"]
           /\ UNCHANGED <<driver, closing>>
  <2>1. /\ conn'[p] = "ClosingSocket" /\ at_close' = at_close
        /\ pending_write_frame' = pending_write_frame /\ owed_close' = owed_close
    BY <1>5 DEF Typing, ControlTyped, driver, closing
  <2>2. pending_write_frame[p] = None /\ owed_close[p] = None
    BY <1>5 DEF Typing, Phases
  <2> QED
    BY <1>1, <1>5, <2>1, <2>2, OffAccounts
<1>6. CASE /\ conn' = conn /\ UNCHANGED <<driver, closing>>
  BY <1>1, <1>6, AccountedKept DEF driver, closing
<1>7. CASE ReadPiece(p)
  <2>1. PICK f : \/ Stay /\ UNCHANGED driver
                 \/ conn[p] = "Active" /\ OnFrame(p, f)
                 \/ conn[p] = "WaitingForReply" /\ AwaitGoAway(p, f)
    BY Zenon, <1>7 DEF ReadPiece
  <2>2. CASE Stay /\ UNCHANGED driver
    BY <1>2, <2>2 DEF driver
  <2>3. CASE conn[p] = "Active" /\ OnFrame(p, f)
    <3>1. \/ Stay /\ UNCHANGED driver
          \/ Stay /\ UNCHANGED <<pending_write_frame, owed_close>>
          \/ PeerClosed(p) \/ StartCleanup(p, "error")
      BY <2>3 DEF OnFrame
    <3> QED
      BY <1>2, <1>3, <2>2, <2>3, <3>1
  <2>4. CASE conn[p] = "WaitingForReply" /\ AwaitGoAway(p, f)
    BY <1>5, <1>6, <2>4 DEF AwaitGoAway
  <2> QED
    BY <2>1, <2>2, <2>3, <2>4
<1>8. CASE ReadEnd(p)
  <2>1. \/ Fail(p) \/ (conn[p] = "Active" /\ PeerClosed(p))
        \/ /\ conn[p] = "WaitingForReply" /\ conn' = [conn EXCEPT ![p] = "ClosingSocket"]
           /\ UNCHANGED <<driver, closing>>
    BY <1>8 DEF ReadEnd
  <2> QED
    BY <1>3, <1>4, <1>5, <2>1
<1> QED
  BY <1>7, <1>8

(* The frame p sends next is the next of the stream, or none of it. *)
LEMMA LedgerSends ==
  ASSUME Typing, NEW p \in Peer, NEW f \in Frames, NEW c \in Nat, Sent(p, f),
         LineRun(Line(p), c), NoTermIn(Line(p)), f # Term
  PROVE  /\ NoTermIn(Line(p))' /\ ~Said(p)' /\ TermLast(p)'
         /\ ~OfStream(f) => LineRun(Line(p), c)'
         /\ OfStream(f) /\ f.n = c + 1 => LineRun(Line(p), c + 1)'
<1>1. Line(p)' = Line(p) \o Pieces(f) /\ Line(p) \in Seq(Piece)
  BY SendLine, LineTyped
<1>2. NoTermIn(Line(p))' /\ ~Said(p)' /\ TermLast(p)'
  BY SaidAppends
<1>3. /\ ~OfStream(f) => LineRun(Line(p) \o Pieces(f), c)
      /\ OfStream(f) /\ f.n = c + 1 => LineRun(Line(p) \o Pieces(f), c + 1)
  BY <1>1, LineRunSends
<1> QED
  BY <1>1, <1>2, <1>3
LEMMA SendingAccounts ==
  ASSUME Typing, NEW p \in Peer, Accounted(p), SendPing(p) \/ SendPending(p)
  PROVE  Accounted(p)'
<1>1. /\ conn[p] = "Active" /\ UNCHANGED <<conn, pending_frames, at_close, chan, sending, accepted,
                                          owed_close>>
      /\ Ready(p)
  BY DEF SendPing, SendPending, closing, app
<1>2. PICK c \in Nat : Ledger(p, c)
  BY DEF Accounted
<1>3. /\ LineRun(Line(p), c) /\ NoTermIn(Line(p)) /\ NoTerm(Queue(p))
      /\ Run(Queue(p), c, accepted[p]) /\ accepted[p] \in Nat
  BY <1>1, <1>2 DEF Ledger, Unsaid, Typing, AppTyped
<1>4. CASE \E f \in Frames : /\ ~OfStream(f) /\ f # Term /\ Sent(p, f)
                             /\ pending_write_frame' = pending_write_frame
  <2>1. PICK f \in Frames : /\ ~OfStream(f) /\ f # Term /\ Sent(p, f)
                            /\ pending_write_frame' = pending_write_frame
    BY <1>4
  <2>2. NoTermIn(Line(p))' /\ ~Said(p)' /\ TermLast(p)' /\ LineRun(Line(p), c)'
    BY <1>3, <2>1, LedgerSends
  <2>3. Queue(p)' = Queue(p)
    BY <1>1, <2>1 DEF Queue, Staged
  <2>4. Ledger(p, c)'
    BY <1>1, <1>3, <2>2, <2>3 DEF Ledger, Unsaid, Saying, Closed
  <2>5. Sends(p)'
    BY <1>1, <2>1 DEF Accounted, Sends
  <2> QED
    BY <2>4, <2>5 DEF Accounted
<1>5. CASE /\ pending_write_frame[p] # None /\ Sent(p, pending_write_frame[p])
           /\ pending_write_frame' = [pending_write_frame EXCEPT ![p] = None]
  <2>1. PICK f \in Frames : /\ f = pending_write_frame[p] /\ OfStream(f)
                            /\ Some(pending_write_frame[p]) = <<f>>
    <3>1. pending_write_frame[p] \in Frames
      BY <1>5 DEF Typing, DriverTyped
    <3> QED
      BY <1>5, <3>1 DEF Accounted, Sends, Some
  <2>2. PICK s \in Seq(Frames) : s = Some(owed_close[p]) \o chan[p]
    BY StagedFrames, QueueOf, ConcatProperties DEF Typing
  <2>3. Queue(p) = <<f>> \o s /\ Queue(p)' = s
    <3>1. /\ Some(owed_close[p]) \in Seq(Frames) /\ chan[p] \in Seq(Frames) /\ <<f>> \in Seq(Frames)
          /\ Queue(p) = Staged(p) \o chan[p] /\ Staged(p) = <<f>> \o Some(owed_close[p])
      BY <1>1, <2>1, StagedFrames, QueueOf DEF Typing, Staged
    <3>2. Queue(p) = <<f>> \o s
      <4> DEFINE Cat(x, y) == x \o y
                 Q == Seq(Frames)
                 a == <<f>>
      <4>1. \A x, y, z \in Q : Cat(Cat(x, y), z) = Cat(x, Cat(y, z))
        BY ThreeInARow
      <4>2. /\ a \in Q /\ Some(owed_close[p]) \in Q /\ chan[p] \in Q
            /\ Queue(p) = Cat(Cat(a, Some(owed_close[p])), chan[p])
            /\ s = Cat(Some(owed_close[p]), chan[p])
        BY <2>2, <3>1
      <4> HIDE DEF Cat, Q, a
      <4>3. Queue(p) = Cat(a, s)
        BY <4>1, <4>2
      <4> QED
        BY <4>3 DEF Cat, a
    <3>3. Queue(p)' = s
      <4>1. pending_frames'[p] = <<>> /\ Some(pending_write_frame[p])' = <<>>
        BY <1>1, <1>5 DEF Typing, DriverTyped, Phases, Some
      <4>2. Queue(p)' = <<>> \o ((<<>> \o Some(owed_close[p])) \o chan[p])
        BY <1>1, <4>1 DEF Queue, Staged, Some
      <4>3. <<>> \o Some(owed_close[p]) = Some(owed_close[p]) /\ <<>> \o s = s
        BY <2>2, <3>1, ConcatEmptySeq
      <4> QED
        BY <2>2, <4>2, <4>3
    <3> QED
      BY <3>2, <3>3
  <2>4. Head(Queue(p)) = f /\ Tail(Queue(p)) = s /\ Queue(p) # <<>> /\ Queue(p) \in Seq(Frames)
    BY <2>3, OneAhead
  <2>5. f.n = c + 1 /\ Run(s, c + 1, accepted[p])
    BY <1>3, <2>1, <2>4, RunTail
  <2>6. NoTerm(s)
    <3>1. \A k \in 1 .. Len(s) : Queue(p)[k + 1] = s[k] /\ k + 1 \in 1 .. Len(Queue(p))
      BY <2>3, OneAhead
    <3> QED
      BY <1>3, <3>1 DEF NoTerm
  <2>7. NoTermIn(Line(p))' /\ ~Said(p)' /\ TermLast(p)' /\ LineRun(Line(p), c + 1)'
    <3>1. f # Term
      BY <2>1, FrameTypes DEF OfStream
    <3> QED
      BY <1>3, <1>5, <2>1, <2>5, <3>1, LedgerSends
  <2>8. Ledger(p, c + 1)'
    BY <1>1, <2>3, <2>5, <2>6, <2>7 DEF Ledger, Unsaid, Saying, Closed
  <2>9. Sends(p)'
    <3>1. pending_write_frame'[p] = None
      BY <1>5 DEF Typing, DriverTyped
    <3> QED
      BY <1>1, <3>1 DEF Accounted, Sends
  <2> QED
    BY <2>8, <2>9 DEF Accounted
<1>6. CASE SendPing(p)
  <2>1. PICK n \in Nonce : Sent(p, Frame("Ping", n)) /\ pending_write_frame' = pending_write_frame
    BY <1>6 DEF SendPing, Sent
  <2>2. /\ Frame("Ping", n) \in Frames /\ ~OfStream(Frame("Ping", n)) /\ Frame("Ping", n) # Term
    BY FrameTypes DEF OfStream
  <2> QED
    BY <1>4, <2>1, <2>2
<1>7. CASE SendPending(p)
  <2>1. CASE pending_terminate[p] # None /\ Sent(p, pending_terminate[p])
             /\ pending_write_frame' = pending_write_frame
    <3>1. pending_terminate[p] = ProtocolError
      BY <2>1 DEF Typing, DriverTyped
    <3>2. ProtocolError \in Frames /\ ~OfStream(ProtocolError) /\ ProtocolError # Term
      BY FrameTypes DEF OfStream
    <3> QED
      BY <1>4, <2>1, <3>1, <3>2
  <2>2. CASE pending_pong[p] # None /\ Sent(p, Frame("Pong", pending_pong[p]))
             /\ pending_write_frame' = pending_write_frame
    <3>1. pending_pong[p] \in Nonce
      BY <2>2 DEF Typing, DriverTyped
    <3>2. /\ Frame("Pong", pending_pong[p]) \in Frames /\ Frame("Pong", pending_pong[p]) # Term
          /\ ~OfStream(Frame("Pong", pending_pong[p]))
      BY <3>1, FrameTypes DEF OfStream
    <3> QED
      BY <1>4, <2>2, <3>2
  <2> QED
    BY <1>5, <1>7, <2>1, <2>2 DEF SendPending, Sent
<1> QED
  BY <1>6, <1>7

LEMMA CommandAccounts ==
  ASSUME Typing, NEW p \in Peer, Accounted(p), BeginSend(p) \/ EndSend(p) \/ DropStream(p)
  PROVE  Accounted(p)'
<1>1. UNCHANGED <<conn, pending_frames, pending_write_frame, at_close>> /\ Line(p)' = Line(p)
  <2>1. UNCHANGED <<conn, pending_frames, pending_write_frame, at_close>>
    BY DEF BeginSend, EndSend, DropStream, driver, closing
  <2> QED
    BY <2>1, SocketKept, SocketKeptLine DEF User
<1>2. PICK c \in Nat : Ledger(p, c)
  BY DEF Accounted
<1>t. /\ chan[p] \in Seq(Frames) /\ Staged(p) \in Seq(Frames) /\ pending_frames[p] \in Seq(Frames)
      /\ Queue(p) \in Seq(Frames) /\ accepted[p] \in Nat
  BY StagedFrames, QueueOf DEF Typing, AppTyped
<1>l. /\ LineRun(Line(p), c)' /\ Saying(p, c)' /\ Closed(p, c)'
  BY <1>1, <1>2 DEF Ledger, Saying, Closed, Said, TermLast, NoTermIn
<1>s. /\ sending[p] # None => sending[p] = Frame("Data", accepted[p] + 1)
      /\ owed_close[p] # None =>
           /\ chan[p] = <<>> /\ sending[p] = None /\ accepted[p] > MaxSent[p]
           /\ OfStream(owed_close[p])
      /\ pending_write_frame[p] # None => OfStream(pending_write_frame[p])
      /\ \A k \in 1 .. Len(chan[p]) : OfStream(chan[p][k])
  BY DEF Accounted, Sends
(* One more frame in the queue. *)
<1>q. ASSUME NEW f \in Frames, OfStream(f), f.n = accepted[p] + 1, accepted'[p] = accepted[p] + 1,
             Queue(p)' = Append(Queue(p), f)
      PROVE  Ledger(p, c)'
  <2>1. ASSUME conn[p] \in {"Active", "DrainingStreamReceiver"} PROVE Unsaid(p, c)'
    <3>1. /\ NoTermIn(Line(p)) /\ NoTerm(Queue(p)) /\ Run(Queue(p), c, accepted[p])
          /\ conn[p] # "Active" => at_close[p] <= accepted[p]
      BY <1>2, <2>1 DEF Ledger, Unsaid
    <3>2. Run(Queue(p)', c, accepted'[p])
      BY <1>t, <1>q, <3>1, RunAppend
    <3>3. NoTerm(Queue(p)')
      <4>1. f # Term
        BY <1>q, FrameTypes DEF OfStream
      <4>2. PICK s \in Seq(Frames) : s = Queue(p)
        BY <1>t
      <4>3. NoTerm(Append(s, f))
        <5>1. /\ Len(Append(s, f)) = Len(s) + 1 /\ Len(s) \in Nat /\ Append(s, f)[Len(s) + 1] = f
              /\ \A k \in 1 .. Len(s) : Append(s, f)[k] = s[k]
          BY OfAppend
        <5>2. \A k \in 1 .. Len(s) + 1 : k \in 1 .. Len(s) \/ k = Len(s) + 1
          BY <5>1
        <5> QED
          BY <3>1, <4>1, <4>2, <5>1, <5>2 DEF NoTerm
      <4> QED
        BY <1>q, <4>2, <4>3
    <3>4. conn[p] # "Active" => at_close[p] \in Nat
      BY DEF Typing, Phases
    <3>5. conn'[p] # "Active" => at_close'[p] <= accepted'[p]
      BY <1>1, <1>t, <1>q, <3>1, <3>4
    <3> QED
      BY <1>1, <3>1, <3>2, <3>3, <3>5 DEF Unsaid
  <2>2. conn[p] \notin {"Active", "DrainingStreamReceiver"} => Unsaid(p, c)'
    BY <1>1 DEF Unsaid
  <2> QED
    BY <1>l, <2>1, <2>2 DEF Ledger
<1>3. CASE BeginSend(p)
  <2>1. /\ sending'[p] = Frame("Data", accepted[p] + 1) /\ owed_close[p] = None
        /\ UNCHANGED <<chan, accepted, owed_close>>
    BY <1>3 DEF BeginSend, Typing, AppTyped, driver
  <2>2. Queue(p)' = Queue(p)
    BY <1>1, <2>1 DEF Queue, Staged
  <2>3. Ledger(p, c)'
    BY <1>1, <1>2, <1>l, <2>1, <2>2 DEF Ledger, Unsaid
  <2>4. Sends(p)'
    BY <1>1, <1>s, <2>1 DEF Sends
  <2> QED
    BY <2>3, <2>4 DEF Accounted
<1>4. CASE EndSend(p)
  <2>1. /\ sending[p] # None /\ chan'[p] = Append(chan[p], sending[p])
        /\ accepted'[p] = accepted[p] + 1 /\ sending'[p] = None /\ owed_close' = owed_close
    BY <1>4 DEF EndSend, Typing, AppTyped, driver
  <2>2. PICK f \in Frames : f = sending[p]
    BY <2>1 DEF Typing, AppTyped
  <2>3. OfStream(f) /\ f.n = accepted[p] + 1
    BY <1>s, <2>1, <2>2, FrameTypes DEF OfStream
  <2>4. Queue(p)' = Append(Queue(p), f)
    <3> DEFINE Cat(x, y) == x \o y
               Add(x) == Append(x, f)
               Q == Seq(Frames)
               a == <<f>>
    <3>1. \A x, y, z \in Q : Cat(Cat(x, y), z) = Cat(x, Cat(y, z))
      BY ThreeInARow
    <3>2. \A x \in Q : Add(x) = Cat(x, a)
      BY AppendIsConcat
    <3>3. /\ a \in Q /\ chan[p] \in Q /\ Staged(p) \in Q /\ pending_frames[p] \in Q /\ Queue(p) \in Q
          /\ Queue(p) = Cat(pending_frames[p], Cat(Staged(p), chan[p]))
          /\ Queue(p)' = Cat(pending_frames[p], Cat(Staged(p), Add(chan[p])))
      <4>1. Staged(p)' = Staged(p)
        BY <1>1, <2>1 DEF Staged
      <4> QED
        BY <1>1, <1>t, <2>1, <2>2, <4>1 DEF Queue
    <3>c. Cat(Staged(p), chan[p]) \in Q
      BY <3>3, ConcatProperties
    <3> HIDE DEF Cat, Q, a, Add
    <3>4. Queue(p)' = Add(Queue(p))
      BY <3>1, <3>2, <3>3, <3>c
    <3> QED
      BY <3>4 DEF Add
  <2>5. Ledger(p, c)'
    BY <1>q, <2>1, <2>3, <2>4
  <2>6. Sends(p)'
    <3>1. owed_close'[p] = None
      BY <1>s, <2>1
    <3>2. \A k \in 1 .. Len(chan'[p]) : OfStream(chan'[p][k])
      <4>1. /\ Len(Append(chan[p], f)) = Len(chan[p]) + 1 /\ Len(chan[p]) \in Nat
            /\ Append(chan[p], f)[Len(chan[p]) + 1] = f
            /\ \A k \in 1 .. Len(chan[p]) : Append(chan[p], f)[k] = chan[p][k]
        BY <1>t, OfAppend
      <4>2. \A k \in 1 .. Len(chan[p]) + 1 : k \in 1 .. Len(chan[p]) \/ k = Len(chan[p]) + 1
        BY <4>1
      <4>3. chan'[p] = Append(chan[p], f)
        BY <2>1, <2>2
      <4> QED
        BY <1>s, <2>3, <4>1, <4>2, <4>3
    <3> QED
      BY <1>1, <1>s, <2>1, <3>1, <3>2 DEF Sends
  <2> QED
    BY <2>5, <2>6 DEF Accounted
<1>5. CASE DropStream(p)
  <2>1. /\ conn[p] = "Active" /\ sending[p] = None /\ chan[p] = <<>> /\ accepted[p] = MaxSent[p]
        /\ owed_close'[p] = Frame("Close", accepted[p] + 1)
        /\ accepted'[p] = accepted[p] + 1 /\ UNCHANGED <<chan, sending>>
    BY <1>5 DEF DropStream, Typing, AppTyped, DriverTyped
  <2>2. owed_close[p] = None
    BY <1>s, <1>t, <2>1
  <2>3. PICK f \in Frames : /\ f = Frame("Close", accepted[p] + 1) /\ f # None
                            /\ OfStream(f) /\ f.n = accepted[p] + 1
    BY <1>t, FrameTypes DEF OfStream
  <2>4. Queue(p)' = Append(Queue(p), f)
    <3>1. pending_frames[p] = <<>>
      BY <2>1 DEF Typing, Phases
    <3>2. PICK w \in Seq(Frames) : w = Some(pending_write_frame[p])
      BY StagedFrames DEF Typing
    <3>3. /\ Queue(p) = <<>> \o ((w \o <<>>) \o <<>>)
          /\ Queue(p)' = <<>> \o ((w \o <<f>>) \o <<>>)
      BY <1>1, <2>1, <2>2, <2>3, <3>1, <3>2 DEF Queue, Staged, Some
    <3>4. w \o <<f>> \in Seq(Frames) /\ Append(w, f) = w \o <<f>>
      BY AppendIsConcat, ConcatProperties
    <3>5. \A s \in Seq(Frames) : <<>> \o s = s /\ s \o <<>> = s
      BY ConcatEmptySeq
    <3> QED
      BY <3>3, <3>4, <3>5
  <2>5. Ledger(p, c)'
    BY <1>q, <2>1, <2>3, <2>4
  <2>6. Sends(p)'
    <3>1. accepted'[p] > MaxSent[p]
      BY <1>t, <2>1
    <3> QED
      BY <1>1, <1>s, <2>1, <2>3, <3>1 DEF Sends
  <2> QED
    BY <2>5, <2>6 DEF Accounted
<1> QED
  BY <1>3, <1>4, <1>5
LEMMA TakingAccounts ==
  ASSUME Typing, NEW p \in Peer, Accounted(p), TakeFrame(p) \/ DrainCommand(p)
  PROVE  Accounted(p)'
<1>1. UNCHANGED <<conn, at_close, sending, accepted>> /\ Line(p)' = Line(p)
  <2>1. UNCHANGED <<conn, at_close, sending, accepted>>
    BY DEF TakeFrame, DrainCommand, closing
  <2> QED
    BY <2>1, SocketKept, SocketKeptLine
<1>2. PICK c \in Nat : Ledger(p, c)
  BY DEF Accounted
<1>t. /\ chan[p] \in Seq(Frames) /\ pending_frames[p] \in Seq(Frames)
      /\ \A f \in Frames \cup {None} : Some(f) \in Seq(Frames)
      /\ pending_write_frame[p] \in Frames \cup {None} /\ owed_close[p] \in Frames \cup {None}
      /\ \A s \in Seq(Frames) : <<>> \o s = s /\ s \o <<>> = s
  BY StagedFrames, QueueOf, ConcatEmptySeq DEF Typing
<1>s. /\ sending[p] # None => sending[p] = Frame("Data", accepted[p] + 1)
      /\ owed_close[p] # None =>
           /\ chan[p] = <<>> /\ sending[p] = None /\ accepted[p] > MaxSent[p]
           /\ OfStream(owed_close[p])
      /\ pending_write_frame[p] # None => OfStream(pending_write_frame[p])
      /\ \A k \in 1 .. Len(chan[p]) : OfStream(chan[p][k])
  BY DEF Accounted, Sends
<1>u. chan[p] # <<>> =>
        /\ Tail(chan[p]) \in Seq(Frames) /\ Head(chan[p]) \in Frames /\ OfStream(Head(chan[p]))
        /\ <<Head(chan[p])>> \o Tail(chan[p]) = chan[p]
        /\ \A k \in 1 .. Len(Tail(chan[p])) : OfStream(Tail(chan[p])[k])
  <2> SUFFICES ASSUME chan[p] # <<>>
               PROVE  /\ Tail(chan[p]) \in Seq(Frames) /\ Head(chan[p]) \in Frames
                      /\ OfStream(Head(chan[p]))
                      /\ <<Head(chan[p])>> \o Tail(chan[p]) = chan[p]
                      /\ \A k \in 1 .. Len(Tail(chan[p])) : OfStream(Tail(chan[p])[k])
    OBVIOUS
  <2>1. PICK s \in Seq(Frames) : s = chan[p]
    BY <1>t
  <2>2. s # <<>> /\ \A k \in 1 .. Len(s) : OfStream(s[k])
    BY <1>s, <2>1
  <2>3. /\ Tail(s) \in Seq(Frames) /\ Head(s) \in Frames /\ Head(s) = s[1] /\ Len(s) \in Nat
        /\ Len(s) > 0 /\ Len(Tail(s)) = Len(s) - 1
        /\ \A k \in 1 .. Len(s) - 1 : Tail(s)[k] = s[k + 1]
    BY <2>2, OfTail
  <2>4. <<Head(s)>> \o Tail(s) = s
    BY <2>2, MoveHead
  <2>5. OfStream(Head(s))
    BY <2>2, <2>3
  <2>6. \A k \in 1 .. Len(Tail(s)) : OfStream(Tail(s)[k])
    BY <2>2, <2>3
  <2> QED
    BY <2>1, <2>3, <2>4, <2>5, <2>6
<1>3. ASSUME Queue(p)' = Queue(p) PROVE Ledger(p, c)'
  <2>1. Unsaid(p, c)' /\ LineRun(Line(p), c)'
    BY <1>1, <1>2, <1>3 DEF Ledger, Unsaid
  <2>2. conn[p] # "FlushingPendingFrames"
    BY DEF TakeFrame, DrainCommand
  <2>3. Saying(p, c)' /\ Closed(p, c)'
    BY <1>1, <1>2, <2>2 DEF Ledger, Saying, Closed, Said, TermLast
  <2> QED
    BY <2>1, <2>3 DEF Ledger
<1>4. CASE TakeFrame(p)
  <2>1. conn[p] = "Active" /\ pending_write_frame[p] = None /\ pending_frames' = pending_frames
    BY <1>4 DEF TakeFrame, closing
  <2>2. pending_frames[p] = <<>> /\ Some(pending_write_frame[p]) = <<>>
    BY <2>1 DEF Typing, Phases, Some
  <2>3. CASE owed_close[p] # None
    <3>1. PICK f \in Frames : f = owed_close[p] /\ f # None
      BY <1>t, <2>3
    <3>2. /\ pending_write_frame'[p] = f /\ owed_close'[p] = None /\ chan' = chan
      BY <1>4, <2>3, <3>1 DEF TakeFrame, Typing, DriverTyped
    <3>3. /\ Queue(p) = <<>> \o ((<<>> \o <<f>>) \o chan[p])
          /\ Queue(p)' = <<>> \o ((<<f>> \o <<>>) \o chan[p])
      BY <2>1, <2>2, <3>1, <3>2 DEF Queue, Staged, Some
    <3>4. Queue(p)' = Queue(p)
      <4>1. <<f>> \in Seq(Frames)
        OBVIOUS
      <4>2. <<>> \o <<f>> = <<f>> /\ <<f>> \o <<>> = <<f>>
        BY <1>t, <4>1
      <4> QED
        BY <3>3, <4>2
    <3>5. OfStream(f)
      BY <1>s, <3>1
    <3>6. Sends(p)'
      BY <1>1, <1>s, <3>2, <3>5 DEF Sends
    <3> QED
      BY <1>3, <3>4, <3>6 DEF Accounted
  <2>4. CASE owed_close[p] = None
    <3>1. chan[p] # <<>>
      BY <1>4, <2>4 DEF TakeFrame
    <3>2. PICK f \in Frames, s \in Seq(Frames) :
            /\ f = Head(chan[p]) /\ s = Tail(chan[p]) /\ OfStream(f) /\ <<f>> \o s = chan[p]
            /\ \A k \in 1 .. Len(s) : OfStream(s[k])
      BY <1>u, <3>1
    <3>3. /\ pending_write_frame'[p] = f /\ owed_close' = owed_close /\ chan'[p] = s
      BY <1>4, <2>4, <3>2 DEF TakeFrame, Typing, DriverTyped, AppTyped
    <3>4. f # None
      BY FrameTypes
    <3>5. /\ Queue(p) = <<>> \o ((<<>> \o <<>>) \o chan[p])
          /\ Queue(p)' = <<>> \o ((<<f>> \o <<>>) \o s)
      BY <2>1, <2>2, <2>4, <3>3, <3>4 DEF Queue, Staged, Some
    <3>6. Queue(p)' = Queue(p)
      <4>1. <<f>> \in Seq(Frames) /\ <<>> \in Seq(Frames)
        OBVIOUS
      <4>2. <<>> \o <<>> = <<>> /\ <<f>> \o <<>> = <<f>> /\ <<>> \o chan[p] = chan[p]
        BY <1>t, <4>1
      <4> QED
        BY <3>2, <3>5, <4>2
    <3>7. Sends(p)'
      BY <1>1, <1>s, <2>4, <3>2, <3>3 DEF Sends
    <3> QED
      BY <1>3, <3>6, <3>7 DEF Accounted
  <2> QED
    BY <2>3, <2>4
<1>5. CASE DrainCommand(p)
  <2>1. /\ conn[p] = "DrainingStreamReceiver" /\ chan[p] # <<>>
        /\ pending_frames'[p] = Append(pending_frames[p], Head(chan[p]))
        /\ chan'[p] = Tail(chan[p]) /\ UNCHANGED <<pending_write_frame, owed_close>>
    BY <1>5 DEF DrainCommand, Typing, ControlTyped, AppTyped, driver
  <2>2. /\ Queue(p) = pending_frames[p] \o chan[p]
        /\ Queue(p)' = Append(pending_frames[p], Head(chan[p])) \o Tail(chan[p])
    <3>1. /\ Some(pending_write_frame[p]) = <<>> /\ Some(owed_close[p]) = <<>>
          /\ Queue(p) = pending_frames[p] \o chan[p]
      BY <2>1, QueueOf DEF Typing, Phases, Some
    <3>2. Staged(p)' = <<>> \o <<>>
      BY <2>1, <3>1 DEF Staged, Some
    <3>3. <<>> \o <<>> = <<>> /\ <<>> \o Tail(chan[p]) = Tail(chan[p])
      BY <1>t, <1>u, <2>1
    <3>4. Queue(p)' = pending_frames'[p] \o (Staged(p)' \o chan'[p])
      BY DEF Queue
    <3>5. Staged(p)' \o chan'[p] = Tail(chan[p])
      BY <2>1, <3>2, <3>3
    <3> QED
      BY <2>1, <3>1, <3>4, <3>5
  <2>3. Queue(p)' = Queue(p)
    <3>1. chan[p] \in Seq(Frames) /\ pending_frames[p] \in Seq(Frames) /\ chan[p] # <<>>
      BY <1>t, <2>1
    <3>2. Append(pending_frames[p], Head(chan[p])) \o Tail(chan[p]) = pending_frames[p] \o chan[p]
      BY Zenon, <3>1, MoveFrame
    <3> QED
      BY <2>2, <3>2
  <2>4. Sends(p)'
    <3>1. owed_close[p] = None /\ pending_write_frame[p] = None
      BY <2>1 DEF Typing, Phases
    <3> QED
      BY <1>1, <1>s, <1>u, <2>1, <3>1 DEF Sends
  <2> QED
    BY <1>3, <2>3, <2>4 DEF Accounted
<1> QED
  BY <1>4, <1>5

LEMMA DrainedAccounts ==
  ASSUME Typing, NEW p \in Peer, Accounted(p), FinishDraining(p)
  PROVE  Accounted(p)'
<1>1. /\ UNCHANGED <<at_close, sending, accepted, chan, pending_write_frame, owed_close>>
      /\ conn[p] = "DrainingStreamReceiver" /\ chan[p] = <<>>
      /\ pending_frames'[p] = Append(pending_frames[p], Term)
      /\ conn'[p] = "FlushingPendingFrames"
  BY DEF FinishDraining, closing, app, driver, Typing, ControlTyped
<1>l. Line(p)' = Line(p)
  BY SocketKept, SocketKeptLine
<1>2. PICK c \in Nat : Ledger(p, c)
  BY DEF Accounted
<1>3. /\ NoTermIn(Line(p)) /\ NoTerm(Queue(p)) /\ Run(Queue(p), c, accepted[p])
      /\ at_close[p] <= accepted[p] /\ accepted[p] \in Nat
  BY <1>1, <1>2 DEF Ledger, Unsaid, Typing, AppTyped
<1>4. PICK s \in Seq(Frames) : s = pending_frames[p] /\ Queue(p) = s
  BY <1>1, QueueOf, ConcatEmptySeq
<1>5. Term \in Frames /\ ~OfStream(Term)
  BY FrameTypes DEF OfStream
<1>6. Run(Append(s, Term), c, accepted[p])
  BY <1>3, <1>4, <1>5, RunAppend
<1>7. OneTerm(Append(s, Term))
  <2>1. /\ Len(Append(s, Term)) = Len(s) + 1 /\ Len(s) \in Nat /\ Append(s, Term) # <<>>
        /\ Append(s, Term)[Len(s) + 1] = Term
        /\ \A k \in 1 .. Len(s) : Append(s, Term)[k] = s[k]
    BY <1>5, OfAppend
  <2> QED
    BY <1>3, <1>4, <2>1 DEF NoTerm, OneTerm
<1>8. Saying(p, c)'
  <2>1. pending_frames'[p] = Append(s, Term)
    BY <1>1, <1>4
  <2>2. \E d \in Nat : Run(pending_frames'[p], c, d) /\ at_close'[p] <= d
    BY <1>1, <1>3, <1>6, <2>1
  <2>3. NoTermIn(Line(p))'
    BY <1>l, <1>3 DEF NoTermIn
  <2> QED
    BY <1>7, <2>1, <2>2, <2>3 DEF Saying
<1>9. Ledger(p, c)'
  <2>1. Unsaid(p, c)' /\ LineRun(Line(p), c)'
    BY <1>1, <1>l, <1>2 DEF Ledger, Unsaid
  <2>2. Closed(p, c)'
    BY <1>1, <1>l, <1>2 DEF Ledger, Closed, Said, TermLast
  <2> QED
    BY <1>8, <2>1, <2>2 DEF Ledger
<1>10. Sends(p)'
  BY <1>1 DEF Accounted, Sends
<1> QED
  BY <1>9, <1>10 DEF Accounted

(* Frames that end in their only Term: the first of them is it, and the     *)
(* last, or more remain that do.                                            *)
LEMMA TermEnds ==
  ASSUME NEW s \in Seq(Frames), NEW c \in Nat, NEW d \in Nat, Run(s, c, d), OneTerm(s)
  PROVE  /\ Head(s) \in Frames /\ Tail(s) \in Seq(Frames)
         /\ Head(s) = Term => Tail(s) = <<>> /\ c = d
         /\ Head(s) # Term =>
              /\ OneTerm(Tail(s))
              /\ OfStream(Head(s)) => Head(s).n = c + 1 /\ Run(Tail(s), c + 1, d)
              /\ ~OfStream(Head(s)) => Run(Tail(s), c, d)
<1>0. s # <<>>
  BY DEF OneTerm
<1>1. /\ Len(s) \in Nat /\ Len(s) > 0 /\ Tail(s) \in Seq(Frames) /\ Len(Tail(s)) = Len(s) - 1
      /\ Head(s) = s[1] /\ Head(s) \in Frames
      /\ \A k \in 1 .. Len(s) - 1 : Tail(s)[k] = s[k + 1]
  BY <1>0, OfTail
<1>2. Head(s) = Term => Len(s) = 1
  BY <1>1 DEF OneTerm
<1>3. Head(s) # Term => Len(s) > 1
  BY <1>1 DEF OneTerm
<1>5. (Len(s) = 1 => Tail(s) = <<>>) /\ (Len(s) > 1 => Tail(s) # <<>>)
  <2>1. PICK t \in Seq(Frames) : t = Tail(s) /\ Len(t) = Len(s) - 1 /\ Len(s) \in Nat
    BY <1>1
  <2>2. (Len(t) = 0 => t = <<>>) /\ (t = <<>> => Len(t) = 0)
    BY EmptySeq
  <2> QED
    BY SMTT(30), <2>1, <2>2
<1>6. /\ OfStream(Head(s)) => Head(s).n = c + 1 /\ Run(Tail(s), c + 1, d)
      /\ ~OfStream(Head(s)) => Run(Tail(s), c, d)
  BY <1>0, RunTail
<1>7. ASSUME Head(s) = Term PROVE Tail(s) = <<>> /\ c = d
  <2>1. Tail(s) = <<>>
    BY <1>2, <1>5, <1>7
  <2>2. ~OfStream(Head(s))
    BY <1>7, FrameTypes DEF OfStream
  <2> QED
    BY <1>6, <2>1, <2>2, RunEmpty
<1>8. ASSUME Len(s) > 1 PROVE OneTerm(Tail(s))
  <2>1. Tail(s)[Len(s) - 1] = Term
    <3>1. Len(s) - 1 \in 1 .. Len(s) - 1 /\ (Len(s) - 1) + 1 = Len(s)
      BY <1>1, <1>8
    <3> QED
      BY <1>1, <3>1 DEF OneTerm
  <2>2. \A k \in 1 .. (Len(s) - 1) - 1 : Tail(s)[k] # Term
    <3> SUFFICES ASSUME NEW k \in 1 .. (Len(s) - 1) - 1 PROVE Tail(s)[k] # Term
      OBVIOUS
    <3>1. k \in 1 .. Len(s) - 1 /\ k + 1 \in 1 .. Len(s) - 1
      BY <1>1
    <3> QED
      BY <1>1, <3>1 DEF OneTerm
  <2> QED
    BY <1>1, <1>5, <1>8, <2>1, <2>2 DEF OneTerm
<1> QED
  BY <1>1, <1>3, <1>6, <1>7, <1>8

LEMMA FlushAccounts ==
  ASSUME Typing, NEW p \in Peer, Accounted(p), FlushFrame(p)
  PROVE  Accounted(p)'
<1>1. /\ UNCHANGED <<conn, at_close, sending, accepted, chan, pending_write_frame, owed_close>>
      /\ conn[p] = "FlushingPendingFrames" /\ pending_frames[p] # <<>> /\ Ready(p)
      /\ pending_frames'[p] = Tail(pending_frames[p]) /\ StartSend(p, Head(pending_frames[p]))
  BY DEF FlushFrame, app, driver, Typing, ControlTyped
<1>2. PICK c \in Nat : Ledger(p, c)
  BY DEF Accounted
<1>3. /\ NoTermIn(Line(p)) /\ LineRun(Line(p), c)
      /\ OneTerm(pending_frames[p])
  BY <1>1, <1>2 DEF Ledger, Saying
<1>4. PICK d \in Nat : Run(pending_frames[p], c, d) /\ at_close[p] <= d
  BY <1>1, <1>2 DEF Ledger, Saying
<1>5. PICK f, t :
        /\ f = Head(pending_frames[p]) /\ t = Tail(pending_frames[p]) /\ f \in Frames
        /\ f = Term => t = <<>> /\ c = d
        /\ f # Term =>
             /\ OneTerm(t)
             /\ OfStream(f) => f.n = c + 1 /\ Run(t, c + 1, d)
             /\ ~OfStream(f) => Run(t, c, d)
  <2>1. pending_frames[p] \in Seq(Frames) /\ pending_frames[p] # <<>>
    BY <1>1, QueueOf
  <2> QED
    BY <1>3, <1>4, <2>1, TermEnds
<1>6. Sent(p, f) /\ pending_frames'[p] = t
  BY <1>1, <1>5 DEF Sent
<1>7. Sends(p)' /\ at_close[p] \in Nat
  BY <1>1 DEF Accounted, Sends, Typing, Phases
<1>8. CASE f = Term
  <2>1. Said(p)' /\ TermLast(p)'
    BY <1>3, <1>5, <1>6, <1>8, SaidAppends
  <2>2. LineRun(Line(p), c)'
    <3>1. Line(p)' = Line(p) \o Pieces(f) /\ Line(p) \in Seq(Piece) /\ f \in Frames
      BY <1>5, <1>6, SendLine, LineTyped
    <3>2. ~OfStream(f)
      BY <1>8, FrameTypes DEF OfStream
    <3>3. LineRun(Line(p) \o Pieces(f), c)
      BY <1>3, <3>1, <3>2, LineRunSends
    <3> QED
      BY <3>1, <3>3
  <2>3. Saying(p, c)'
    BY <1>1, <1>4, <1>5, <1>6, <1>8, <2>1 DEF Saying
  <2>4. Closed(p, c)' /\ Unsaid(p, c)'
    BY <1>1, <1>4, <1>5, <1>7, <1>8, <2>1 DEF Closed, Unsaid
  <2> QED
    BY <1>7, <2>2, <2>3, <2>4 DEF Ledger, Accounted
<1>9. CASE f # Term
  <2>1. PICK e \in Nat :
          Run(t, e, d) /\ ((e = c /\ ~OfStream(f)) \/ (e = c + 1 /\ OfStream(f) /\ f.n = c + 1))
    <3>1. CASE OfStream(f)
      BY <1>5, <1>9, <3>1
    <3>2. CASE ~OfStream(f)
      BY <1>5, <1>9, <3>2
    <3> QED
      BY <3>1, <3>2
  <2>2. NoTermIn(Line(p))' /\ ~Said(p)' /\ TermLast(p)' /\ LineRun(Line(p), e)'
    <3>1. /\ NoTermIn(Line(p))' /\ ~Said(p)' /\ TermLast(p)'
          /\ ~OfStream(f) => LineRun(Line(p), c)'
          /\ OfStream(f) /\ f.n = c + 1 => LineRun(Line(p), c + 1)'
      BY <1>3, <1>5, <1>6, <1>9, LedgerSends
    <3> QED
      BY <2>1, <3>1
  <2>3. Saying(p, e)'
    BY <1>1, <1>4, <1>5, <1>6, <1>9, <2>1, <2>2 DEF Saying
  <2>4. Closed(p, e)' /\ Unsaid(p, e)'
    BY <1>1, <2>2 DEF Closed, Unsaid
  <2> QED
    BY <1>7, <2>2, <2>3, <2>4 DEF Ledger, Accounted
<1> QED
  BY <1>8, <1>9
LEMMA FlushingStep ==
  ASSUME Typing, Flushing, NEW p \in Peer, Poll(p) \/ User(p)
  PROVE  Flushing'
<1>1. ASSUME NEW r \in Peer, r # p PROVE Accounted(r)'
  <2>1. Local(r)' = Local(r) /\ Line(r)' = Line(r) /\ Accounted(r)
    BY <1>1, OtherLocal, LineSteps DEF Flushing
  <2>2. UNCHANGED <<conn[r], pending_frames[r], pending_write_frame[r], owed_close[r], chan[r],
                    sending[r], accepted[r], at_close[r]>>
    BY <2>1 DEF Local
  <2> QED
    BY <2>1, <2>2, AccountedKept
<1>2. Accounted(p)'
  <2>a. Accounted(p)
    BY DEF Flushing
  <2>1. CASE WritePiece(p)
    <3>1. /\ UNCHANGED <<conn, pending_frames, pending_write_frame, owed_close, chan, sending,
                         accepted, at_close>>
          /\ Line(p)' = Line(p)
      BY <2>1, WriteLine DEF WritePiece, app, driver, closing
    <3> QED
      BY <2>a, <3>1, AccountedKept
  <2>2. CASE WriteFails(p)
    <3>1. Fail(p) /\ UNCHANGED <<chan, sending, accepted>> /\ Line(p)' = Line(p)
      BY <2>2, AppKept, SocketKept, SocketKeptLine DEF WriteFails
    <3> QED
      BY <2>a, <3>1, FailAccounts
  <2>3. CASE SendPing(p) \/ SendPending(p)
    BY <2>a, <2>3, SendingAccounts
  <2>4. CASE TakeFrame(p) \/ DrainCommand(p)
    BY <2>a, <2>4, TakingAccounts
  <2>5. CASE ReadPiece(p) \/ ReadEnd(p)
    BY <2>a, <2>5, ReadingAccounts
  <2>6. CASE FinishDraining(p)
    BY <2>a, <2>6, DrainedAccounts
  <2>7. CASE FlushFrame(p)
    BY <2>a, <2>7, FlushAccounts
  <2>8. CASE FinishFlushing(p) \/ CloseSocket(p) \/ FinishCleanup(p) \/ DropConnection(p)
    <3>1. /\ conn[p] # "Active"
          /\ conn'[p] \notin {"Active", "DrainingStreamReceiver", "FlushingPendingFrames"}
          /\ chan'[p] \in {chan[p], <<>>}
          /\ UNCHANGED <<at_close, sending, accepted>>
      <4>1. CASE FinishFlushing(p) \/ CloseSocket(p)
        BY <4>1 DEF FinishFlushing, CloseSocket, closing, app, Typing, ControlTyped
      <4>2. CASE FinishCleanup(p) \/ DropConnection(p)
        BY <4>2 DEF FinishCleanup, DropConnection, closing, app, Typing, ControlTyped, AppTyped
      <4> QED
        BY <2>8, <4>1, <4>2
    <3>2. Line(p)' = Line(p)
      BY <2>8, SocketKept, SocketKeptLine DEF User
    <3>3. pending_write_frame[p] = None /\ owed_close[p] = None
      BY <3>1 DEF Typing, Phases
    <3>4. pending_write_frame'[p] = None /\ owed_close'[p] = None
      <4>1. CASE DropConnection(p)
        BY <4>1, LeavingTyped DEF DropConnection, Typing
      <4>2. CASE FinishFlushing(p) \/ CloseSocket(p) \/ FinishCleanup(p)
        BY <3>3, <4>2 DEF FinishFlushing, CloseSocket, FinishCleanup, driver
      <4> QED
        BY <2>8, <4>1, <4>2
    <3> QED
      BY <2>a, <3>1, <3>2, <3>4, OffAccounts
  <2>9. CASE BeginSend(p) \/ EndSend(p) \/ DropStream(p)
    BY <2>a, <2>9, CommandAccounts
  <2>10. CASE Close(p)
    <3>1. config[p].close_sync \in BOOLEAN
      BY MuxClosingAssumption DEF Typing, ControlTyped
    <3>2. /\ conn[p] = "Active" /\ StartClosing(p, config[p].close_sync)
          /\ UNCHANGED <<chan, sending, accepted>> /\ Line(p)' = Line(p)
      BY <2>10, SocketKept, SocketKeptLine DEF Close, User, app
    <3> QED
      BY <2>a, <3>1, <3>2, ClosingAccounts
  <2> QED
    BY Zenon, <2>1, <2>2, <2>3, <2>4, <2>5, <2>6, <2>7, <2>8, <2>9, <2>10 DEF Poll, User
<1> QED
  BY <1>1, <1>2 DEF Flushing

LEMMA StutterKept ==
  ASSUME UNCHANGED vars
  PROVE  /\ UNCHANGED <<config, terminating, wire>>
         /\ \A r \in Peer : Local(r)' = Local(r) /\ UnderWay(r)' = UnderWay(r)
                            /\ Line(r)' = Line(r)
<1>1. /\ UNCHANGED <<config, conn, result, io, chan, sending, accepted, writing, reading, wire,
                     shut, gone, seen, pending_frames, wait_for_reply, at_close>>
      /\ UNCHANGED <<awaited, pings, pending_terminate, terminating, pending_pong,
                     pending_write_frame, owed_close>>
  BY DEF vars, app, socket, driver, closing
<1> QED
  BY <1>1, SocketKeptLine DEF Local

LEMMA InitLines ==
  ASSUME Init, NEW p \in Peer
  PROVE  Line(p) = <<>> /\ UnderWay(p) = <<>> /\ seen[p] = <<>> /\ Queue(p) = <<>>
<1>1. /\ wire[p] = <<>> /\ writing[p] = <<>> /\ seen[Other(p)] = <<>> /\ seen[p] = <<>>
      /\ pending_frames[p] = <<>> /\ pending_write_frame[p] = None /\ owed_close[p] = None
      /\ chan[p] = <<>>
  BY TwoPeers DEF Init
<1>2. <<>> \o <<>> = <<>>
  OBVIOUS
<1> QED
  BY <1>1, <1>2 DEF Line, UnderWay, Queue, Staged, Some

LEMMA InitFlushing == Init => Flushing
<1> SUFFICES ASSUME Init, NEW p \in Peer PROVE Accounted(p)
  BY DEF Flushing
<1>1. /\ conn[p] = "Active" /\ pending_write_frame[p] = None /\ owed_close[p] = None
      /\ chan[p] = <<>> /\ sending[p] = None /\ accepted[p] = 0
  BY DEF Init
<1>2. Len(<<>>) = 0
  OBVIOUS
<1>3. Sends(p)
  BY <1>1, <1>2 DEF Sends
<1>4. Line(p) = <<>> /\ Queue(p) = <<>>
  BY InitLines
<1>5. LineRun(Line(p), 0) /\ NoTermIn(Line(p)) /\ NoTerm(Queue(p))
  BY <1>2, <1>4 DEF LineRun, NoTermIn, NoTerm
<1>6. Run(Queue(p), 0, 0)
  BY <1>4, RunEmpty
<1>7. Ledger(p, 0)
  BY <1>1, <1>5, <1>6, TermOnLine DEF Ledger, Unsaid, Saying, Closed
<1> QED
  BY <1>3, <1>7 DEF Accounted

LEMMA NextFlushing == Typing /\ Flushing /\ [Step]_vars => Flushing'
<1>1. ASSUME Typing, Flushing, UNCHANGED vars PROVE Flushing'
  <2>1. ASSUME NEW r \in Peer PROVE Accounted(r)'
    <3>1. Local(r)' = Local(r) /\ Line(r)' = Line(r) /\ Accounted(r)
      BY <1>1, StutterKept DEF Flushing
    <3>2. UNCHANGED <<conn[r], pending_frames[r], pending_write_frame[r], owed_close[r], chan[r],
                      sending[r], accepted[r], at_close[r]>>
      BY <3>1 DEF Local
    <3> QED
      BY <3>1, <3>2, AccountedKept
  <2> QED
    BY <2>1 DEF Flushing
<1> QED
  BY <1>1, FlushingStep DEF Step

LEMMA SpecFlushing == Spec => []Flushing
<1>1. Init => Typing /\ Flushing
  BY InitTyping, InitFlushing
<1>2. Typing /\ Flushing /\ [Step]_vars => (Typing /\ Flushing)'
  BY NextTyping, NextFlushing
<1> QED
  BY <1>1, <1>2, PTL DEF Spec

(* What the ledger says of the frames p has started to send. *)
LEMMA LedgerShows ==
  ASSUME Typing, NEW p \in Peer, NEW c \in Nat, Ledger(p, c)
  PROVE  LET line == Line(p)
             sent == Ends(line, {"Data", "Close"})
             Upto(k) == {line[j].frame.n : j \in {i \in sent : i <= k}}
         IN  /\ \A j, k \in sent : j < k => line[j].frame.n < line[k].frame.n
             /\ \A k \in sent : Upto(k) = 1 .. line[k].frame.n
             /\ \A k \in DOMAIN line :
                  line[k].frame = Term => k = Len(line) /\ 1 .. at_close[p] \subseteq Upto(k)
<1> DEFINE line == Line(p)
           sent == Ends(line, {"Data", "Close"})
           Upto(k) == {line[j].frame.n : j \in {i \in sent : i <= k}}
<1>1. line \in Seq(Piece) /\ DOMAIN line = 1 .. Len(line) /\ Len(line) \in Nat
  BY LineTyped, LenProperties
<1>2. \A k : k \in sent <=> k \in 1 .. Len(line) /\ Counted(line[k])
  BY <1>1 DEF Ends, Counted, OfStream
<1>3. /\ \A k \in sent : line[k].frame.n \in Nat /\ 0 < line[k].frame.n /\ line[k].frame.n <= c
      /\ \A j, k \in sent : j < k => line[j].frame.n < line[k].frame.n
      /\ \A n \in 1 .. c : \E k \in sent : line[k].frame.n = n
      /\ \A k \in sent : k \in 1 .. Len(line)
  <2>1. LineRun(line, c)
    BY DEF Ledger
  <2>2. \A k \in 1 .. Len(line) : line[k].frame.n \in Nat
    BY <1>1, ElementOfSeq, PieceFields
  <2> HIDE DEF line, sent
  <2> QED
    BY <1>2, <2>1, <2>2 DEF LineRun
<1>4. TermLast(p) /\ (Said(p) => at_close[p] \in Nat /\ at_close[p] <= c)
  BY DEF Ledger, Closed
<1>5. \A k \in 1 .. Len(line) : line[k].frame = Term => k = Len(line) /\ at_close[p] <= c /\ at_close[p] \in Nat
  BY <1>4 DEF TermLast, Said
<1> HIDE DEF line, sent
<1>6. \A k \in sent : Upto(k) = 1 .. line[k].frame.n
  <2> SUFFICES ASSUME NEW k \in sent PROVE Upto(k) = 1 .. line[k].frame.n
    OBVIOUS
  <2>1. ASSUME NEW j \in sent, j <= k PROVE line[j].frame.n \in 1 .. line[k].frame.n
    BY <1>1, <1>3, <2>1
  <2>2. ASSUME NEW n \in 1 .. line[k].frame.n PROVE \E j \in sent : j <= k /\ line[j].frame.n = n
    <3>1. n \in 1 .. c
      BY <1>3
    <3>2. PICK j \in sent : line[j].frame.n = n
      BY <1>3, <3>1
    <3>3. ~(k < j)
      <4> SUFFICES ASSUME k < j PROVE FALSE
        OBVIOUS
      <4>1. line[k].frame.n < line[j].frame.n
        BY <1>3
      <4> QED
        BY <1>3, <3>2, <4>1
    <3> QED
      BY <1>1, <1>3, <3>2, <3>3
  <2> QED
    BY <2>1, <2>2
<1>7. ASSUME NEW k \in 1 .. Len(line), k = Len(line), NEW a \in Nat, a <= c
      PROVE  1 .. a \subseteq Upto(k)
  <2> SUFFICES ASSUME NEW n \in 1 .. a PROVE n \in Upto(k)
    OBVIOUS
  <2>1. PICK j \in sent : line[j].frame.n = n
    BY <1>3, <1>7
  <2>2. j <= k
    BY <1>3, <1>7, <2>1
  <2> QED
    BY <2>1, <2>2
<1>8. \A k \in DOMAIN line :
        line[k].frame = Term => k = Len(line) /\ 1 .. at_close[p] \subseteq Upto(k)
  <2> SUFFICES ASSUME NEW k \in 1 .. Len(line), line[k].frame = Term
               PROVE  k = Len(line) /\ 1 .. at_close[p] \subseteq Upto(k)
    BY <1>1
  <2>1. k = Len(line) /\ at_close[p] <= c /\ at_close[p] \in Nat
    BY <1>5
  <2> QED
    BY <1>7, <2>1
<1> QED
  BY <1>3, <1>6, <1>8 DEF line, sent

(* closing.rs:81: the frames a stream was told are accepted before the      *)
(* close are on the line before Term, all of them and in order, and nothing *)
(* follows it: the queue of the connection holds their numbers without a    *)
(* gap, wherever they are, and is flushed from its head.                    *)
THEOREM SpecFlushedBeforeTerm == Spec => []FlushedBeforeTerm
<1>1. Typing /\ Flushing => FlushedBeforeTerm
  BY LedgerShows DEF Flushing, Accounted, FlushedBeforeTerm
<1> QED
  BY <1>1, SpecTyping, SpecFlushing, PTL
-----------------------------------------------------------------------------
(* A ping and its pong.  There is one of them, in one place.                *)
LEMMA LoneSends ==
  ASSUME NEW s \in Seq(Piece), NEW f \in Frames, NEW tag, NEW n
  PROVE  /\ f.tag # tag =>
              /\ On(s \o Pieces(f), tag) <=> On(s, tag)
              /\ Lone(s, tag, n) => Lone(s \o Pieces(f), tag, n)
         /\ f.tag = tag =>
              /\ On(s \o Pieces(f), tag)
              /\ ~On(s, tag) => Lone(s \o Pieces(f), tag, f.n)
<1> DEFINE t == s \o Pieces(f)
           l == Len(s) + Size(f)
<1>1. /\ Len(t) = l /\ Len(s) \in Nat /\ l \in Nat
      /\ \A k \in 1 .. Len(s) : t[k] = s[k] /\ k \in 1 .. l /\ k < l
      /\ \A k \in Len(s) + 1 .. l : t[k] = Pieces(f)[k - Len(s)] /\ k - Len(s) \in 1 .. Size(f)
      /\ l \in Len(s) + 1 .. l /\ l \in 1 .. l
      /\ \A k \in 1 .. l : k \in 1 .. Len(s) \/ k \in Len(s) + 1 .. l
  <2>1. Pieces(f) \in Seq(Piece) /\ Len(Pieces(f)) = Size(f) /\ Size(f) \in {1, 2}
    BY PiecesOf
  <2> QED
    BY <2>1, OfConcat
<1>2. \A k \in Len(s) + 1 .. l : t[k].frame = f /\ (Whole(t[k]) <=> k = l)
  <2> SUFFICES ASSUME NEW k \in Len(s) + 1 .. l
               PROVE  t[k].frame = f /\ (Whole(t[k]) <=> k = l)
    OBVIOUS
  <2>1. t[k] = Pieces(f)[k - Len(s)] /\ k - Len(s) \in 1 .. Size(f)
    BY <1>1
  <2>2. t[k] = [frame |-> f, k |-> k - Len(s)] /\ (Whole(t[k]) <=> k - Len(s) = Size(f))
    BY <2>1, PiecesOf
  <2>3. Size(f) \in {1, 2}
    BY PiecesOf
  <2> QED
    BY <1>1, <2>2, <2>3
<1> HIDE DEF t, l
<1>3. CASE f.tag # tag
  <2>1. \A k \in 1 .. l : Whole(t[k]) /\ t[k].frame.tag = tag => k \in 1 .. Len(s)
    BY <1>1, <1>2, <1>3
  <2>2. On(t, tag) <=> On(s, tag)
    BY <1>1, <2>1 DEF On
  <2>3. Lone(s, tag, n) => Lone(t, tag, n)
    BY <1>1, <2>1 DEF Lone
  <2> QED
    BY <1>3, <2>2, <2>3 DEF t
<1>4. CASE f.tag = tag
  <2>1. On(t, tag)
    BY <1>1, <1>2, <1>4 DEF On
  <2>2. ASSUME ~On(s, tag) PROVE Lone(t, tag, f.n)
    <3>1. \A k \in 1 .. l : Whole(t[k]) /\ t[k].frame.tag = tag => k = l
      BY <1>1, <1>2, <2>2 DEF On
    <3> QED
      BY <1>1, <1>2, <3>1 DEF Lone
  <2> QED
    BY <1>4, <2>1, <2>2 DEF t
<1> QED
  BY <1>3, <1>4 DEF t

LEMMA LoneReads ==
  ASSUME NEW s \in Seq(Piece), s # <<>>, NEW tag, NEW n, Lone(s, tag, n)
  PROVE  /\ Lone(Tail(s), tag, n) /\ (On(Tail(s), tag) => On(s, tag))
         /\ Whole(Head(s)) /\ Head(s).frame.tag = tag =>
              On(s, tag) /\ ~On(Tail(s), tag) /\ Head(s).frame.n = n
         /\ ~(Whole(Head(s)) /\ Head(s).frame.tag = tag) => (On(s, tag) => On(Tail(s), tag))
<1> DEFINE t == Tail(s)
           l == Len(s) - 1
<1>1. /\ Len(t) = l /\ s[1] = Head(s) /\ Len(s) \in Nat /\ Len(s) > 0 /\ l \in Nat
      /\ 1 \in 1 .. Len(s)
  BY OfTail
<1>f. \A k \in 1 .. l : t[k] = s[k + 1] /\ k + 1 \in 1 .. Len(s) /\ 1 < k + 1
  BY OfTail
<1>b. \A k \in 1 .. Len(s) : k # 1 => s[k] = t[k - 1] /\ k - 1 \in 1 .. l
  BY OfTail
<1> HIDE DEF t, l
<1>2. Lone(t, tag, n)
  <2> SUFFICES ASSUME NEW k \in 1 .. l, Whole(t[k]), t[k].frame.tag = tag
               PROVE  /\ t[k].frame.n = n
                      /\ \A j \in 1 .. l : Whole(t[j]) /\ t[j].frame.tag = tag => j = k
    BY <1>1 DEF Lone
  <2>1. k + 1 \in 1 .. Len(s) /\ t[k] = s[k + 1]
    BY <1>f
  <2>2. /\ s[k + 1].frame.n = n
        /\ \A i \in 1 .. Len(s) : Whole(s[i]) /\ s[i].frame.tag = tag => i = k + 1
    BY <2>1 DEF Lone
  <2>3. ASSUME NEW j \in 1 .. l, Whole(t[j]), t[j].frame.tag = tag PROVE j = k
    <3>1. j + 1 \in 1 .. Len(s) /\ t[j] = s[j + 1]
      BY <1>f
    <3>2. j + 1 = k + 1
      BY <2>2, <2>3, <3>1
    <3> QED
      BY <1>1, <3>2
  <2> QED
    BY <2>1, <2>2, <2>3
<1>3. On(t, tag) => On(s, tag)
  BY <1>1, <1>f DEF On
<1>4. ASSUME Whole(s[1]), s[1].frame.tag = tag
      PROVE  On(s, tag) /\ ~On(t, tag) /\ s[1].frame.n = n
  <2>1. s[1].frame.n = n /\ \A j \in 1 .. Len(s) : Whole(s[j]) /\ s[j].frame.tag = tag => j = 1
    BY <1>1, <1>4 DEF Lone
  <2>2. \A k \in 1 .. l : ~(Whole(t[k]) /\ t[k].frame.tag = tag)
    <3> SUFFICES ASSUME NEW k \in 1 .. l, Whole(t[k]), t[k].frame.tag = tag PROVE FALSE
      OBVIOUS
    <3>1. k + 1 \in 1 .. Len(s) /\ t[k] = s[k + 1] /\ 1 < k + 1
      BY <1>f
    <3> QED
      BY <2>1, <3>1
  <2> QED
    BY <1>1, <1>4, <2>1, <2>2 DEF On
<1>5. ASSUME ~(Whole(s[1]) /\ s[1].frame.tag = tag), On(s, tag) PROVE On(t, tag)
  <2>1. PICK k \in 1 .. Len(s) : Whole(s[k]) /\ s[k].frame.tag = tag
    BY <1>5 DEF On
  <2> QED
    BY <1>1, <1>b, <1>5, <2>1 DEF On
<1> QED
  BY <1>1, <1>2, <1>3, <1>4, <1>5 DEF t

LEMMA LoneNone ==
  /\ \A s, tag, n : ~On(s, tag) => Lone(s, tag, n)
  /\ \A s, n : ~HasPong(s) => LonePong(s, n)
  /\ ~HasPong(<<>>)
BY DEF On, Lone, HasPong, LonePong

LEMMA PongAhead ==
  ASSUME NEW s \in Seq(Frames), NEW f \in Frames \cup {None}, NEW n
  PROVE  /\ Some(f) \o s \in Seq(Frames)
         /\ f = None \/ f.tag # "Pong" =>
              /\ HasPong(Some(f) \o s) <=> HasPong(s)
              /\ LonePong(s, n) => LonePong(Some(f) \o s, n)
         /\ f # None /\ f.tag = "Pong" /\ ~HasPong(s) => LonePong(Some(f) \o s, f.n)
<1>1. CASE f = None
  <2>1. Some(f) \o s = s
    BY <1>1, ConcatEmptySeq DEF Some
  <2> QED
    BY <1>1, <2>1
<1>2. CASE f # None
  <2> DEFINE t == <<f>> \o s
             l == Len(s) + 1
  <2>1. Some(f) = <<f>> /\ f \in Frames
    BY <1>2 DEF Some
  <2>2. /\ t \in Seq(Frames) /\ Len(t) = l /\ t[1] = f /\ Len(s) \in Nat /\ l \in Nat /\ 1 \in 1 .. l
    BY <2>1, OneAhead
  <2>f. \A k \in 1 .. l : k # 1 => t[k] = s[k - 1] /\ k - 1 \in 1 .. Len(s)
    BY <2>1, OneAhead
  <2>b. \A k \in 1 .. Len(s) : t[k + 1] = s[k] /\ k + 1 \in 1 .. l
    BY <2>1, OneAhead
  <2> HIDE DEF t, l
  <2>3. ASSUME f.tag # "Pong" PROVE HasPong(t) <=> HasPong(s)
    <3>1. HasPong(t) => HasPong(s)
      BY <2>2, <2>3, <2>f DEF HasPong
    <3>2. HasPong(s) => HasPong(t)
      BY <2>2, <2>b DEF HasPong
    <3> QED
      BY <3>1, <3>2
  <2>4. ASSUME f.tag # "Pong", LonePong(s, n) PROVE LonePong(t, n)
    <3> SUFFICES ASSUME NEW k \in 1 .. l, t[k].tag = "Pong"
                 PROVE  t[k].n = n /\ \A j \in 1 .. l : t[j].tag = "Pong" => j = k
      BY <2>2 DEF LonePong
    <3>1. t[k] = s[k - 1] /\ k - 1 \in 1 .. Len(s)
      BY <2>2, <2>4, <2>f
    <3>2. /\ s[k - 1].n = n /\ \A i \in 1 .. Len(s) : s[i].tag = "Pong" => i = k - 1
      BY <2>4, <3>1 DEF LonePong
    <3>3. ASSUME NEW j \in 1 .. l, t[j].tag = "Pong" PROVE j = k
      <4>1. t[j] = s[j - 1] /\ j - 1 \in 1 .. Len(s)
        BY <2>2, <2>4, <2>f, <3>3
      <4>2. j - 1 = k - 1
        BY <3>2, <3>3, <4>1
      <4> QED
        BY <2>2, <4>2
    <3> QED
      BY <3>1, <3>2, <3>3
  <2>5. ASSUME f.tag = "Pong", ~HasPong(s) PROVE LonePong(t, f.n)
    <3>1. \A k \in 1 .. l : t[k].tag = "Pong" => k = 1
      BY <2>2, <2>5, <2>f DEF HasPong
    <3> QED
      BY <2>2, <3>1 DEF LonePong
  <2> QED
    BY <1>2, <2>1, <2>2, <2>3, <2>4, <2>5 DEF t
<1> QED
  BY <1>1, <1>2

LEMMA PongAppend ==
  ASSUME NEW s \in Seq(Frames), NEW f \in Frames, f.tag # "Pong", NEW n
  PROVE  /\ HasPong(Append(s, f)) => HasPong(s)
         /\ LonePong(s, n) => LonePong(Append(s, f), n)
<1>1. /\ Len(Append(s, f)) = Len(s) + 1 /\ Len(s) \in Nat /\ Append(s, f)[Len(s) + 1] = f
      /\ \A k \in 1 .. Len(s) : Append(s, f)[k] = s[k]
  BY OfAppend
<1> DEFINE t == Append(s, f)
<1> HIDE DEF t
<1>2. \A k \in 1 .. Len(t) : t[k].tag = "Pong" => k \in 1 .. Len(s) /\ t[k] = s[k]
  BY <1>1 DEF t
<1> QED
  BY <1>1, <1>2 DEF HasPong, LonePong, t

LEMMA PongTail ==
  ASSUME NEW s \in Seq(Frames), s # <<>>, NEW n, LonePong(s, n)
  PROVE  /\ LonePong(Tail(s), n) /\ (HasPong(Tail(s)) => HasPong(s))
         /\ Head(s).tag = "Pong" => HasPong(s) /\ ~HasPong(Tail(s)) /\ Head(s).n = n
<1> DEFINE t == Tail(s)
           l == Len(s) - 1
<1>1. /\ Len(t) = l /\ s[1] = Head(s) /\ Len(s) \in Nat /\ Len(s) > 0 /\ l \in Nat
      /\ 1 \in 1 .. Len(s)
  BY OfTail
<1>f. \A k \in 1 .. l : t[k] = s[k + 1] /\ k + 1 \in 1 .. Len(s) /\ 1 < k + 1
  BY OfTail
<1> HIDE DEF t, l
<1>2. LonePong(t, n)
  <2> SUFFICES ASSUME NEW k \in 1 .. l, t[k].tag = "Pong"
               PROVE  t[k].n = n /\ \A j \in 1 .. l : t[j].tag = "Pong" => j = k
    BY <1>1 DEF LonePong
  <2>1. k + 1 \in 1 .. Len(s) /\ t[k] = s[k + 1]
    BY <1>f
  <2>2. /\ s[k + 1].n = n /\ \A i \in 1 .. Len(s) : s[i].tag = "Pong" => i = k + 1
    BY <2>1 DEF LonePong
  <2>3. ASSUME NEW j \in 1 .. l, t[j].tag = "Pong" PROVE j = k
    <3>1. j + 1 \in 1 .. Len(s) /\ t[j] = s[j + 1]
      BY <1>f
    <3>2. j + 1 = k + 1
      BY <2>2, <2>3, <3>1
    <3> QED
      BY <1>1, <3>2
  <2> QED
    BY <2>1, <2>2, <2>3
<1>3. HasPong(t) => HasPong(s)
  BY <1>1, <1>f DEF HasPong
<1>4. ASSUME s[1].tag = "Pong" PROVE HasPong(s) /\ ~HasPong(t) /\ s[1].n = n
  <2>1. s[1].n = n /\ \A j \in 1 .. Len(s) : s[j].tag = "Pong" => j = 1
    BY <1>1, <1>4 DEF LonePong
  <2>2. \A k \in 1 .. l : t[k].tag # "Pong"
    <3> SUFFICES ASSUME NEW k \in 1 .. l, t[k].tag = "Pong" PROVE FALSE
      OBVIOUS
    <3>1. k + 1 \in 1 .. Len(s) /\ t[k] = s[k + 1] /\ 1 < k + 1
      BY <1>f
    <3> QED
      BY <2>1, <3>1
  <2> QED
    BY <1>1, <1>4, <2>1, <2>2 DEF HasPong
<1> QED
  BY <1>1, <1>2, <1>3, <1>4 DEF t

(* A step that loses the token, leaves it where it is, or lets the pong     *)
(* that is owed leave with the frames of a close.                           *)
LEMMA TokensLess ==
  ASSUME NEW p \in Peer, Tokens(p), awaited'[p] = awaited[p],
         Lone(UnderWay(p), "Ping", awaited[p])', Asked(p)' => Asked(p),
         Lone(UnderWay(Other(p)), "Pong", awaited[p])', Answered(p)' => Answered(p),
         LonePong(pending_frames[Other(p)], awaited[p])',
         Leaving(p)' => Leaving(p) \/ (Owing(p) /\ ~Owing(p)'),
         pending_pong'[Other(p)] \in {None, pending_pong[Other(p)]}
  PROVE  Tokens(p)'
<1>1. /\ pending_pong[Other(p)] \in {None, awaited[p]}
      /\ Asked(p) => ~Owing(p) /\ ~Leaving(p) /\ ~Answered(p)
      /\ Owing(p) => ~Leaving(p) /\ ~Answered(p)
      /\ Leaving(p) => ~Answered(p)
      /\ Asked(p) \/ Owing(p) \/ Leaving(p) \/ Answered(p) => awaited[p] # None
  BY DEF Tokens
<1>2. Owing(p)' => Owing(p)
  BY DEF Owing
<1>3. pending_pong'[Other(p)] \in {None, awaited'[p]}
  BY <1>1
<1> QED
  BY <1>1, <1>2, <1>3 DEF Tokens

(* Who is active was; and who terminates goes on to. *)
LEMMA ActiveBefore ==
  ASSUME Typing, NEW p \in Peer, Poll(p) \/ User(p)
  PROVE  /\ conn'[p] = "Active" => conn[p] = "Active"
         /\ terminating[p] => terminating'[p]
         /\ terminating' # terminating => ReadPiece(p)
         /\ conn'[p] = "Active" =>
              \/ WritePiece(p) \/ SendPing(p) \/ SendPending(p) \/ TakeFrame(p) \/ ReadPiece(p)
              \/ BeginSend(p) \/ EndSend(p) \/ DropStream(p)
<1>t. /\ conn \in [Peer -> State] /\ terminating \in [Peer -> BOOLEAN]
  BY DEF Typing, ControlTyped
<1>1. ASSUME StartClosing(p, TRUE) \/ StartClosing(p, FALSE)
             \/ StartCleanup(p, "ok") \/ StartCleanup(p, "error")
      PROVE  conn'[p] # "Active" /\ terminating' = terminating
  BY <1>1, <1>t DEF StartClosing, StartCleanup, LeaveActive
<1>2. PeerClosed(p) => conn'[p] # "Active" /\ terminating' = terminating
  BY <1>1 DEF PeerClosed
<1>3. Fail(p) => conn'[p] # "Active" /\ terminating' = terminating
  BY <1>1, <1>t DEF Fail, driver
<1>4. CASE WritePiece(p) \/ SendPing(p) \/ SendPending(p) \/ TakeFrame(p) \/ BeginSend(p)
           \/ EndSend(p) \/ DropStream(p)
  <2>1. conn' = conn /\ terminating' = terminating
    BY <1>4 DEF WritePiece, SendPing, SendPending, TakeFrame, BeginSend, EndSend, DropStream, driver
  <2> QED
    BY <1>4, <2>1
<1>5. CASE WriteFails(p) \/ ReadEnd(p)
  <2>1. conn'[p] # "Active" /\ terminating' = terminating
    <3>1. \/ Fail(p) \/ PeerClosed(p)
          \/ conn' = [conn EXCEPT ![p] = "ClosingSocket"] /\ UNCHANGED driver
      BY <1>5 DEF WriteFails, ReadEnd
    <3> QED
      BY <1>2, <1>3, <1>t, <3>1 DEF driver
  <2> QED
    BY <2>1
<1>6. CASE ReadPiece(p)
  <2>1. conn[p] \in {"Active", "WaitingForReply"}
    BY <1>6 DEF ReadPiece
  <2>2. PICK f : \/ Stay /\ UNCHANGED driver
                 \/ conn[p] = "Active" /\ OnFrame(p, f)
                 \/ conn[p] = "WaitingForReply" /\ AwaitGoAway(p, f)
    BY Zenon, <1>6 DEF ReadPiece
  <2>3. CASE Stay /\ UNCHANGED driver
    BY <1>6, <2>3 DEF Stay, driver
  <2>4. CASE conn[p] = "Active" /\ OnFrame(p, f)
    <3>1. CASE UNCHANGED driver
      BY <1>6, <2>4, <3>1 DEF driver
    <3>2. CASE OnData(p) \/ HandlePong(p, f.n) \/ UNCHANGED terminating
      BY <1>6, <1>t, <2>4, <3>2 DEF OnData, HandlePong
    <3>3. CASE PeerClosed(p) \/ StartCleanup(p, "error")
      BY <1>1, <1>2, <1>6, <2>4, <3>3
    <3> QED
      BY <2>4, <3>1, <3>2, <3>3 DEF OnFrame
  <2>5. CASE conn[p] = "WaitingForReply" /\ AwaitGoAway(p, f)
    <3>1. (conn' = conn \/ conn' = [conn EXCEPT ![p] = "ClosingSocket"]) /\ terminating' = terminating
      BY <2>5 DEF AwaitGoAway, driver
    <3>2. conn'[p] # "Active"
      BY <1>t, <2>5, <3>1
    <3> QED
      BY <1>6, <3>1, <3>2
  <2> QED
    BY <2>2, <2>3, <2>4, <2>5
<1>7. CASE Close(p)
  <2>1. StartClosing(p, TRUE) \/ StartClosing(p, FALSE)
    <3>1. config[p].close_sync \in BOOLEAN /\ StartClosing(p, config[p].close_sync)
      BY <1>7, MuxClosingAssumption DEF Close, Typing, ControlTyped
    <3> QED
      BY <3>1
  <2> QED
    BY <1>1, <2>1
<1>8. CASE DropConnection(p)
  BY <1>8, <1>t DEF DropConnection, LeaveActive
<1>9. CASE DrainCommand(p) \/ FinishDraining(p) \/ FlushFrame(p) \/ FinishFlushing(p)
  BY <1>9, <1>t DEF DrainCommand, FinishDraining, FlushFrame, FinishFlushing, driver
<1>10. CASE CloseSocket(p) \/ FinishCleanup(p)
  BY <1>10, <1>t DEF CloseSocket, FinishCleanup, driver
<1> QED
  BY Zenon, <1>4, <1>5, <1>6, <1>7, <1>8, <1>9, <1>10 DEF Poll, User

(* The steps of p, of the ping it has sent. *)
LEMMA OwnTracked ==
  ASSUME Typing, NEW p \in Peer, Sends(p), Tracked(p), Poll(p) \/ User(p), Driven(p)'
  PROVE  Tracked(p)'
<1> DEFINE q == Other(p)
<1>q. q \in Peer /\ q # p /\ Other(q) = p
  BY TwoPeers
<1>0. /\ conn[p] = "Active" /\ ~terminating[p] /\ Driven(p)
      /\ \/ WritePiece(p) \/ SendPing(p) \/ SendPending(p) \/ TakeFrame(p) \/ ReadPiece(p)
         \/ BeginSend(p) \/ EndSend(p) \/ DropStream(p)
  BY ActiveBefore DEF Driven
<1>1. /\ Tokens(p)
      /\ Driven(q) /\ awaited[p] # None => Asked(p) \/ Owing(p) \/ Answered(p)
  BY <1>0 DEF Tracked
<1>l. Local(q)' = Local(q)
  BY <1>q, OtherLocal
<1>2. /\ pending_pong'[q] = pending_pong[q] /\ pending_frames'[q] = pending_frames[q]
      /\ Driven(q)' = Driven(q) /\ Leaving(p)' = Leaving(p) /\ Owing(p)' = Owing(p)
  BY <1>l DEF Local, Driven, Leaving, Owing
<1>u. UnderWay(p) \in Seq(Piece) /\ UnderWay(q) \in Seq(Piece)
  BY <1>q, LineTyped
<1>t. /\ Lone(UnderWay(p), "Ping", awaited[p]) /\ Lone(UnderWay(q), "Pong", awaited[p])
      /\ LonePong(pending_frames[q], awaited[p])
  BY <1>1 DEF Tokens
<1> HIDE DEF q
<1>3. ASSUME awaited'[p] = awaited[p],
             Lone(UnderWay(p)', "Ping", awaited[p]), Asked(p)' <=> Asked(p),
             Lone(UnderWay(q)', "Pong", awaited[p]), Answered(p)' <=> Answered(p)
      PROVE  Tracked(p)'
  <2>1. Tokens(p)'
    BY <1>1, <1>2, <1>3, <1>t, TokensLess DEF q
  <2> QED
    BY <1>1, <1>2, <1>3, <2>1 DEF Tracked, q
<1>4. CASE WritePiece(p) \/ TakeFrame(p) \/ BeginSend(p) \/ EndSend(p) \/ DropStream(p)
  <2>1. awaited' = awaited
    BY <1>4 DEF WritePiece, TakeFrame, BeginSend, EndSend, DropStream, driver
  <2>2. \A r \in Peer : UnderWay(r)' = UnderWay(r)
    BY <1>4, WriteLine, SocketKept, SocketKeptLine DEF User
  <2>3. Asked(p)' = Asked(p) /\ Answered(p)' = Answered(p)
    BY <1>q, <2>2 DEF Asked, Answered, q
  <2> QED
    BY <1>3, <1>q, <1>t, <2>1, <2>2, <2>3
<1>5. CASE SendPending(p)
  <2>1. PICK f \in Frames : f.tag # "Ping" /\ Sent(p, f)
    <3>1. CASE pending_terminate[p] # None /\ Sent(p, pending_terminate[p])
      <4>1. pending_terminate[p] = ProtocolError
        BY <3>1 DEF Typing, DriverTyped
      <4> QED
        BY <3>1, <4>1, FrameTypes
    <3>2. CASE pending_pong[p] # None /\ Sent(p, Frame("Pong", pending_pong[p]))
      <4>1. pending_pong[p] \in Nonce
        BY <3>2 DEF Typing, DriverTyped
      <4> QED
        BY <3>2, <4>1, FrameTypes
    <3>3. CASE pending_write_frame[p] # None /\ Sent(p, pending_write_frame[p])
      <4>1. OfStream(pending_write_frame[p]) /\ pending_write_frame[p] \in Frames
        BY <3>3 DEF Sends, Typing, DriverTyped
      <4> QED
        BY <3>3, <4>1 DEF OfStream
    <3> QED
      BY <1>5, <3>1, <3>2, <3>3 DEF SendPending, Sent
  <2>2. awaited' = awaited
    BY <1>5 DEF SendPending
  <2>3. UnderWay(p)' = UnderWay(p) \o Pieces(f) /\ UnderWay(q)' = UnderWay(q)
    BY <1>q, <2>1, SendLine
  <2>4. /\ On(UnderWay(p) \o Pieces(f), "Ping") <=> On(UnderWay(p), "Ping")
        /\ Lone(UnderWay(p) \o Pieces(f), "Ping", awaited[p])
    BY <1>t, <1>u, <2>1, LoneSends
  <2>5. (Asked(p)' <=> Asked(p)) /\ (Answered(p)' <=> Answered(p))
    BY <2>3, <2>4 DEF Asked, Answered, q
  <2> QED
    BY <1>3, <1>t, <2>2, <2>3, <2>4, <2>5
<1>6. CASE SendPing(p)
  <2>1. PICK n \in Nonce : Sent(p, Frame("Ping", n)) /\ awaited' = [awaited EXCEPT ![p] = n]
    BY <1>6 DEF SendPing, Sent
  <2>2. awaited[p] = None /\ awaited'[p] = n /\ n # None
    BY <1>6, <2>1, MuxClosingAssumption DEF SendPing, Typing, DriverTyped
  <2>3. ~Asked(p) /\ ~Owing(p) /\ ~Leaving(p) /\ ~Answered(p)
    BY <1>1, <2>2 DEF Tokens
  <2>4. PICK f \in Frames : f = Frame("Ping", n) /\ f.tag = "Ping" /\ f.n = n
    BY FrameTypes
  <2>5. UnderWay(p)' = UnderWay(p) \o Pieces(f) /\ UnderWay(q)' = UnderWay(q)
    BY <1>q, <2>1, <2>4, SendLine
  <2>6. On(UnderWay(p)', "Ping") /\ Lone(UnderWay(p)', "Ping", n)
    BY <1>u, <2>3, <2>4, <2>5, LoneSends DEF Asked
  <2>7. ~On(UnderWay(q)', "Pong") /\ ~HasPong(pending_frames'[q]) /\ pending_pong'[q] = None
    BY <1>2, <2>3, <2>5 DEF Answered, Leaving, Owing, q
  <2>8. Lone(UnderWay(q)', "Pong", n) /\ LonePong(pending_frames'[q], n)
    BY <2>7, LoneNone
  <2>9. Asked(p)' /\ ~Owing(p)' /\ ~Leaving(p)' /\ ~Answered(p)'
    BY <2>6, <2>7 DEF Asked, Owing, Leaving, Answered, q
  <2> QED
    BY <2>2, <2>6, <2>7, <2>8, <2>9 DEF Tracked, Tokens, q
<1>7. CASE ReadPiece(p)
  <2> DEFINE c == Head(UnderWay(q))
  <2>1. /\ UnderWay(q) # <<>> /\ UnderWay(q)' = Tail(UnderWay(q)) /\ UnderWay(p)' = UnderWay(p)
        /\ Head(wire[q]) = c
    BY <1>7, ReadLine DEF q
  <2>2. /\ Lone(UnderWay(q)', "Pong", awaited[p])
        /\ Whole(c) /\ c.frame.tag = "Pong" =>
             Answered(p) /\ ~Answered(p)' /\ c.frame.n = awaited[p]
        /\ ~(Whole(c) /\ c.frame.tag = "Pong") => (Answered(p)' <=> Answered(p))
    <3>1. /\ Lone(Tail(UnderWay(q)), "Pong", awaited[p])
          /\ On(Tail(UnderWay(q)), "Pong") => On(UnderWay(q), "Pong")
          /\ Whole(c) /\ c.frame.tag = "Pong" =>
               /\ On(UnderWay(q), "Pong") /\ ~On(Tail(UnderWay(q)), "Pong")
               /\ c.frame.n = awaited[p]
          /\ ~(Whole(c) /\ c.frame.tag = "Pong") =>
               (On(UnderWay(q), "Pong") => On(Tail(UnderWay(q)), "Pong"))
      BY <1>t, <1>u, <2>1, LoneReads
    <3> QED
      BY <2>1, <3>1 DEF Answered, q
  <2>3. Asked(p)' <=> Asked(p)
    BY <2>1 DEF Asked
  <2>4. IF ~Whole(c) THEN Stay /\ UNCHANGED driver ELSE OnFrame(p, c.frame)
    BY Zenon, <1>0, <1>7, <2>1 DEF ReadPiece, q
  <2> HIDE DEF c
  <2>5. CASE ~(Whole(c) /\ c.frame.tag = "Pong")
    <3>1. awaited'[p] = awaited[p]
      <4>1. CASE UNCHANGED driver
        BY <4>1 DEF driver
      <4>2. CASE OnFrame(p, c.frame) /\ Whole(c)
        <5>1. conn'[p] = "Active"
          BY DEF Driven
        <5>2. ~PeerClosed(p) /\ ~StartCleanup(p, "error")
          BY <5>1 DEF PeerClosed, StartClosing, StartCleanup, Typing, ControlTyped
        <5>3. awaited' = awaited
          BY <1>0, <2>5, <4>2, <5>2 DEF OnFrame, driver
        <5> QED
          BY <5>3
      <4> QED
        BY <2>4, <4>1, <4>2
    <3> QED
      BY <1>3, <1>t, <2>1, <2>2, <2>3, <2>5, <3>1
  <2>6. CASE Whole(c) /\ c.frame.tag = "Pong"
    <3>1. Answered(p) /\ ~Answered(p)' /\ c.frame.n = awaited[p]
      BY <2>2, <2>6
    <3>2. ~Asked(p) /\ ~Owing(p) /\ ~Leaving(p)
      BY <1>1, <3>1 DEF Tokens
    <3>3. HandlePong(p, c.frame.n)
      <4>1. OnFrame(p, c.frame) /\ ~terminating[p]
        BY <1>0, <2>4, <2>6
      <4>2. c.frame # Term /\ c.frame # ProtocolError
        BY <2>6, FrameTypes
      <4> QED
        BY <2>6, <4>1, <4>2 DEF OnFrame
    <3>4. awaited'[p] = None
      BY <3>1, <3>3 DEF HandlePong, Typing, DriverTyped
    <3>5. ~Asked(p)' /\ ~Owing(p)' /\ ~Leaving(p)' /\ ~Answered(p)'
      BY <1>2, <2>3, <3>1, <3>2
    <3>6. /\ Lone(UnderWay(p)', "Ping", None) /\ Lone(UnderWay(q)', "Pong", None)
          /\ LonePong(pending_frames'[q], None) /\ pending_pong'[q] = None
      BY <3>5, LoneNone DEF Asked, Owing, Leaving, Answered, q
    <3> QED
      BY <3>4, <3>5, <3>6 DEF Tracked, Tokens, q
  <2> QED
    BY <2>5, <2>6
<1> QED
  BY Zenon, <1>0, <1>4, <1>5, <1>6, <1>7

(* What leaves with a close: the pong, if one is owed.                      *)
LEMMA ClosingPong ==
  ASSUME Typing, NEW q \in Peer, Sends(q), NEW n, pending_pong[q] \in {None, n}
  PROVE  /\ LonePong(TakePendingFrames(q), n)
         /\ HasPong(TakePendingFrames(q)) => pending_pong[q] # None
<1>1. /\ pending_write_frame[q] \in Frames \cup {None} /\ owed_close[q] \in Frames \cup {None}
      /\ PendingPong(q) \in Frames \cup {None} /\ pending_terminate[q] \in Frames \cup {None}
      /\ pending_terminate[q] \in {ProtocolError, None}
      /\ TakePendingFrames(q)
           = Some(pending_terminate[q]) \o (Some(PendingPong(q)) \o Staged(q))
      /\ Some(owed_close[q]) \in Seq(Frames) /\ Staged(q) \in Seq(Frames)
  BY StagedFrames DEF Typing
<1>2. /\ pending_write_frame[q] = None \/ pending_write_frame[q].tag # "Pong"
      /\ owed_close[q] = None \/ owed_close[q].tag # "Pong"
      /\ pending_terminate[q] = None \/ pending_terminate[q].tag # "Pong"
  BY <1>1, FrameTypes DEF Sends, OfStream
<1>3. ~HasPong(Some(owed_close[q]))
  <2>1. CASE owed_close[q] = None
    BY <2>1, LoneNone DEF Some
  <2>2. CASE owed_close[q] # None
    <3>1. Some(owed_close[q]) = <<owed_close[q]>> /\ owed_close[q].tag # "Pong"
      BY <1>2, <2>2 DEF Some
    <3> QED
      BY <3>1 DEF HasPong
  <2> QED
    BY <2>1, <2>2
<1>4. ~HasPong(Staged(q))
  BY <1>1, <1>2, <1>3, PongAhead DEF Staged
<1> DEFINE tail == Some(PendingPong(q)) \o Staged(q)
<1>5. tail \in Seq(Frames) /\ LonePong(tail, n) /\ (HasPong(tail) => pending_pong[q] # None)
  <2>1. CASE pending_pong[q] = None
    <3>1. PendingPong(q) = None
      BY <2>1 DEF PendingPong
    <3>2. tail \in Seq(Frames) /\ (HasPong(tail) <=> HasPong(Staged(q)))
      BY <1>1, <3>1, PongAhead
    <3> QED
      BY <1>4, <3>2, LoneNone
  <2>2. CASE pending_pong[q] # None
    <3>1. /\ PendingPong(q) = Frame("Pong", n) /\ PendingPong(q) # None
          /\ PendingPong(q).tag = "Pong" /\ PendingPong(q).n = n
      BY <1>1, <2>2, FrameTypes DEF PendingPong, Typing, DriverTyped
    <3>2. tail \in Seq(Frames) /\ LonePong(tail, PendingPong(q).n)
      BY <1>1, <1>4, <3>1, PongAhead
    <3> QED
      BY <2>2, <3>1, <3>2
  <2> QED
    BY <2>1, <2>2
<1> HIDE DEF tail
<1>6. /\ HasPong(Some(pending_terminate[q]) \o tail) <=> HasPong(tail)
      /\ LonePong(tail, n) => LonePong(Some(pending_terminate[q]) \o tail, n)
  BY <1>1, <1>2, <1>5, PongAhead
<1> QED
  BY <1>1, <1>5, <1>6 DEF tail

(* Peer q ends, or goes from one phase of its end to the next.              *)
LEMMA EndingPong ==
  ASSUME Typing, NEW p \in Peer, NEW q \in Peer, q = Other(p), Sends(q), Tokens(p),
         awaited'[p] = awaited[p],
         \/ \E w \in BOOLEAN : StartClosing(q, w) /\ conn[q] = "Active"
         \/ \E r : StartCleanup(q, r)
         \/ Fail(q)
         \/ PeerClosed(q) /\ conn[q] = "Active"
         \/ DropConnection(q)
  PROVE  /\ ~Driven(q)'
         /\ LonePong(pending_frames[q], awaited[p])'
         /\ Leaving(p)' => Leaving(p) \/ (Owing(p) /\ ~Owing(p)')
         /\ pending_pong'[q] \in {None, pending_pong[q]}
<1>t. /\ conn \in [Peer -> State] /\ pending_frames \in [Peer -> Seq(Frames)] /\ DriverTyped
      /\ conn[q] = "Active" => pending_frames[q] = <<>>
  BY DEF Typing, ControlTyped, Phases
<1>1. ASSUME NEW w \in BOOLEAN, StartClosing(q, w), conn[q] = "Active"
      PROVE  /\ ~Driven(q)'
             /\ LonePong(pending_frames[q], awaited[p])'
             /\ Leaving(p)' => Leaving(p) \/ (Owing(p) /\ ~Owing(p)')
             /\ pending_pong'[q] \in {None, pending_pong[q]}
  <2>1. /\ pending_frames' = [pending_frames EXCEPT ![q] = TakePendingFrames(q)]
        /\ conn' = [conn EXCEPT ![q] = "DrainingStreamReceiver"] /\ LeaveActive(q)
    BY <1>1 DEF StartClosing
  <2>2. pending_frames'[q] = TakePendingFrames(q) /\ conn'[q] # "Active"
    BY <1>t, <2>1
  <2>3. pending_pong'[q] = None
    BY <1>t, <2>1, LeavingTyped
  <2>4. pending_pong[q] \in {None, awaited[p]}
    BY DEF Tokens
  <2>5. /\ LonePong(TakePendingFrames(q), awaited[p])
        /\ HasPong(TakePendingFrames(q)) => pending_pong[q] # None
    BY <2>4, ClosingPong
  <2> QED
    BY <2>2, <2>3, <2>5 DEF Driven, Leaving, Owing
<1>2. ASSUME conn'[q] # "Active", pending_frames' = pending_frames,
             pending_pong'[q] \in {None, pending_pong[q]}
      PROVE  /\ ~Driven(q)'
             /\ LonePong(pending_frames[q], awaited[p])'
             /\ Leaving(p)' => Leaving(p) \/ (Owing(p) /\ ~Owing(p)')
             /\ pending_pong'[q] \in {None, pending_pong[q]}
  BY <1>2 DEF Driven, Leaving, Tokens
<1>3. ASSUME NEW r, StartCleanup(q, r)
      PROVE  conn'[q] # "Active" /\ pending_frames' = pending_frames /\ pending_pong'[q] = None
  <2>1. conn' = [conn EXCEPT ![q] = "Cleanup"] /\ pending_frames' = pending_frames /\ LeaveActive(q)
    BY <1>3 DEF StartCleanup
  <2> QED
    BY <1>t, <2>1, LeavingTyped
<1>4. CASE Fail(q)
  <2>1. CASE conn[q] = "Active"
    BY <1>2, <1>3, <1>4, <2>1 DEF Fail
  <2>2. CASE conn[q] # "Active"
    <3>1. /\ conn' = [conn EXCEPT ![q] = "Closed"] /\ pending_frames' = pending_frames
          /\ pending_pong' = pending_pong
      BY <1>4, <2>2 DEF Fail, driver, closing
    <3> QED
      BY <1>t, <1>2, <3>1
  <2> QED
    BY <2>1, <2>2
<1>5. CASE DropConnection(q)
  <2>1. conn' = [conn EXCEPT ![q] = "Dropped"] /\ pending_frames' = pending_frames /\ LeaveActive(q)
    BY <1>5 DEF DropConnection, closing
  <2> QED
    BY <1>t, <1>2, <2>1, LeavingTyped
<1>6. CASE PeerClosed(q) /\ conn[q] = "Active"
  BY <1>1, <1>2, <1>3, <1>6 DEF PeerClosed
<1> QED
  BY <1>1, <1>2, <1>3, <1>4, <1>5, <1>6

(* The steps of the peer, of the ping p has sent. *)
LEMMA OtherTracked ==
  ASSUME Typing, NEW p \in Peer, NEW q \in Peer, q = Other(p), Sends(q), Tracked(p),
         Poll(q) \/ User(q), Driven(p)'
  PROVE  Tracked(p)'
<1>q. p # q /\ Other(q) = p
  BY TwoPeers
<1>l. Local(p)' = Local(p)
  BY <1>q, OtherLocal
<1>0. awaited'[p] = awaited[p] /\ Driven(p)
  BY <1>l DEF Local, Driven
<1>1. /\ Tokens(p)
      /\ Driven(q) /\ awaited[p] # None => Asked(p) \/ Owing(p) \/ Answered(p)
  BY <1>0 DEF Tracked
<1>2. Driven(q)' => Driven(q)
  BY ActiveBefore, <1>q DEF Driven, Typing, ControlTyped
<1>u. UnderWay(p) \in Seq(Piece) /\ UnderWay(q) \in Seq(Piece)
  BY LineTyped
<1>t. /\ Lone(UnderWay(p), "Ping", awaited[p]) /\ Lone(UnderWay(q), "Pong", awaited[p])
      /\ LonePong(pending_frames[q], awaited[p]) /\ pending_pong[q] \in {None, awaited[p]}
  BY <1>1 DEF Tokens
<1>c. /\ pending_frames \in [Peer -> Seq(Frames)] /\ pending_pong \in [Peer -> Nonce \cup {None}]
      /\ conn \in [Peer -> State]
  BY DEF Typing, ControlTyped, DriverTyped
<1>3. ASSUME Lone(UnderWay(p)', "Ping", awaited[p]), Asked(p)' => Asked(p),
             Lone(UnderWay(q)', "Pong", awaited[p]), Answered(p)' => Answered(p),
             LonePong(pending_frames'[q], awaited[p]),
             Leaving(p)' => Leaving(p) \/ (Owing(p) /\ ~Owing(p)'),
             pending_pong'[q] \in {None, pending_pong[q]},
             Driven(q)' => /\ Asked(p) => Asked(p)'
                           /\ Owing(p) => Owing(p)'
                           /\ Answered(p) => Answered(p)'
      PROVE  Tracked(p)'
  <2>1. Tokens(p)'
    BY <1>0, <1>1, <1>3, TokensLess
  <2> QED
    BY <1>0, <1>1, <1>2, <1>3, <2>1 DEF Tracked
<1>4. ASSUME UnderWay(p)' = UnderWay(p), UnderWay(q)' = UnderWay(q),
             LonePong(pending_frames'[q], awaited[p]),
             Leaving(p)' => Leaving(p) \/ (Owing(p) /\ ~Owing(p)'),
             pending_pong'[q] \in {None, pending_pong[q]},
             Driven(q)' => pending_pong'[q] = pending_pong[q]
      PROVE  Tracked(p)'
  <2>1. (Asked(p)' <=> Asked(p)) /\ (Answered(p)' <=> Answered(p))
    BY <1>4 DEF Asked, Answered
  <2>2. Driven(q)' => (Owing(p) => Owing(p)')
    BY <1>4 DEF Owing
  <2> QED
    BY <1>3, <1>4, <1>t, <2>1, <2>2
<1>5. CASE \/ WritePiece(q) \/ TakeFrame(q) \/ BeginSend(q) \/ EndSend(q) \/ DropStream(q)
           \/ FinishFlushing(q) \/ CloseSocket(q) \/ FinishCleanup(q)
  <2>1. pending_frames' = pending_frames /\ pending_pong' = pending_pong
    BY <1>5 DEF WritePiece, TakeFrame, BeginSend, EndSend, DropStream, FinishFlushing,
                CloseSocket, FinishCleanup, driver, closing
  <2>2. UnderWay(p)' = UnderWay(p) /\ UnderWay(q)' = UnderWay(q)
    BY <1>5, WriteLine, SocketKept, SocketKeptLine DEF User
  <2> QED
    BY <1>4, <1>t, <2>1, <2>2 DEF Leaving
<1>6. CASE DrainCommand(q) \/ FinishDraining(q)
  <2>1. PICK f \in Frames : /\ pending_frames' = [pending_frames EXCEPT ![q] = Append(@, f)]
                            /\ f.tag # "Pong" /\ pending_pong' = pending_pong
    <3>1. CASE DrainCommand(q)
      <4>1. chan[q] \in Seq(Frames) /\ chan[q] # <<>>
        BY <3>1 DEF DrainCommand, Typing, AppTyped
      <4>2. Head(chan[q]) \in Frames /\ Head(chan[q]) = chan[q][1] /\ 1 \in 1 .. Len(chan[q])
        BY <4>1, OfTail
      <4>3. Head(chan[q]).tag # "Pong"
        BY <4>2 DEF Sends, OfStream
      <4> QED
        BY <3>1, <4>2, <4>3 DEF DrainCommand, driver
    <3>2. CASE FinishDraining(q)
      BY <3>2, FrameTypes DEF FinishDraining, driver
    <3> QED
      BY <1>6, <3>1, <3>2
  <2>2. UnderWay(p)' = UnderWay(p) /\ UnderWay(q)' = UnderWay(q)
    BY <1>6, SocketKept, SocketKeptLine
  <2>3. pending_frames[q] \in Seq(Frames) /\ pending_frames'[q] = Append(pending_frames[q], f)
    BY <1>c, <2>1
  <2>4. LonePong(pending_frames'[q], awaited[p]) /\ (Leaving(p)' => Leaving(p))
    BY <1>t, <2>1, <2>3, PongAppend DEF Leaving
  <2> QED
    BY <1>4, <2>1, <2>2, <2>4
<1>7. ASSUME NEW f \in Frames, Sent(q, f), f.tag # "Pong",
             pending_pong' = pending_pong, pending_frames' = pending_frames
      PROVE  Tracked(p)'
  <2>1. UnderWay(q)' = UnderWay(q) \o Pieces(f) /\ UnderWay(p)' = UnderWay(p)
    BY <1>7, <1>q, SendLine
  <2>2. /\ On(UnderWay(q) \o Pieces(f), "Pong") <=> On(UnderWay(q), "Pong")
        /\ Lone(UnderWay(q) \o Pieces(f), "Pong", awaited[p])
    BY <1>7, <1>t, <1>u, LoneSends
  <2>3. (Asked(p)' <=> Asked(p)) /\ (Answered(p)' <=> Answered(p))
    BY <2>1, <2>2 DEF Asked, Answered
  <2>4. (Owing(p)' <=> Owing(p)) /\ (Leaving(p)' <=> Leaving(p))
    BY <1>7 DEF Owing, Leaving
  <2> QED
    BY <1>3, <1>7, <1>t, <2>1, <2>2, <2>3, <2>4
<1>8. ASSUME NEW f \in Frames, Sent(q, f), f.tag = "Pong", f.n = awaited[p], awaited[p] # None,
             ~Asked(p), ~Answered(p), ~HasPong(pending_frames'[q]), pending_pong'[q] = None
      PROVE  Tracked(p)'
  <2>1. UnderWay(q)' = UnderWay(q) \o Pieces(f) /\ UnderWay(p)' = UnderWay(p)
    BY <1>8, <1>q, SendLine
  <2>2. On(UnderWay(q)', "Pong") /\ Lone(UnderWay(q)', "Pong", awaited[p])
    BY <1>8, <1>u, <2>1, LoneSends DEF Answered
  <2>3. LonePong(pending_frames'[q], awaited[p])
    BY <1>8, LoneNone
  <2>4. Answered(p)' /\ ~Asked(p)' /\ ~Owing(p)' /\ ~Leaving(p)'
    BY <1>8, <2>1, <2>2 DEF Asked, Answered, Owing, Leaving
  <2> QED
    BY <1>0, <1>8, <1>t, <2>1, <2>2, <2>3, <2>4 DEF Tracked, Tokens
<1>9. CASE SendPing(q)
  <2>1. PICK f \in Frames : f.tag # "Pong" /\ Sent(q, f)
    BY <1>9, FrameTypes DEF SendPing, Sent
  <2>2. pending_pong' = pending_pong /\ pending_frames' = pending_frames
    BY <1>9 DEF SendPing, closing
  <2> QED
    BY <1>7, <2>1, <2>2
<1>10. CASE SendPending(q)
  <2>1. /\ pending_terminate[q] \in {ProtocolError, None}
        /\ pending_write_frame[q] \in Frames \cup {None}
        /\ pending_write_frame[q] # None => pending_write_frame[q].tag # "Pong"
    BY DEF Typing, DriverTyped, Sends, OfStream
  <2>2. pending_frames' = pending_frames /\ conn[q] = "Active"
    BY <1>10 DEF SendPending, closing
  <2>3. CASE pending_pong' = pending_pong
    <3>1. PICK f \in {pending_terminate[q], pending_write_frame[q]} : f # None /\ Sent(q, f)
      <4>1. CASE pending_terminate[q] # None /\ Sent(q, pending_terminate[q])
        BY <4>1
      <4>2. CASE pending_write_frame[q] # None /\ Sent(q, pending_write_frame[q])
        BY <4>2
      <4>3. CASE pending_pong[q] # None /\ pending_pong' = [pending_pong EXCEPT ![q] = None]
        BY <1>c, <2>3, <4>3
      <4> QED
        BY <1>10, <4>1, <4>2, <4>3 DEF SendPending, Sent
    <3>2. f \in Frames /\ f.tag # "Pong"
      BY <2>1, <3>1, FrameTypes
    <3> QED
      BY <1>7, <2>2, <2>3, <3>1, <3>2
  <2>4. CASE pending_pong' # pending_pong
    <3>1. /\ pending_pong[q] # None /\ Sent(q, Frame("Pong", pending_pong[q]))
          /\ pending_pong' = [pending_pong EXCEPT ![q] = None]
      BY <1>10, <2>4 DEF SendPending, Sent
    <3>2. Owing(p) /\ pending_pong[q] = awaited[p] /\ pending_pong[q] \in Nonce
      BY <1>c, <1>t, <3>1 DEF Owing
    <3>3. PICK f \in Frames : f = Frame("Pong", pending_pong[q]) /\ f.tag = "Pong" /\ f.n = awaited[p]
      BY <3>2, FrameTypes
    <3>4. ~Asked(p) /\ ~Leaving(p) /\ ~Answered(p) /\ awaited[p] # None
      BY <1>1, <3>2 DEF Tokens
    <3>5. ~HasPong(pending_frames'[q]) /\ pending_pong'[q] = None
      BY <1>c, <2>2, <3>1, <3>4 DEF Leaving
    <3> QED
      BY <1>8, <3>1, <3>3, <3>4, <3>5
  <2> QED
    BY <2>3, <2>4
<1>11. CASE FlushFrame(q)
  <2> DEFINE f == Head(pending_frames[q])
  <2>1. /\ conn[q] # "Active" /\ pending_frames[q] # <<>> /\ pending_frames[q] \in Seq(Frames)
        /\ Sent(q, f) /\ pending_frames' = [pending_frames EXCEPT ![q] = Tail(@)]
        /\ pending_pong' = pending_pong
    BY <1>11, <1>c DEF FlushFrame, Sent, driver
  <2>2. f \in Frames /\ pending_frames'[q] = Tail(pending_frames[q])
    BY <1>c, <2>1, OfTail
  <2>3. /\ LonePong(pending_frames'[q], awaited[p]) /\ (Leaving(p)' => Leaving(p))
        /\ f.tag = "Pong" => Leaving(p) /\ ~Leaving(p)' /\ f.n = awaited[p]
    BY <1>t, <2>1, <2>2, PongTail DEF Leaving
  <2>4. ~Driven(q)
    BY <2>1 DEF Driven
  <2> HIDE DEF f
  <2>5. CASE f.tag = "Pong"
    <3>1. Leaving(p) /\ ~HasPong(pending_frames'[q]) /\ f.n = awaited[p]
      BY <2>3, <2>5 DEF Leaving
    <3>2. ~Asked(p) /\ ~Owing(p) /\ ~Answered(p) /\ awaited[p] # None
      BY <1>1, <3>1 DEF Tokens
    <3>3. pending_pong'[q] = None
      BY <2>1, <3>2 DEF Owing
    <3> QED
      BY <1>8, <2>1, <2>2, <2>5, <3>1, <3>2, <3>3
  <2>6. CASE f.tag # "Pong"
    <3>1. UnderWay(q)' = UnderWay(q) \o Pieces(f) /\ UnderWay(p)' = UnderWay(p)
      BY <1>q, <2>1, <2>2, SendLine
    <3>2. /\ On(UnderWay(q) \o Pieces(f), "Pong") <=> On(UnderWay(q), "Pong")
          /\ Lone(UnderWay(q) \o Pieces(f), "Pong", awaited[p])
      BY <1>t, <1>u, <2>2, <2>6, LoneSends
    <3>3. (Asked(p)' <=> Asked(p)) /\ (Answered(p)' <=> Answered(p))
      BY <3>1, <3>2 DEF Asked, Answered
    <3> QED
      BY <1>2, <1>3, <1>t, <2>1, <2>3, <2>4, <3>1, <3>2, <3>3
  <2> QED
    BY <2>5, <2>6
<1>12. ASSUME UnderWay(p)' = UnderWay(p), UnderWay(q)' = UnderWay(q),
              \/ \E w \in BOOLEAN : StartClosing(q, w) /\ conn[q] = "Active"
              \/ Fail(q)
              \/ PeerClosed(q) /\ conn[q] = "Active"
              \/ DropConnection(q)
       PROVE  Tracked(p)'
  <2>1. /\ ~Driven(q)'
        /\ LonePong(pending_frames[q], awaited[p])'
        /\ Leaving(p)' => Leaving(p) \/ (Owing(p) /\ ~Owing(p)')
        /\ pending_pong'[q] \in {None, pending_pong[q]}
    BY Zenon, <1>0, <1>1, <1>12, EndingPong
  <2> QED
    BY <1>0, <1>4, <1>12, <2>1
<1>13. CASE Close(q) \/ DropConnection(q) \/ WriteFails(q) \/ ReadEnd(q)
  <2>1. UnderWay(p)' = UnderWay(p) /\ UnderWay(q)' = UnderWay(q)
    BY <1>13, SocketKept, SocketKeptLine DEF User
  <2>2. CASE Close(q)
    <3>1. /\ StartClosing(q, config[q].close_sync) /\ conn[q] = "Active"
          /\ config[q].close_sync \in BOOLEAN
      BY <2>2, MuxClosingAssumption DEF Close, Typing, ControlTyped
    <3> QED
      BY <1>12, <2>1, <3>1
  <2>3. CASE DropConnection(q) \/ WriteFails(q)
    BY <1>12, <2>1, <2>3 DEF WriteFails
  <2>4. CASE ReadEnd(q)
    <3>1. CASE Fail(q) \/ (PeerClosed(q) /\ conn[q] = "Active")
      BY <1>12, <2>1, <3>1
    <3>2. CASE /\ conn' = [conn EXCEPT ![q] = "ClosingSocket"]
               /\ UNCHANGED <<result, shut, gone, driver, closing>>
      <4>1. pending_pong' = pending_pong /\ pending_frames' = pending_frames
        BY <3>2 DEF driver, closing
      <4> QED
        BY <1>4, <1>t, <2>1, <4>1 DEF Leaving
    <3> QED
      BY Zenon, <2>4, <3>1, <3>2 DEF ReadEnd
  <2> QED
    BY <1>13, <2>2, <2>3, <2>4
<1>14. CASE ReadPiece(q)
  <2> DEFINE c == Head(UnderWay(p))
  <2>1. /\ UnderWay(p) # <<>> /\ UnderWay(p)' = Tail(UnderWay(p)) /\ UnderWay(q)' = UnderWay(q)
        /\ Head(wire[p]) = c
    BY <1>14, <1>q, ReadLine
  <2>2. conn[q] \in {"Active", "WaitingForReply"}
    BY <1>14 DEF ReadPiece
  <2>3. IF ~Whole(c) THEN Stay /\ UNCHANGED driver
        ELSE IF conn[q] = "Active" THEN OnFrame(q, c.frame)
        ELSE AwaitGoAway(q, c.frame)
    BY Zenon, <1>14, <1>q, <2>1 DEF ReadPiece
  <2>4. /\ Lone(UnderWay(p)', "Ping", awaited[p]) /\ (Asked(p)' => Asked(p))
        /\ Whole(c) /\ c.frame.tag = "Ping" =>
             Asked(p) /\ ~Asked(p)' /\ c.frame.n = awaited[p]
        /\ ~(Whole(c) /\ c.frame.tag = "Ping") => (Asked(p) => Asked(p)')
    <3>1. /\ Lone(Tail(UnderWay(p)), "Ping", awaited[p])
          /\ On(Tail(UnderWay(p)), "Ping") => On(UnderWay(p), "Ping")
          /\ Whole(c) /\ c.frame.tag = "Ping" =>
               /\ On(UnderWay(p), "Ping") /\ ~On(Tail(UnderWay(p)), "Ping")
               /\ c.frame.n = awaited[p]
          /\ ~(Whole(c) /\ c.frame.tag = "Ping") =>
               (On(UnderWay(p), "Ping") => On(Tail(UnderWay(p)), "Ping"))
      BY <1>t, <1>u, <2>1, LoneReads
    <3> QED
      BY <2>1, <3>1 DEF Asked
  <2>5. /\ Lone(UnderWay(q)', "Pong", awaited[p]) /\ (Answered(p)' <=> Answered(p))
    BY <1>t, <2>1 DEF Answered
  <2> HIDE DEF c
  <2>6. ASSUME pending_frames' = pending_frames, pending_pong' = pending_pong,
               (Whole(c) /\ c.frame.tag = "Ping") => ~Driven(q)'
        PROVE  Tracked(p)'
    <3>1. (Leaving(p)' <=> Leaving(p)) /\ (Owing(p)' <=> Owing(p))
      BY <2>6 DEF Leaving, Owing
    <3> QED
      BY <1>3, <1>t, <2>4, <2>5, <2>6, <3>1
  <2>7. CASE ~Whole(c)
    BY <2>3, <2>6, <2>7 DEF Stay, driver, closing
  <2>8. CASE Whole(c) /\ conn[q] # "Active"
    <3>1. AwaitGoAway(q, c.frame) /\ conn[q] = "WaitingForReply"
      BY <2>2, <2>3, <2>8
    <3>2. pending_frames' = pending_frames /\ pending_pong' = pending_pong
      BY <3>1 DEF AwaitGoAway, driver, closing
    <3>3. ~Driven(q)'
      BY <1>2, <2>8 DEF Driven
    <3> QED
      BY <2>6, <3>2, <3>3
  <2>9. CASE Whole(c) /\ conn[q] = "Active"
    <3>1. OnFrame(q, c.frame)
      BY <2>3, <2>9
    <3>2. CASE Stay /\ UNCHANGED driver /\ terminating[q]
      <4>1. pending_frames' = pending_frames /\ pending_pong' = pending_pong
        BY <3>2 DEF Stay, driver, closing
      <4>2. ~Driven(q)'
        BY <1>2, <3>2 DEF Driven
      <4> QED
        BY <2>6, <4>1, <4>2
    <3>3. CASE ~terminating[q] /\ c.frame.tag \in {"Data", "Close", "Pong"} /\ Stay /\ UNCHANGED pending_pong
      <4>1. pending_frames' = pending_frames /\ pending_pong' = pending_pong
        BY <3>3 DEF Stay, closing
      <4>2. c.frame.tag # "Ping"
        BY <3>3
      <4> QED
        BY <2>6, <4>1, <4>2
    <3>4. CASE /\ c.frame.tag = "Ping" /\ Stay
               /\ pending_pong' = [pending_pong EXCEPT ![q] = c.frame.n]
      <4>1. Asked(p) /\ ~Asked(p)' /\ c.frame.n = awaited[p]
        BY <2>4, <2>9, <3>4
      <4>2. ~Owing(p) /\ ~Leaving(p) /\ ~Answered(p) /\ awaited[p] # None
        BY <1>1, <4>1 DEF Tokens
      <4>3. pending_frames' = pending_frames /\ pending_pong'[q] = awaited[p]
        BY <1>c, <3>4, <4>1 DEF Stay, closing
      <4>4. Owing(p)' /\ ~Asked(p)' /\ ~Leaving(p)' /\ ~Answered(p)'
        BY <2>5, <4>1, <4>2, <4>3 DEF Owing, Leaving
      <4> QED
        BY <1>0, <1>t, <2>4, <2>5, <4>2, <4>3, <4>4 DEF Tracked, Tokens
    <3>5. CASE c.frame \in {Term, ProtocolError} /\ (PeerClosed(q) \/ StartCleanup(q, "error"))
      <4>1. /\ ~Driven(q)'
            /\ LonePong(pending_frames[q], awaited[p])'
            /\ Leaving(p)' => Leaving(p) \/ (Owing(p) /\ ~Owing(p)')
            /\ pending_pong'[q] \in {None, pending_pong[q]}
        BY <1>0, <1>1, <2>9, <3>5, EndingPong
      <4> QED
        BY <1>0, <1>3, <2>4, <2>5, <4>1
    <3> QED
      BY <3>1, <3>2, <3>3, <3>4, <3>5 DEF OnFrame
  <2> QED
    BY <2>7, <2>8, <2>9
<1> QED
  BY Zenon, <1>5, <1>6, <1>9, <1>10, <1>11, <1>13, <1>14 DEF Poll, User

LEMMA TrackedStep ==
  ASSUME Typing, Flushing, Pinging, NEW r \in Peer, Poll(r) \/ User(r)
  PROVE  Pinging'
<1> SUFFICES ASSUME NEW p \in Peer, Driven(p)' PROVE Tracked(p)'
  BY DEF Pinging, Tracked
<1>1. Tracked(p) /\ Sends(r)
  BY DEF Pinging, Flushing, Accounted
<1>2. CASE r = p
  BY <1>1, <1>2, OwnTracked
<1>3. CASE r = Other(p)
  BY <1>1, <1>3, OtherTracked
<1> QED
  BY <1>2, <1>3, TwoPeers

(* A violation is reported by the stream of a violator, never by the pong   *)
(* of an honest peer.                                                       *)
LEMMA HonestStep ==
  ASSUME Typing, Pinging, Honest, NEW p \in Peer, Poll(p) \/ User(p)
  PROVE  Honest'
<1> DEFINE q == Other(p)
           c == Head(UnderWay(q))
<1>q. q \in Peer /\ q # p /\ Other(q) = p
  BY TwoPeers
<1>1. terminating' # terminating => ReadPiece(p)
  BY ActiveBefore
<1>2. CASE terminating' = terminating
  BY <1>2 DEF Honest
<1>3. CASE terminating' # terminating
  <2>1. ReadPiece(p) /\ conn[p] \in {"Active", "WaitingForReply"}
    BY <1>1, <1>3 DEF ReadPiece
  <2>2. UnderWay(q) # <<>> /\ Head(wire[q]) = c
    BY <2>1, ReadLine
  <2>3. IF ~Whole(c) THEN Stay /\ UNCHANGED driver
        ELSE IF conn[p] = "Active" THEN OnFrame(p, c.frame)
        ELSE AwaitGoAway(p, c.frame)
    BY Zenon, <2>1, <2>2 DEF ReadPiece
  <2>4. ~UNCHANGED driver
    BY <1>3 DEF driver
  <2>5. Whole(c) /\ conn[p] = "Active" /\ OnFrame(p, c.frame) /\ ~terminating[p]
    <3>1. AwaitGoAway(p, c.frame) => UNCHANGED driver
      BY DEF AwaitGoAway
    <3>2. Whole(c) /\ conn[p] = "Active" /\ OnFrame(p, c.frame)
      BY <2>3, <2>4, <3>1
    <3> QED
      BY <2>4, <3>2 DEF OnFrame
  <2> HIDE DEF c, q
  <2>6. ~StartCleanup(p, "error") /\ ~PeerClosed(p)
    BY <1>3 DEF StartCleanup, PeerClosed, StartClosing, LeaveActive
  <2>7. OnData(p) \/ (c.frame.tag = "Pong" /\ HandlePong(p, c.frame.n))
    BY <1>3, <2>5, <2>6 DEF OnFrame, driver
  <2>8. terminating \in [Peer -> BOOLEAN]
    BY DEF Typing, ControlTyped
  <2>9. CASE OnData(p)
    BY <1>3, <2>8, <2>9 DEF OnData, Honest
  <2>10. CASE c.frame.tag = "Pong" /\ HandlePong(p, c.frame.n)
    <3>1. Lone(UnderWay(q), "Pong", awaited[p]) /\ UnderWay(q) \in Seq(Piece)
      BY <1>q, <2>5, LineTyped DEF Pinging, Tracked, Driven, Tokens, q
    <3>2. c.frame.n = awaited[p]
      BY <2>2, <2>5, <2>10, <3>1, LoneReads DEF c
    <3> QED
      BY <1>3, <2>10, <3>2 DEF HandlePong
  <2> QED
    BY <2>7, <2>9, <2>10
<1> QED
  BY <1>2, <1>3

LEMMA SpecPinging == Spec => [](Pinging /\ Honest)
<1>1. Init => Pinging /\ Honest
  <2> SUFFICES ASSUME Init PROVE Pinging /\ Honest
    OBVIOUS
  <2>1. Honest
    BY DEF Init, Honest
  <2>2. ASSUME NEW p \in Peer PROVE Tracked(p)
    <3> DEFINE q == Other(p)
    <3>1. q \in Peer
      BY TwoPeers
    <3>2. /\ UnderWay(p) = <<>> /\ UnderWay(q) = <<>> /\ pending_frames[q] = <<>>
          /\ pending_pong[q] = None /\ awaited[p] = None
      BY <3>1, InitLines DEF Init
    <3> QED
      BY <3>2 DEF Tracked, Tokens, Lone, LonePong, HasPong, On, Asked, Owing, Leaving, Answered
  <2> QED
    BY <2>1, <2>2 DEF Pinging
<1>2. Typing /\ Flushing /\ Pinging /\ Honest /\ [Step]_vars => (Pinging /\ Honest)'
  <2> SUFFICES ASSUME Typing, Flushing, Pinging, Honest, [Step]_vars PROVE (Pinging /\ Honest)'
    OBVIOUS
  <2>1. CASE UNCHANGED vars
    <3>1. UNCHANGED terminating /\ \A r \in Peer : Local(r)' = Local(r) /\ UnderWay(r)' = UnderWay(r)
      BY <2>1, StutterKept
    <3>2. Honest'
      BY <3>1 DEF Honest
    <3>3. ASSUME NEW p \in Peer PROVE Tracked(p)'
      <4> DEFINE q == Other(p)
      <4>1. q \in Peer /\ Tracked(p)
        BY TwoPeers DEF Pinging
      <4>2. /\ UnderWay(p)' = UnderWay(p) /\ UnderWay(q)' = UnderWay(q)
            /\ pending_frames'[q] = pending_frames[q] /\ pending_pong'[q] = pending_pong[q]
            /\ awaited'[p] = awaited[p]
            /\ (Driven(p)' <=> Driven(p)) /\ (Driven(q)' <=> Driven(q))
        BY <3>1, <4>1 DEF Local, Driven
      <4> QED
        BY <4>1, <4>2 DEF Tracked, Tokens, Asked, Owing, Leaving, Answered
    <3> QED
      BY <3>2, <3>3 DEF Pinging
  <2>2. CASE Step
    BY <2>2, TrackedStep, HonestStep DEF Step
  <2> QED
    BY <2>1, <2>2
<1> QED
  BY <1>1, <1>2, SpecTyping, SpecFlushing, PTL DEF Spec

(* rtt.rs:61: while both ends are active there is exactly one copy of the   *)
(* ping that is out, or of its pong, and none when no pong is awaited; and  *)
(* only a violator's streams end a connection for a violation.              *)
THEOREM SpecPingTracked == Spec => []PingTracked
<1>1. Typing /\ Pinging /\ Honest => PingTracked
  <2> SUFFICES ASSUME Typing, Pinging, Honest, NEW p \in Peer,
                      \A q \in Peer : conn[q] = "Active" /\ ~terminating[q]
               PROVE  IF awaited[p] = None THEN Copies(p) = {}
                      ELSE \E c \in Copies(p) : Copies(p) = {c} /\ c.n = awaited[p]
    BY Zenon DEF PingTracked, Honest
  <2> DEFINE q == Other(p)
             OnLine(line, tag) ==
               {[tag |-> tag, at |-> k, n |-> line[k].frame.n] : k \in Ends(line, {tag})}
             Asks == OnLine(UnderWay(p), "Ping")
             Answers == OnLine(UnderWay(q), "Pong")
             Owed == {[tag |-> "owed", at |-> 0, n |-> n] : n \in {pending_pong[q]} \ {None}}
             n == awaited[p]
  <2>1. q \in Peer /\ Tokens(p) /\ (awaited[p] # None => Asked(p) \/ Owing(p) \/ Answered(p))
    BY TwoPeers DEF Pinging, Tracked, Driven
  <2>2. UnderWay(p) \in Seq(Piece) /\ UnderWay(q) \in Seq(Piece)
    BY <2>1, LineTyped
  <2>3. Copies(p) = Asks \cup Answers \cup Owed
    BY DEF Copies
  <2>4. ASSUME NEW line \in Seq(Piece), NEW tag, Lone(line, tag, n)
        PROVE  IF On(line, tag) THEN \E c : OnLine(line, tag) = {c} /\ c.n = n
               ELSE OnLine(line, tag) = {}
    <3>1. DOMAIN line = 1 .. Len(line)
      BY LenProperties
    <3>2. \A k : k \in Ends(line, {tag})
                  <=> k \in 1 .. Len(line) /\ Whole(line[k]) /\ line[k].frame.tag = tag
      BY <3>1 DEF Ends
    <3>3. CASE On(line, tag)
      <4>1. PICK k : k \in Ends(line, {tag})
        BY <3>2, <3>3 DEF On
      <4>2. \A j \in Ends(line, {tag}) : j = k /\ line[j].frame.n = n
        BY <2>4, <3>2, <4>1 DEF Lone
      <4> DEFINE c == [tag |-> tag, at |-> k, n |-> n]
      <4>3. OnLine(line, tag) = {c} /\ c.n = n
        BY <4>1, <4>2
      <4> QED
        BY <3>3, <4>3
    <3>4. CASE ~On(line, tag)
      <4>1. \A k : k \notin Ends(line, {tag})
        BY <3>2, <3>4 DEF On
      <4> QED
        BY <3>4, <4>1
    <3> QED
      BY <3>3, <3>4
  <2>5. IF Asked(p) THEN \E c : Asks = {c} /\ c.n = n ELSE Asks = {}
    BY <2>1, <2>2, <2>4 DEF Tokens, Asked
  <2>6. IF Answered(p) THEN \E c : Answers = {c} /\ c.n = n
                       ELSE Answers = {}
    BY <2>1, <2>2, <2>4 DEF Tokens, Answered
  <2>7. IF Owing(p) THEN \E c : Owed = {c} /\ c.n = n ELSE Owed = {}
    <3>1. CASE Owing(p)
      <4> DEFINE c == [tag |-> "owed", at |-> 0, n |-> n]
      <4>1. pending_pong[q] = n /\ n # None
        BY <2>1, <3>1 DEF Tokens, Owing
      <4>2. Owed = {c} /\ c.n = n
        BY <4>1
      <4> QED
        BY <3>1, <4>2
    <3>2. CASE ~Owing(p)
      BY <3>2 DEF Owing
    <3> QED
      BY <3>1, <3>2
  <2> HIDE DEF Asks, Answers, Owed, OnLine
  <2>8. CASE awaited[p] = None
    <3>1. ~Asked(p) /\ ~Owing(p) /\ ~Answered(p)
      BY <2>1, <2>8 DEF Tokens
    <3> QED
      BY <2>3, <2>5, <2>6, <2>7, <2>8, <3>1
  <2>9. CASE awaited[p] # None
    <3>1. \E c : Copies(p) = {c} /\ c.n = n
      <4>1. CASE Asked(p)
        <5>1. ~Owing(p) /\ ~Answered(p)
          BY <2>1, <4>1 DEF Tokens
        <5>2. PICK c : Asks = {c} /\ c.n = n
          BY <2>5, <4>1
        <5>3. Copies(p) = {c}
          BY <2>3, <2>6, <2>7, <5>1, <5>2
        <5> QED
          BY <5>2, <5>3
      <4>2. CASE Owing(p)
        <5>1. ~Asked(p) /\ ~Answered(p)
          BY <2>1, <4>2 DEF Tokens
        <5>2. PICK c : Owed = {c} /\ c.n = n
          BY <2>7, <4>2
        <5>3. Copies(p) = {c}
          BY <2>3, <2>5, <2>6, <5>1, <5>2
        <5> QED
          BY <5>2, <5>3
      <4>3. CASE Answered(p)
        <5>1. ~Asked(p) /\ ~Owing(p)
          BY <2>1, <4>3 DEF Tokens
        <5>2. PICK c : Answers = {c} /\ c.n = n
          BY <2>6, <4>3
        <5>3. Copies(p) = {c}
          BY <2>3, <2>5, <2>7, <5>1, <5>2
        <5> QED
          BY <5>2, <5>3
      <4> QED
        BY <2>1, <2>9, <4>1, <4>2, <4>3
    <3> QED
      BY <2>9, <3>1
  <2> QED
    BY <2>8, <2>9
<1> QED
  BY <1>1, SpecTyping, SpecPinging, PTL
-----------------------------------------------------------------------------
(* Pieces.                                                                  *)
LEMMA FramingSends ==
  ASSUME NEW u \in Seq(Piece), NEW f \in Frames,
         \A k \in 1 .. Len(u) : ~Whole(u[k]) => k < Len(u)
  PROVE  /\ u \o Pieces(f) # <<>>
         /\ \A k \in 1 .. Len(u \o Pieces(f)) :
              ~Whole((u \o Pieces(f))[k]) => k < Len(u \o Pieces(f))
<1> DEFINE t == u \o Pieces(f)
           l == Len(u) + Size(f)
<1>1. /\ Pieces(f) \in Seq(Piece) /\ Len(Pieces(f)) = Size(f) /\ Size(f) \in {1, 2}
      /\ \A k \in 1 .. Size(f) : Whole(Pieces(f)[k]) <=> k = Size(f)
  BY PiecesOf
<1>2. /\ Len(t) = l /\ Len(u) \in Nat /\ l \in Nat /\ l > 0
      /\ \A k \in 1 .. Len(u) : t[k] = u[k] /\ k < l
      /\ \A k \in Len(u) + 1 .. l : t[k] = Pieces(f)[k - Len(u)] /\ k - Len(u) \in 1 .. Size(f)
      /\ \A k \in 1 .. l : k \in 1 .. Len(u) \/ k \in Len(u) + 1 .. l
  BY <1>1, OfConcat
<1>3. t # <<>>
  BY <1>2
<1> HIDE DEF t
<1>4. ASSUME NEW k \in 1 .. l, ~Whole(t[k]) PROVE k < l
  <2>1. CASE k \in 1 .. Len(u)
    BY <1>2, <2>1
  <2>2. CASE k \in Len(u) + 1 .. l
    <3>1. ~Whole(Pieces(f)[k - Len(u)]) /\ k - Len(u) \in 1 .. Size(f)
      BY <1>2, <1>4, <2>2
    <3>2. k - Len(u) # Size(f)
      BY <1>1, <3>1
    <3> QED
      BY <1>1, <1>2, <3>1, <3>2
  <2> QED
    BY <1>2, <2>1, <2>2
<1> QED
  BY <1>2, <1>3, <1>4 DEF t

LEMMA FramingReads ==
  ASSUME NEW u \in Seq(Piece), u # <<>>,
         \A k \in 1 .. Len(u) : ~Whole(u[k]) => k < Len(u)
  PROVE  /\ \A k \in 1 .. Len(Tail(u)) : ~Whole(Tail(u)[k]) => k < Len(Tail(u))
         /\ ~Whole(Head(u)) => Tail(u) # <<>>
<1> DEFINE t == Tail(u)
<1>1. /\ Len(t) = Len(u) - 1 /\ Len(u) \in Nat /\ Len(u) > 0 /\ u[1] = Head(u)
      /\ t \in Seq(Piece) /\ 1 \in 1 .. Len(u)
  BY OfTail
<1>2. \A k \in 1 .. Len(u) - 1 : t[k] = u[k + 1] /\ k + 1 \in 1 .. Len(u)
  BY OfTail
<1> HIDE DEF t
<1>3. ~Whole(u[1]) => t # <<>>
  <2>1. ~Whole(u[1]) => 1 < Len(u)
    BY <1>1
  <2>2. t = <<>> => Len(t) = 0
    BY EmptySeq
  <2> QED
    BY <1>1, <2>1, <2>2
<1>4. ASSUME NEW k \in 1 .. Len(t), ~Whole(t[k]) PROVE k < Len(t)
  <2>1. k \in 1 .. Len(u) - 1
    BY <1>1
  <2>2. ~Whole(u[k + 1]) /\ k + 1 \in 1 .. Len(u)
    BY <1>2, <1>4, <2>1
  <2>3. k + 1 < Len(u)
    BY <2>2
  <2> QED
    BY <1>1, <2>1, <2>3
<1> QED
  BY <1>1, <1>3, <1>4 DEF t

LEMMA FramingStep ==
  ASSUME Typing, Framing, NEW p \in Peer, Poll(p) \/ User(p)
  PROVE  Framing'
<1> DEFINE q == Other(p)
<1>q. q \in Peer /\ q # p /\ Other(q) = p /\ \A r \in Peer : r = p \/ r = q
  BY TwoPeers
<1>p. Paired(p) /\ Paired(q)
  BY <1>q DEF Framing
<1>u. UnderWay(p) \in Seq(Piece) /\ UnderWay(q) \in Seq(Piece)
  BY <1>q, LineTyped
<1> HIDE DEF q
<1>1. ASSUME NEW f \in Frames, Sent(p, f) PROVE Framing'
  <2>1. /\ UnderWay(p)' = UnderWay(p) \o Pieces(f) /\ UnderWay(q)' = UnderWay(q)
        /\ reading' = reading
    BY <1>1, <1>q, SendLine
  <2>2. /\ UnderWay(p) \o Pieces(f) # <<>>
        /\ \A k \in 1 .. Len(UnderWay(p) \o Pieces(f)) :
             ~Whole((UnderWay(p) \o Pieces(f))[k]) => k < Len(UnderWay(p) \o Pieces(f))
    BY <1>p, <1>u, FramingSends DEF Paired
  <2>3. Paired(p)' /\ Paired(q)'
    BY <1>p, <1>q, <2>1, <2>2 DEF Paired
  <2> QED
    BY <1>q, <2>3 DEF Framing
<1>2. CASE ReadPiece(p)
  <2> DEFINE c == Head(UnderWay(q))
  <2>1. /\ UnderWay(q) # <<>> /\ UnderWay(q)' = Tail(UnderWay(q)) /\ UnderWay(p)' = UnderWay(p)
        /\ Head(wire[q]) = c
    BY <1>2, ReadLine DEF q
  <2>2. reading' = [reading EXCEPT ![p] = IF Whole(c) THEN <<>> ELSE Append(@, c)]
    BY Zenon, <1>2, <2>1 DEF ReadPiece, q
  <2>3. /\ \A k \in 1 .. Len(UnderWay(q)') : ~Whole(UnderWay(q)'[k]) => k < Len(UnderWay(q)')
        /\ ~Whole(c) => UnderWay(q)' # <<>>
    BY <1>p, <1>u, <2>1, FramingReads DEF Paired
  <2>4. /\ reading'[q] = reading[q] /\ (Whole(c) => reading'[p] = <<>>)
    BY <1>q, <2>2 DEF Typing, SocketTyped
  <2> HIDE DEF c
  <2>5. Paired(p)' /\ Paired(q)'
    BY <1>p, <1>q, <2>1, <2>3, <2>4 DEF Paired, q
  <2> QED
    BY <1>q, <2>5 DEF Framing
<1>3. CASE UNCHANGED <<writing, reading, wire, seen>>
  <2>1. \A r \in Peer : UnderWay(r)' = UnderWay(r)
    BY <1>3, SocketKeptLine
  <2> QED
    BY <1>3, <2>1 DEF Framing, Paired
<1>4. CASE WritePiece(p)
  <2>1. (\A r \in Peer : UnderWay(r)' = UnderWay(r)) /\ reading' = reading
    BY <1>4, WriteLine DEF WritePiece
  <2> QED
    BY <2>1 DEF Framing, Paired
<1> QED
  BY <1>1, <1>2, <1>3, <1>4, SocketKept, SendsOne DEF Poll

LEMMA SpecFraming == Spec => []Framing
<1>1. Init => Framing
  <2> SUFFICES ASSUME Init, NEW p \in Peer PROVE Paired(p)
    BY DEF Framing
  <2>1. UnderWay(p) = <<>> /\ reading[Other(p)] = <<>>
    BY InitLines, TwoPeers DEF Init
  <2> QED
    BY <2>1 DEF Paired
<1>2. Typing /\ Framing /\ [Step]_vars => Framing'
  <2> SUFFICES ASSUME Typing, Framing, [Step]_vars PROVE Framing'
    OBVIOUS
  <2>1. CASE UNCHANGED vars
    <3>1. UNCHANGED <<writing, reading, wire, seen>>
      BY <2>1 DEF vars, socket
    <3>2. \A r \in Peer : UnderWay(r)' = UnderWay(r)
      BY <3>1, SocketKeptLine
    <3> QED
      BY <3>1, <3>2 DEF Framing, Paired
  <2> QED
    BY <2>1, FramingStep DEF Step
<1> QED
  BY <1>1, <1>2, SpecTyping, PTL DEF Spec
-----------------------------------------------------------------------------
(* A close that nothing disturbs.                                           *)
LEMMA ConfigKept ==
  ASSUME NEW p \in Peer, Poll(p) \/ User(p)
  PROVE  config' = config
<1>1. CASE WritePiece(p) \/ WriteFails(p) \/ SendPing(p) \/ SendPending(p) \/ TakeFrame(p)
  BY <1>1 DEF WritePiece, WriteFails, SendPing, SendPending, TakeFrame
<1>2. CASE ReadPiece(p) \/ ReadEnd(p)
  BY <1>2 DEF ReadPiece, ReadEnd
<1>3. CASE DrainCommand(p) \/ FinishDraining(p) \/ FlushFrame(p) \/ FinishFlushing(p)
  BY <1>3 DEF DrainCommand, FinishDraining, FlushFrame, FinishFlushing
<1>4. CASE CloseSocket(p) \/ FinishCleanup(p) \/ BeginSend(p) \/ EndSend(p) \/ DropStream(p)
  BY <1>4 DEF CloseSocket, FinishCleanup, BeginSend, EndSend, DropStream
<1>5. CASE Close(p) \/ DropConnection(p)
  BY <1>5 DEF Close, DropConnection
<1> QED
  BY Zenon, <1>1, <1>2, <1>3, <1>4, <1>5 DEF Poll, User

(* A disturbance is for good.                                               *)
LEMMA CalmBefore ==
  ASSUME Typing, NEW p \in Peer, Poll(p) \/ User(p), Calm'
  PROVE  Calm /\ config' = config
<1>1. config' = config
  BY ConfigKept
<1>2. ASSUME NEW r \in Peer, terminating[r] \/ conn[r] = "Dropped"
      PROVE  terminating'[r] \/ conn'[r] = "Dropped"
  <2>1. CASE r # p
    <3>1. Local(r)' = Local(r)
      BY <2>1, OtherLocal
    <3> QED
      BY <1>2, <3>1 DEF Local
  <2>2. CASE r = p /\ terminating[p]
    BY <2>2, ActiveBefore
  <2>3. CASE r = p /\ conn[p] = "Dropped"
    <3>1. ~WritePiece(p) /\ ~WriteFails(p) /\ ~SendPing(p) /\ ~SendPending(p) /\ ~TakeFrame(p)
      BY <2>3 DEF WritePiece, WriteFails, SendPing, SendPending, TakeFrame
    <3>2. ~ReadPiece(p) /\ ~ReadEnd(p) /\ ~DrainCommand(p) /\ ~FinishDraining(p)
      BY Zenon, <2>3 DEF ReadPiece, ReadEnd, DrainCommand, FinishDraining
    <3>3. ~FlushFrame(p) /\ ~FinishFlushing(p) /\ ~CloseSocket(p) /\ ~FinishCleanup(p)
      BY <2>3 DEF FlushFrame, FinishFlushing, CloseSocket, FinishCleanup
    <3>4. ~BeginSend(p) /\ ~DropStream(p) /\ ~Close(p) /\ ~DropConnection(p)
      BY <2>3 DEF BeginSend, DropStream, Close, DropConnection
    <3>5. EndSend(p)
      BY Zenon, <3>1, <3>2, <3>3, <3>4 DEF Poll, User
    <3> QED
      BY <2>3, <3>5 DEF EndSend
  <2> QED
    BY <1>2, <2>1, <2>2, <2>3
<1> QED
  BY <1>1, <1>2 DEF Calm, Disturbed

(* What p has said and its peer has read ends there.                        *)
LEMMA HeardAll ==
  ASSUME Typing, Flushing, NEW p \in Peer, Heard(Other(p))
  PROVE  Said(p) /\ UnderWay(p) = <<>>
<1> DEFINE s == seen[Other(p)]
           t == UnderWay(p)
<1>1. s \in Seq(Piece) /\ t \in Seq(Piece)
  BY LineTyped
<1>2. TermLast(p)
  BY DEF Flushing, Accounted, Ledger, Closed
<1>3. PICK k \in 1 .. Len(s) : s[k].frame = Term
  BY DEF Heard
<1>4. /\ Len(s) \in Nat /\ Len(t) \in Nat /\ Len(s \o t) = Len(s) + Len(t)
      /\ (s \o t)[k] = s[k]
  BY <1>1, OfConcat
<1>5. Line(p) = s \o t
  BY DEF Line
<1> HIDE DEF s, t
<1>6. k \in 1 .. Len(Line(p)) /\ Line(p)[k].frame = Term
  BY <1>3, <1>4, <1>5
<1>7. k = Len(Line(p))
  BY <1>2, <1>6 DEF TermLast
<1>8. Len(t) = 0
  BY <1>4, <1>5, <1>7
<1>9. t = <<>>
  BY <1>1, <1>8, EmptySeq
<1> QED
  BY <1>6, <1>9 DEF Said, t

LEMMA SilentHeard ==
  ASSUME Typing, NEW p \in Peer, Silent(p), wire[p] = <<>>
  PROVE  Heard(Other(p))
<1>1. seen[Other(p)] \in Seq(Piece)
  BY LineTyped
<1>2. UnderWay(p) = <<>>
  <2>1. wire[p] = <<>> /\ writing[p] = <<>> /\ <<>> \in Seq(Piece)
    BY LineTyped DEF Silent
  <2>2. <<>> \o <<>> = <<>>
    BY <2>1, ConcatEmptySeq
  <2> QED
    BY <2>1, <2>2 DEF UnderWay
<1>3. Line(p) = seen[Other(p)]
  BY <1>1, <1>2, ConcatEmptySeq DEF Line
<1> QED
  BY <1>3 DEF Silent, Said, Heard

LEMMA HeardKept ==
  ASSUME Typing, NEW p \in Peer,
         \/ WritePiece(p) \/ SendPing(p) \/ SendPending(p) \/ FlushFrame(p)
         \/ WriteFails(p) \/ TakeFrame(p) \/ ReadEnd(p) \/ DrainCommand(p) \/ FinishDraining(p)
         \/ FinishFlushing(p) \/ CloseSocket(p) \/ FinishCleanup(p) \/ User(p)
  PROVE  Heard(p)' <=> Heard(p)
<1>1. WritePiece(p) => seen' = seen
  BY DEF WritePiece
<1>2. SendPing(p) \/ SendPending(p) \/ FlushFrame(p) => seen' = seen
  BY SendsOne, SendLine
<1>3. seen' = seen
  BY Zenon, <1>1, <1>2, SocketKept
<1> QED
  BY <1>3 DEF Heard

(* Who has said everything says no more; what has been heard stays heard.   *)
LEMMA SilentKept ==
  ASSUME Typing, Flushing, Flushing', NEW p \in Peer, Poll(p) \/ User(p)
  PROVE  /\ Silent(p) => Silent(p)'
         /\ Heard(p) => Heard(p)'
<1>1. ASSUME Silent(p) PROVE Silent(p)'
  <2>1. Said(p) /\ writing[p] = <<>>
    BY <1>1 DEF Silent
  <2>2. ASSUME NEW f \in Frames, Sent(p, f) PROVE FALSE
    <3> DEFINE s == Line(p)
               t == Pieces(f)
    <3>1. s \in Seq(Piece) /\ t \in Seq(Piece) /\ Len(t) \in {1, 2}
      BY LineTyped, PiecesOf
    <3>2. Line(p)' = s \o t
      BY <2>2, SendLine
    <3>3. PICK k \in 1 .. Len(s) : s[k].frame = Term
      BY <2>1 DEF Said
    <3>4. /\ Len(s) \in Nat /\ Len(s \o t) = Len(s) + Len(t)
          /\ (s \o t)[k] = s[k]
      BY <3>1, OfConcat
    <3>5. TermLast(p)'
      BY DEF Flushing, Accounted, Ledger, Closed
    <3> DEFINE l == Len(s)
               m == Len(t)
               n == Len(s \o t)
    <3>a. l \in Nat /\ m \in {1, 2} /\ n = l + m /\ k \in 1 .. l
      BY <3>1, <3>4
    <3> HIDE DEF s, t, l, m, n
    <3>b. k \in 1 .. n /\ k # n
      BY <3>a
    <3>6. k \in 1 .. Len(s \o t) /\ (s \o t)[k].frame = Term /\ k # Len(s \o t)
      BY <3>3, <3>4, <3>b DEF n
    <3>7. k \in 1 .. Len(Line(p)') /\ Line(p)'[k].frame = Term /\ k # Len(Line(p)')
      BY Zenon, <3>2, <3>6
    <3> QED
      BY Zenon, <3>5, <3>7 DEF TermLast
  <2>3. Line(p)' = Line(p)
    BY <2>2, LineSteps
  <2>4. writing'[p] = writing[p]
    <3>1. ~WritePiece(p)
      BY <2>1 DEF WritePiece, Ready
    <3>2. ReadPiece(p) => writing' = writing
      BY ReadLine
    <3>3. ~SendPing(p) /\ ~SendPending(p) /\ ~FlushFrame(p)
      BY <2>2, SendsOne
    <3>4. ReadPiece(p) \/ UNCHANGED <<writing, reading, wire, seen>>
      BY Zenon, <3>1, <3>3, SocketKept DEF Poll
    <3> QED
      BY <3>2, <3>4
  <2> QED
    BY <2>1, <2>3, <2>4 DEF Silent, Said
<1>2. ASSUME ReadPiece(p), Heard(p) PROVE Heard(p)'
  <2> DEFINE c == Head(wire[Other(p)])
  <2>1. seen[p] \in Seq(Piece) /\ c \in Piece /\ seen'[p] = Append(seen[p], c)
    BY <1>2, ReadLine, LineTyped
  <2>2. PICK k \in 1 .. Len(seen[p]) : seen[p][k].frame = Term
    BY <1>2 DEF Heard
  <2>3. /\ Len(seen[p]) \in Nat /\ Len(seen'[p]) = Len(seen[p]) + 1 /\ seen'[p][k] = seen[p][k]
    BY <2>1, OfAppend
  <2> QED
    BY <2>2, <2>3 DEF Heard
<1>3. CASE WritePiece(p) \/ SendPing(p) \/ SendPending(p) \/ FlushFrame(p) \/ User(p)
  BY <1>1, <1>3, HeardKept
<1>4. CASE \/ WriteFails(p) \/ TakeFrame(p) \/ ReadEnd(p) \/ DrainCommand(p)
           \/ FinishDraining(p) \/ FinishFlushing(p) \/ CloseSocket(p) \/ FinishCleanup(p)
  BY <1>1, <1>4, HeardKept
<1> QED
  BY Zenon, <1>1, <1>2, <1>3, <1>4 DEF Poll

(* No frame of a close between well-behaved peers is a violation's.         *)
LEMMA ClosingPolite ==
  ASSUME Typing, NEW p \in Peer, Sends(p), pending_terminate[p] = None
  PROVE  \A k \in 1 .. Len(TakePendingFrames(p)) : Peaceable(TakePendingFrames(p)[k])
<1> DEFINE Ok(s) == s \in Seq(Frames) /\ \A k \in 1 .. Len(s) : Peaceable(s[k])
<1>1. ASSUME NEW f \in Frames \cup {None}, f = None \/ Peaceable(f) PROVE Ok(Some(f))
  <2>1. CASE f = None
    BY <2>1 DEF Some
  <2>2. CASE f # None
    <3>1. Some(f) = <<f>> /\ f \in Frames /\ Peaceable(f)
      BY <1>1, <2>2 DEF Some
    <3> QED
      BY <3>1
  <2> QED
    BY <2>1, <2>2
<1>2. ASSUME NEW s, NEW t, Ok(s), Ok(t) PROVE Ok(s \o t)
  <2>1. /\ Len(s) \in Nat /\ Len(t) \in Nat /\ s \o t \in Seq(Frames)
        /\ Len(s \o t) = Len(s) + Len(t)
        /\ \A k \in 1 .. Len(s) : (s \o t)[k] = s[k]
        /\ \A k \in Len(s) + 1 .. Len(s) + Len(t) : (s \o t)[k] = t[k - Len(s)]
    BY <1>2, OfConcat
  <2>2. ASSUME NEW k \in 1 .. Len(s \o t) PROVE Peaceable((s \o t)[k])
    <3>1. CASE k \in 1 .. Len(s)
      BY <1>2, <2>1, <3>1
    <3>2. CASE k \in Len(s) + 1 .. Len(s) + Len(t)
      <4>1. (s \o t)[k] = t[k - Len(s)] /\ k - Len(s) \in 1 .. Len(t)
        BY <2>1, <3>2
      <4> QED
        BY <1>2, <4>1
    <3> QED
      BY <2>1, <3>1, <3>2
  <2> QED
    BY <2>1, <2>2
<1> HIDE DEF Ok
<1>3. /\ pending_write_frame[p] \in Frames \cup {None} /\ owed_close[p] \in Frames \cup {None}
      /\ PendingPong(p) \in Frames \cup {None} /\ pending_terminate[p] \in Frames \cup {None}
      /\ TakePendingFrames(p)
           = Some(pending_terminate[p]) \o (Some(PendingPong(p)) \o Staged(p))
  BY StagedFrames DEF Typing
<1>4. /\ pending_write_frame[p] = None \/ Peaceable(pending_write_frame[p])
      /\ owed_close[p] = None \/ Peaceable(owed_close[p])
  BY DEF Sends, OfStream, Peaceable
<1>5. PendingPong(p) = None \/ Peaceable(PendingPong(p))
  BY FrameTypes DEF PendingPong, Peaceable
<1>6. Ok(Staged(p))
  BY <1>1, <1>2, <1>3, <1>4 DEF Staged
<1>7. Ok(TakePendingFrames(p))
  <2>1. Ok(Some(PendingPong(p))) /\ Ok(Some(pending_terminate[p]))
    BY <1>1, <1>3, <1>5
  <2> QED
    BY <1>2, <1>3, <1>6, <2>1
<1> QED
  BY <1>7 DEF Ok

LEMMA PoliteStep ==
  ASSUME Typing, NEW p \in Peer, Sends(p), Polite(p), Poll(p) \/ User(p), ~Disturbed'
  PROVE  Polite(p)'
<1>t. /\ pending_frames \in [Peer -> Seq(Frames)] /\ DriverTyped
      /\ pending_terminate \in [Peer -> {ProtocolError, None}]
      /\ pending_frames[p] \in Seq(Frames) /\ terminating \in [Peer -> BOOLEAN]
  BY DEF Typing, ControlTyped, DriverTyped
<1>p. /\ pending_terminate[p] = None
      /\ \A k \in 1 .. Len(Line(p)) : Peaceable(Line(p)[k].frame)
      /\ \A k \in 1 .. Len(pending_frames[p]) : Peaceable(pending_frames[p][k])
  BY DEF Polite
<1>1. ASSUME Line(p)' = Line(p), pending_frames'[p] = pending_frames[p],
             pending_terminate'[p] \in {None, pending_terminate[p]}
      PROVE  Polite(p)'
  BY <1>1, <1>p DEF Polite
<1>2. ASSUME NEW f \in Frames, Sent(p, f), Peaceable(f)
      PROVE  \A k \in 1 .. Len(Line(p)') : Peaceable(Line(p)'[k].frame)
  <2> DEFINE s == Line(p)
             t == Pieces(f)
  <2>1. s \in Seq(Piece) /\ t \in Seq(Piece) /\ Len(t) = Size(f)
    BY LineTyped, PiecesOf
  <2>2. \A k \in 1 .. Len(t) : t[k].frame = f
    <3> SUFFICES ASSUME NEW k \in 1 .. Len(t) PROVE t[k].frame = f
      OBVIOUS
    <3>1. Pieces(f)[k] = [frame |-> f, k |-> k]
      BY <2>1, PiecesOf
    <3> QED
      BY <3>1
  <2>3. Line(p)' = s \o t
    BY <1>2, SendLine
  <2>s. s \in Seq(Piece) /\ t \in Seq(Piece)
    BY <2>1
  <2> HIDE DEF s, t
  <2>4. /\ Len(s) \in Nat /\ Len(t) \in Nat /\ Len(s \o t) = Len(s) + Len(t)
        /\ \A k \in 1 .. Len(s) : (s \o t)[k] = s[k]
        /\ \A k \in Len(s) + 1 .. Len(s) + Len(t) : (s \o t)[k] = t[k - Len(s)]
    BY <2>s, OfConcat
  <2>5. \A k \in 1 .. Len(s) : Peaceable(s[k].frame)
    BY <1>p DEF s
  <2>6. ASSUME NEW k \in 1 .. Len(s \o t) PROVE Peaceable((s \o t)[k].frame)
    <3>1. CASE k \in 1 .. Len(s)
      BY <2>4, <2>5, <3>1
    <3>2. CASE k \in Len(s) + 1 .. Len(s) + Len(t)
      <4>1. (s \o t)[k] = t[k - Len(s)] /\ k - Len(s) \in 1 .. Len(t)
        BY <2>4, <3>2
      <4> QED
        BY <1>2, <2>2, <4>1
    <3> QED
      BY <2>4, <3>1, <3>2
  <2> QED
    BY <2>3, <2>6
<1>3. ASSUME \/ \E w : StartClosing(p, w)
             \/ \E r : StartCleanup(p, r)
             \/ PeerClosed(p) \/ Fail(p) \/ DropConnection(p),
             Line(p)' = Line(p)
      PROVE  Polite(p)'
  <2>1. ASSUME NEW w, StartClosing(p, w) PROVE Polite(p)'
    <3>1. pending_frames' = [pending_frames EXCEPT ![p] = TakePendingFrames(p)] /\ LeaveActive(p)
      BY <2>1 DEF StartClosing
    <3>2. pending_frames'[p] = TakePendingFrames(p) /\ pending_terminate'[p] = None
      BY <1>t, <3>1, LeavingTyped
    <3>3. \A k \in 1 .. Len(pending_frames'[p]) : Peaceable(pending_frames'[p][k])
      BY <1>p, <3>2, ClosingPolite
    <3> QED
      BY <1>3, <1>p, <3>2, <3>3 DEF Polite
  <2>2. ASSUME LeaveActive(p), pending_frames' = pending_frames PROVE Polite(p)'
    <3>1. pending_terminate'[p] = None
      BY <1>t, <2>2, LeavingTyped
    <3> QED
      BY <1>1, <1>3, <2>2, <3>1
  <2>3. ASSUME NEW r, StartCleanup(p, r) PROVE Polite(p)'
    BY <2>2, <2>3 DEF StartCleanup
  <2>4. CASE PeerClosed(p)
    BY <2>1, <2>3, <2>4 DEF PeerClosed
  <2>5. CASE Fail(p)
    BY <1>1, <1>3, <2>3, <2>5 DEF Fail, driver, closing
  <2>6. CASE DropConnection(p)
    BY <2>2, <2>6 DEF DropConnection, closing
  <2> QED
    BY <1>3, <2>1, <2>3, <2>4, <2>5, <2>6
<1>4. CASE \/ WritePiece(p) \/ TakeFrame(p) \/ BeginSend(p) \/ EndSend(p) \/ DropStream(p)
           \/ FinishFlushing(p) \/ CloseSocket(p) \/ FinishCleanup(p)
  <2>1. pending_frames' = pending_frames /\ pending_terminate' = pending_terminate
    BY <1>4 DEF WritePiece, TakeFrame, BeginSend, EndSend, DropStream, FinishFlushing,
                CloseSocket, FinishCleanup, driver, closing
  <2>2. Line(p)' = Line(p)
    BY <1>4, WriteLine, SocketKept, SocketKeptLine DEF User
  <2> QED
    BY <1>1, <2>1, <2>2
<1>5. CASE DrainCommand(p) \/ FinishDraining(p)
  <2>1. PICK f \in Frames : /\ pending_frames' = [pending_frames EXCEPT ![p] = Append(@, f)]
                            /\ Peaceable(f) /\ pending_terminate' = pending_terminate
    <3>1. CASE DrainCommand(p)
      <4>1. chan[p] \in Seq(Frames) /\ chan[p] # <<>>
        BY <3>1 DEF DrainCommand, Typing, AppTyped
      <4>2. Head(chan[p]) \in Frames /\ Head(chan[p]) = chan[p][1] /\ 1 \in 1 .. Len(chan[p])
        BY <4>1, OfTail
      <4>3. Peaceable(Head(chan[p]))
        BY <4>2 DEF Sends, OfStream, Peaceable
      <4> QED
        BY <3>1, <4>2, <4>3 DEF DrainCommand, driver
    <3>2. CASE FinishDraining(p)
      BY <3>2, FrameTypes DEF FinishDraining, driver, Peaceable
    <3> QED
      BY <1>5, <3>1, <3>2
  <2>2. Line(p)' = Line(p)
    BY <1>5, SocketKept, SocketKeptLine
  <2>3. pending_frames'[p] = Append(pending_frames[p], f)
    BY <1>t, <2>1
  <2>4. \A k \in 1 .. Len(pending_frames'[p]) : Peaceable(pending_frames'[p][k])
    <3> DEFINE s == pending_frames[p]
               l == Len(s)
    <3>1. /\ l \in Nat /\ Len(Append(s, f)) = l + 1 /\ Append(s, f)[l + 1] = f
          /\ \A k \in 1 .. l : Append(s, f)[k] = s[k]
      BY <1>t, <2>1, OfAppend
    <3>2. \A k \in 1 .. l : Peaceable(s[k])
      BY <1>p
    <3> HIDE DEF s, l
    <3>3. \A k \in 1 .. l + 1 : Peaceable(Append(s, f)[k])
      BY <2>1, <3>1, <3>2
    <3> QED
      BY <2>3, <3>1, <3>3 DEF s
  <2> QED
    BY <1>p, <2>1, <2>2, <2>4 DEF Polite
<1>6. CASE FlushFrame(p)
  <2> DEFINE s == pending_frames[p]
             f == Head(s)
  <2>1. /\ s # <<>> /\ Sent(p, f) /\ pending_frames' = [pending_frames EXCEPT ![p] = Tail(@)]
        /\ pending_terminate' = pending_terminate
    BY <1>6 DEF FlushFrame, Sent, driver
  <2>2. /\ f \in Frames /\ f = s[1] /\ 1 \in 1 .. Len(s) /\ Len(Tail(s)) = Len(s) - 1
        /\ \A k \in 1 .. Len(s) - 1 : Tail(s)[k] = s[k + 1] /\ k + 1 \in 1 .. Len(s)
    BY <1>t, <2>1, OfTail
  <2>3. pending_frames'[p] = Tail(s)
    BY <1>t, <2>1
  <2>4. \A k \in 1 .. Len(s) : Peaceable(s[k])
    BY <1>p
  <2> HIDE DEF s
  <2>5. Peaceable(f) /\ \A k \in 1 .. Len(Tail(s)) : Peaceable(Tail(s)[k])
    BY <2>2, <2>4
  <2>6. \A k \in 1 .. Len(Line(p)') : Peaceable(Line(p)'[k].frame)
    BY <1>2, <2>1, <2>2, <2>5
  <2>7. pending_terminate'[p] = None
    BY <1>p, <2>1
  <2> QED
    BY <2>3, <2>5, <2>6, <2>7 DEF Polite
<1>7. CASE SendPing(p) \/ SendPending(p)
  <2>1. PICK f \in Frames : Sent(p, f) /\ Peaceable(f)
    <3>1. CASE SendPing(p)
      <4>1. PICK n \in Nonce : Sent(p, Frame("Ping", n))
        BY <3>1 DEF SendPing, Sent
      <4>2. Frame("Ping", n) \in Frames /\ Peaceable(Frame("Ping", n))
        BY FrameTypes DEF Peaceable
      <4> QED
        BY <4>1, <4>2
    <3>2. CASE pending_pong[p] # None /\ Sent(p, Frame("Pong", pending_pong[p]))
      <4>1. pending_pong[p] \in Nonce
        BY <3>2 DEF Typing, DriverTyped
      <4>2. /\ Frame("Pong", pending_pong[p]) \in Frames
            /\ Peaceable(Frame("Pong", pending_pong[p]))
        BY <4>1, FrameTypes DEF Peaceable
      <4> QED
        BY <3>2, <4>2
    <3>3. CASE pending_write_frame[p] # None /\ Sent(p, pending_write_frame[p])
      <4>1. pending_write_frame[p] \in Frames /\ Peaceable(pending_write_frame[p])
        BY <3>3 DEF Typing, DriverTyped, Sends, OfStream, Peaceable
      <4> QED
        BY <3>3, <4>1
    <3> QED
      BY <1>7, <1>p, <3>1, <3>2, <3>3 DEF SendPending, Sent
  <2>2. pending_frames' = pending_frames /\ pending_terminate' = pending_terminate
    BY <1>7, <1>p DEF SendPing, SendPending, closing
  <2>3. \A k \in 1 .. Len(Line(p)') : Peaceable(Line(p)'[k].frame)
    BY <1>2, <2>1
  <2> QED
    BY <1>p, <2>2, <2>3 DEF Polite
<1>8. CASE WriteFails(p) \/ ReadEnd(p) \/ Close(p) \/ DropConnection(p)
  <2>1. Line(p)' = Line(p)
    BY <1>8, SocketKept, SocketKeptLine DEF User
  <2>2. CASE ReadEnd(p)
    <3>1. \/ Fail(p) \/ PeerClosed(p) \/ UNCHANGED <<result, shut, gone, driver, closing>>
      BY Zenon, <2>2 DEF ReadEnd
    <3>2. CASE UNCHANGED <<result, shut, gone, driver, closing>>
      BY <1>1, <2>1, <3>2 DEF driver, closing
    <3> QED
      BY <1>3, <2>1, <3>1, <3>2
  <2>3. CASE WriteFails(p) \/ Close(p) \/ DropConnection(p)
    BY <1>3, <2>1, <2>3 DEF WriteFails, Close
  <2> QED
    BY <1>8, <2>2, <2>3
<1>9. CASE ReadPiece(p)
  <2>1. Line(p)' = Line(p)
    BY <1>9, ReadLine
  <2>2. ~terminating'[p]
    BY DEF Disturbed
  <2>3. PICK f : \/ Stay /\ UNCHANGED driver
                 \/ OnFrame(p, f)
                 \/ AwaitGoAway(p, f)
    BY Zenon, <1>9 DEF ReadPiece
  <2>4. CASE (Stay /\ UNCHANGED driver) \/ AwaitGoAway(p, f)
    BY <1>1, <2>1, <2>4 DEF Stay, AwaitGoAway, driver, closing
  <2>5. CASE OnFrame(p, f)
    <3>1. CASE PeerClosed(p) \/ StartCleanup(p, "error")
      BY <1>3, <2>1, <3>1
    <3>2. CASE Stay /\ (UNCHANGED driver \/ UNCHANGED pending_terminate)
      BY <1>1, <2>1, <3>2 DEF Stay, driver, closing
    <3>3. CASE Stay /\ (OnData(p) \/ HandlePong(p, f.n))
      <4>1. ~(terminating' = [terminating EXCEPT ![p] = TRUE])
        BY <1>t, <2>2
      <4>2. pending_terminate' = pending_terminate
        BY <3>3, <4>1 DEF OnData, HandlePong
      <4> QED
        BY <1>1, <2>1, <3>3, <4>2 DEF Stay, closing
    <3> QED
      BY <2>5, <3>1, <3>2, <3>3 DEF OnFrame
  <2> QED
    BY <2>3, <2>4, <2>5
<1> QED
  BY Zenon, <1>4, <1>5, <1>6, <1>7, <1>8, <1>9 DEF Poll, User

(* In a calm run nobody finds the socket closed: who lets go of it has      *)
(* heard Term, or has said it.                                              *)
LEMMA NothingUnderWay ==
  ASSUME Typing, NEW p \in Peer, UnderWay(p) = <<>>
  PROVE  wire[p] = <<>> /\ writing[p] = <<>>
<1> DEFINE s == wire[p]
           t == writing[p]
           a == Len(s)
           b == Len(t)
<1>1. s \in Seq(Piece) /\ t \in Seq(Piece) /\ UnderWay(p) = s \o t
  BY LineTyped DEF UnderWay
<1> HIDE DEF s, t
<1>2. a \in Nat /\ b \in Nat /\ Len(s \o t) = a + b
  BY <1>1, OfConcat
<1>3. Len(s \o t) = 0
  BY <1>1
<1> HIDE DEF a, b
<1>4. a = 0 /\ b = 0
  BY <1>2, <1>3
<1>5. s = <<>> /\ t = <<>>
  BY <1>1, <1>4, EmptySeq DEF a, b
<1> QED
  BY <1>5 DEF s, t

LEMMA NoEnd ==
  ASSUME Typing, Flushing, Calm, Peaceful, NEW p \in Peer
  PROVE  ~WriteFails(p) /\ ~ReadEnd(p)
<1> DEFINE q == Other(p)
<1>q. q \in Peer /\ Other(q) = p
  BY TwoPeers
<1>1. Orderly(p) /\ Orderly(q)
  BY <1>q DEF Peaceful
<1>2. Heard(q) => Said(p) /\ writing[p] = <<>>
  BY HeardAll, NothingUnderWay
<1> HIDE DEF q
<1>3. ~WriteFails(p)
  <2> SUFFICES ASSUME WriteFails(p) PROVE FALSE
    OBVIOUS
  <2>1. gone[q] /\ writing[p] # <<>>
    BY DEF WriteFails, Ready, q
  <2> QED
    BY <1>1, <1>2, <2>1 DEF Orderly
<1>4. ~ReadEnd(p)
  <2> SUFFICES ASSUME ReadEnd(p) PROVE FALSE
    OBVIOUS
  <2>1. conn[p] \in {"Active", "WaitingForReply"} /\ wire[q] = <<>> /\ shut[q]
    BY DEF ReadEnd, q
  <2>2. ~Heard(p)
    BY <1>1, <2>1 DEF Orderly, Listening
  <2>3. ~Silent(q)
    BY <1>q, <2>1, <2>2, SilentHeard
  <2>4. Heard(q) /\ ~config[q].close_sync
    BY <1>1, <2>1, <2>3 DEF Orderly
  <2>5. ~config[p].close_sync
    BY <1>q, <2>4 DEF Calm
  <2>6. conn[p] = "Active"
    BY <1>1, <2>1, <2>5 DEF Orderly, Listening
  <2>7. ~Said(p)
    BY <2>6, TermOnLine DEF Flushing, Accounted, Ledger, Unsaid
  <2> QED
    BY <1>2, <2>4, <2>7
<1> QED
  BY <1>3, <1>4

(* What p reads is on the line of its peer.                                 *)
LEMMA ReadsTerm ==
  ASSUME Typing, NEW p \in Peer, NEW q \in Peer, q = Other(p), Polite(q), ReadPiece(p), ~Heard(p),
         NEW c, c = Head(wire[q])
  PROVE  /\ c.frame = Term => Whole(c)
         /\ Heard(p)' <=> c.frame = Term
         /\ c.frame.tag = "GoAway" => c.frame = Term
         /\ c.frame \in Frames
<1> DEFINE s == seen[p]
           u == UnderWay(q)
<1>1. /\ s \in Seq(Piece) /\ u \in Seq(Piece) /\ u # <<>> /\ c \in Piece /\ c = Head(u)
      /\ seen'[p] = Append(s, c)
  BY ReadLine, LineTyped
<1>2. c.frame \in Frames /\ c.k \in 1 .. 2 /\ c.k <= Size(c.frame)
  BY <1>1, PieceFields
<1>3. c.frame = Term => Whole(c)
  BY <1>2, FrameTypes DEF Size, Whole
<1>4. Heard(p)' <=> c.frame = Term
  <2>1. /\ Len(s) \in Nat /\ Len(Append(s, c)) = Len(s) + 1 /\ Append(s, c)[Len(s) + 1] = c
        /\ \A k \in 1 .. Len(s) : Append(s, c)[k] = s[k]
    BY <1>1, OfAppend
  <2>2. \A k \in 1 .. Len(s) : s[k].frame # Term
    BY DEF Heard
  <2> HIDE DEF s
  <2>3. (\E k \in 1 .. Len(Append(s, c)) : Append(s, c)[k].frame = Term) <=> c.frame = Term
    BY <2>1, <2>2
  <2> QED
    BY <1>1, <2>3 DEF Heard
<1>5. Peaceable(c.frame)
  <2>1. Line(q) = s \o u
    BY TwoPeers DEF Line
  <2>2. /\ Len(s) \in Nat /\ Len(u) \in Nat /\ Len(s \o u) = Len(s) + Len(u)
        /\ \A k \in 1 .. Len(u) : (s \o u)[Len(s) + k] = u[k]
    BY <1>1, OfConcat
  <2>3. u[1] = c /\ 1 \in 1 .. Len(u)
    BY <1>1, OfTail
  <2>4. \A k \in 1 .. Len(Line(q)) : Peaceable(Line(q)[k].frame)
    BY DEF Polite
  <2> HIDE DEF s, u
  <2>5. Len(s) + 1 \in 1 .. Len(Line(q)) /\ Line(q)[Len(s) + 1] = c
    BY <2>1, <2>2, <2>3
  <2> QED
    BY <2>4, <2>5
<1> QED
  BY <1>2, <1>3, <1>4, <1>5 DEF Peaceable

LEMMA OrderlyStep ==
  ASSUME Typing, Flushing, Flushing', Calm, Calm', Peaceful, NEW p \in Peer, Poll(p) \/ User(p)
  PROVE  Orderly(p)'
<1> DEFINE q == Other(p)
<1>q. q \in Peer /\ Polite(q) /\ Orderly(p)
  BY TwoPeers DEF Peaceful
<1>t. /\ conn \in [Peer -> State] /\ io \in [Peer -> BOOLEAN] /\ result \in [Peer -> {None, "ok", "error"}]
      /\ shut \in [Peer -> BOOLEAN] /\ gone \in [Peer -> BOOLEAN]
      /\ wait_for_reply \in [Peer -> BOOLEAN] /\ config[p].close_sync \in BOOLEAN
  BY MuxClosingAssumption DEF Typing, ControlTyped
<1>n. result[p] # "error" /\ "ok" # "error"
  BY <1>q DEF Orderly
<1>c. config' = config /\ ~WriteFails(p) /\ ~ReadEnd(p)
  BY CalmBefore, NoEnd
<1>s. (Silent(p) => Silent(p)') /\ (Heard(p) => Heard(p)')
  BY SilentKept
<1> HIDE DEF q
<1>1. ASSUME Heard(p)' <=> Heard(p),
             UNCHANGED <<conn[p], wait_for_reply[p], gone[p], shut[p], io[p], result[p]>>
      PROVE  Orderly(p)'
  BY <1>1, <1>q, <1>c, <1>s DEF Orderly, Listening, Leaves, Finished
<1>2. CASE \/ WritePiece(p) \/ SendPing(p) \/ SendPending(p) \/ TakeFrame(p) \/ DrainCommand(p)
           \/ FlushFrame(p) \/ BeginSend(p) \/ EndSend(p) \/ DropStream(p)
  <2>1. UNCHANGED <<conn, wait_for_reply, gone, shut, io, result>>
    <3>1. CASE WritePiece(p) \/ TakeFrame(p) \/ DrainCommand(p) \/ BeginSend(p) \/ EndSend(p)
      BY <3>1 DEF WritePiece, TakeFrame, DrainCommand, BeginSend, EndSend, closing, socket
    <3>2. CASE SendPing(p) \/ SendPending(p) \/ FlushFrame(p) \/ DropStream(p)
      BY <3>2 DEF SendPing, SendPending, FlushFrame, DropStream, StartSend, closing, socket
    <3> QED
      BY <1>2, <3>1, <3>2
  <2>2. Heard(p)' <=> Heard(p)
    BY <1>2, HeardKept DEF User
  <2> QED
    BY <1>1, <2>1, <2>2
<1>3. CASE FinishDraining(p)
  <2>1. /\ conn[p] = "DrainingStreamReceiver" /\ conn'[p] = "FlushingPendingFrames"
        /\ UNCHANGED <<wait_for_reply, gone, shut, io, result>>
    BY <1>3, <1>t DEF FinishDraining, closing, socket
  <2>2. Heard(p)' <=> Heard(p)
    BY <1>3, HeardKept
  <2> QED
    BY <1>c, <1>q, <1>s, <2>1, <2>2 DEF Orderly, Listening, Leaves, Finished
<1>4. CASE FinishFlushing(p)
  <2>1. /\ conn[p] = "FlushingPendingFrames" /\ writing[p] = <<>> /\ pending_frames[p] = <<>>
        /\ conn'[p] = IF wait_for_reply[p] THEN "WaitingForReply" ELSE "ClosingSocket"
        /\ UNCHANGED <<wait_for_reply, gone, shut, io, result>>
    BY <1>4, <1>t DEF FinishFlushing, Ready, closing, socket
  <2>2. Heard(p)' <=> Heard(p)
    BY <1>4, HeardKept
  <2>3. Silent(p)
    <3>1. Said(p)
      BY <2>1 DEF Flushing, Accounted, Ledger, Saying, OneTerm
    <3> QED
      BY <2>1, <3>1 DEF Silent
  <2> QED
    BY <1>c, <1>q, <1>s, <2>1, <2>2, <2>3 DEF Orderly, Listening, Leaves, Finished
<1>5. CASE CloseSocket(p)
  <2>1. /\ conn[p] = "ClosingSocket" /\ conn'[p] = "Closed" /\ result'[p] = "ok"
        /\ UNCHANGED <<wait_for_reply, gone>>
    BY <1>5, <1>t DEF CloseSocket, closing
  <2>2. Heard(p)' <=> Heard(p)
    BY <1>5, HeardKept
  <2> QED
    BY <1>c, <1>n, <1>q, <1>s, <2>1, <2>2 DEF Orderly, Listening, Leaves, Finished
<1>6. CASE FinishCleanup(p)
  <2>1. /\ conn[p] = "Cleanup" /\ conn'[p] = "Closed"
        /\ UNCHANGED <<wait_for_reply, gone, shut, io, result>>
    BY <1>6, <1>t DEF FinishCleanup, closing, socket
  <2>2. Heard(p)' <=> Heard(p)
    BY <1>6, HeardKept
  <2> QED
    BY <1>c, <1>q, <1>s, <2>1, <2>2 DEF Orderly, Listening, Leaves, Finished
<1>7. CASE Close(p)
  <2>1. /\ conn[p] = "Active" /\ conn'[p] = "DrainingStreamReceiver"
        /\ wait_for_reply'[p] = config[p].close_sync
        /\ UNCHANGED <<gone, shut, io, result>>
    BY <1>7, <1>t DEF Close, StartClosing
  <2>2. Heard(p)' <=> Heard(p)
    BY <1>7, HeardKept DEF User
  <2> QED
    BY <1>c, <1>q, <1>s, <2>1, <2>2 DEF Orderly, Listening, Leaves, Finished
<1>8. ~DropConnection(p)
  <2> SUFFICES ASSUME DropConnection(p) PROVE FALSE
    OBVIOUS
  <2>1. conn'[p] = "Dropped"
    BY <1>t DEF DropConnection
  <2> QED
    BY <2>1 DEF Calm, Disturbed
<1>9. CASE ReadPiece(p)
  <2> DEFINE c == Head(wire[q])
  <2>1. conn[p] \in {"Active", "WaitingForReply"} /\ UNCHANGED io
    BY <1>9 DEF ReadPiece
  <2>2. ~Heard(p)
    BY <1>q, <2>1 DEF Orderly, Listening
  <2>3. IF ~Whole(c) THEN Stay /\ UNCHANGED driver
        ELSE IF conn[p] = "Active" THEN OnFrame(p, c.frame)
        ELSE AwaitGoAway(p, c.frame)
    BY Zenon, <1>9 DEF ReadPiece, q
  <2>4. /\ c.frame = Term => Whole(c)
        /\ Heard(p)' <=> c.frame = Term
        /\ c.frame.tag = "GoAway" => c.frame = Term
    BY <1>9, <1>q, <2>2, ReadsTerm DEF q
  <2>5. ~terminating[p]
    BY DEF Calm, Disturbed
  <2> HIDE DEF c
  <2>6. CASE c.frame # Term
    <3>1. Heard(p)' <=> Heard(p)
      BY <2>2, <2>4, <2>6
    <3>2. c.frame.tag # "GoAway"
      BY <2>4, <2>6
    <3>3. c.frame # ProtocolError
      BY <3>2, FrameTypes
    <3>4. UNCHANGED <<conn, wait_for_reply, gone, shut, result>>
      <4>1. CASE Stay
        BY <4>1 DEF Stay, closing
      <4>2. CASE AwaitGoAway(p, c.frame)
        BY <3>2, <4>2 DEF AwaitGoAway, closing
      <4>3. OnFrame(p, c.frame) => Stay
        BY <2>5, <2>6, <3>3 DEF OnFrame
      <4> QED
        BY <2>3, <4>1, <4>2, <4>3
    <3> QED
      BY <1>1, <2>1, <3>1, <3>4
  <2>7. CASE c.frame = Term /\ conn[p] = "Active"
    <3>1. Heard(p)' /\ ~io[p]
      BY <1>q, <1>t, <2>4, <2>7 DEF Orderly
    <3>2. PeerClosed(p)
      <4>1. OnFrame(p, Term)
        BY <2>3, <2>4, <2>7
      <4> QED
        BY <2>5, <4>1, FrameTypes DEF OnFrame
    <3>3. CASE config[p].close_sync /\ StartClosing(p, FALSE)
      <4>1. /\ conn'[p] = "DrainingStreamReceiver" /\ ~wait_for_reply'[p]
            /\ UNCHANGED <<gone, shut, result>>
        BY <1>t, <3>3 DEF StartClosing
      <4> QED
        BY <1>c, <1>q, <1>s, <2>1, <3>1, <4>1 DEF Orderly, Listening, Leaves, Finished
    <3>4. CASE ~config[p].close_sync /\ StartCleanup(p, "ok")
      <4>1. conn'[p] = "Cleanup" /\ result'[p] = "ok"
        BY <1>t, <3>4 DEF StartCleanup
      <4> QED
        BY <1>c, <1>n, <2>1, <3>1, <3>4, <4>1 DEF Orderly, Listening, Leaves, Finished
    <3> QED
      BY <3>2, <3>3, <3>4 DEF PeerClosed
  <2>8. CASE c.frame = Term /\ conn[p] # "Active"
    <3>1. Heard(p)' /\ conn[p] = "WaitingForReply" /\ AwaitGoAway(p, Term)
      BY <2>1, <2>3, <2>4, <2>8
    <3>2. /\ conn'[p] = "ClosingSocket"
          /\ UNCHANGED <<wait_for_reply, gone, shut, result>>
      BY <1>t, <3>1, FrameTypes DEF AwaitGoAway, closing
    <3>3. ~io[p] /\ Silent(p)
      BY <1>q, <1>t, <3>1 DEF Orderly
    <3> QED
      BY <1>c, <1>q, <1>s, <2>1, <3>1, <3>2, <3>3 DEF Orderly, Listening, Leaves, Finished
  <2> QED
    BY <2>6, <2>7, <2>8
<1> QED
  BY Zenon, <1>2, <1>3, <1>4, <1>5, <1>6, <1>7, <1>8, <1>9, <1>c DEF Poll, User

LEMMA SpecPeaceful == Spec => []Peaceful
<1>1. Init => Peaceful
  <2> SUFFICES ASSUME Init, NEW p \in Peer PROVE Polite(p) /\ Orderly(p)
    BY DEF Peaceful
  <2>1. Line(p) = <<>> /\ seen[p] = <<>> /\ pending_frames[p] = <<>>
    BY InitLines DEF Init
  <2>2. ~Heard(p)
    BY <2>1 DEF Heard
  <2>3. Polite(p)
    BY <2>1 DEF Init, Polite
  <2>4. /\ conn[p] = "Active" /\ ~io[p] /\ ~gone[p] /\ ~shut[p] /\ result[p] = None
        /\ None # "error"
    BY NoneAssumption DEF Init
  <2>5. Orderly(p)
    BY <2>2, <2>4 DEF Orderly, Listening, Leaves, Finished
  <2> QED
    BY <2>3, <2>5
<1>2. Typing /\ Flushing /\ Flushing' /\ Peaceful /\ [Step]_vars => Peaceful'
  <2> SUFFICES ASSUME Typing, Flushing, Flushing', Peaceful, [Step]_vars, Calm',
                      NEW r \in Peer
               PROVE  Polite(r)' /\ Orderly(r)'
    BY DEF Peaceful
  <2>1. ASSUME Calm, config' = config, Local(r)' = Local(r), Line(r)' = Line(r)
        PROVE  Polite(r)' /\ Orderly(r)'
    <3>1. Polite(r) /\ Orderly(r)
      BY <2>1 DEF Peaceful
    <3>2. /\ UNCHANGED <<conn[r], result[r], io[r], writing[r], shut[r], gone[r], seen[r]>>
          /\ UNCHANGED <<pending_terminate[r], pending_frames[r], wait_for_reply[r]>>
      BY <2>1 DEF Local
    <3>3. Polite(r)'
      BY <2>1, <3>1, <3>2 DEF Polite
    <3>4. (Heard(r)' <=> Heard(r)) /\ (Silent(r)' <=> Silent(r))
      BY <2>1, <3>2 DEF Heard, Silent, Said
    <3>5. Orderly(r)'
      BY <2>1, <3>1, <3>2, <3>4 DEF Orderly, Listening, Leaves, Finished
    <3> QED
      BY <3>3, <3>5
  <2>2. CASE UNCHANGED vars
    <3>1. Local(r)' = Local(r) /\ Line(r)' = Line(r) /\ UNCHANGED <<config, terminating>>
      BY <2>2, StutterKept
    <3>2. conn' = conn
      BY <2>2 DEF vars
    <3>3. Calm
      BY <3>1, <3>2 DEF Calm, Disturbed
    <3> QED
      BY <2>1, <3>1, <3>3
  <2>3. CASE Step
    <3>1. PICK p \in Peer : Poll(p) \/ User(p)
      BY <2>3 DEF Step
    <3>2. Calm /\ config' = config
      BY <3>1, CalmBefore
    <3>3. CASE r # p
      BY <2>1, <3>1, <3>2, <3>3, OtherLocal, LineSteps
    <3>4. CASE r = p
      <4>1. Sends(p) /\ Polite(p)
        BY <3>2 DEF Flushing, Accounted, Peaceful
      <4>2. ~Disturbed'
        BY DEF Calm
      <4> QED
        BY <3>1, <3>2, <3>4, <4>1, <4>2, PoliteStep, OrderlyStep
    <3> QED
      BY <3>3, <3>4
  <2> QED
    BY <2>2, <2>3
<1> QED
  BY <1>1, <1>2, SpecTyping, SpecFlushing, PTL DEF Spec

(* connection.rs:134, 146: a close between undisturbed peers of one mind    *)
(* about close_sync is an error for neither; and when both have closed with *)
(* close_sync, the io each gets back holds no piece of a frame.             *)
THEOREM SpecGracefulClose == Spec => []GracefulClose
<1>1. Typing /\ Flushing /\ Framing /\ Peaceful => GracefulClose
  <2> SUFFICES ASSUME Typing, Flushing, Framing, Peaceful PROVE GracefulClose
    OBVIOUS
  <2>1. ASSUME Calm, NEW p \in Peer PROVE result[p] # "error"
    BY <2>1 DEF Peaceful, Orderly
  <2>2. ASSUME ~Disturbed, \A p \in Peer : io[p] /\ config[p].close_sync, NEW p \in Peer
        PROVE  wire[p] = <<>> /\ writing[p] = <<>> /\ reading[p] = <<>>
    <3> DEFINE q == Other(p)
    <3>1. q \in Peer /\ Other(q) = p
      BY TwoPeers
    <3>2. Calm
      <4>1. \A r \in Peer : config[r].close_sync = TRUE
        BY <2>2, MuxClosingAssumption DEF Typing, ControlTyped
      <4> QED
        BY <2>2, <4>1 DEF Calm
    <3>3. Heard(p) /\ Heard(q)
      BY <2>2, <3>1, <3>2 DEF Peaceful, Orderly, Finished
    <3>4. UnderWay(p) = <<>> /\ UnderWay(q) = <<>>
      BY <3>1, <3>3, HeardAll
    <3>5. reading[p] = <<>>
      BY <3>1, <3>4 DEF Framing, Paired
    <3> QED
      BY <3>4, <3>5, NothingUnderWay
  <2> QED
    BY <2>1, <2>2 DEF GracefulClose, Calm
<1> QED
  BY <1>1, SpecTyping, SpecFlushing, SpecFraming, SpecPeaceful, PTL
=============================================================================
