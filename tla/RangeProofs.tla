------------------------------- MODULE RangeProofs ------------------------------
(***************************************************************************)
(* Proofs about the operations of RangeSet on its vector and about the      *)
(* iterators that hold ranges (modules Ranges and RangeVector): for vectors *)
(* and operands of any length, over all the integers.  The provers cannot   *)
(* take a predicate for a parameter: what is proved by induction is stated  *)
(* as membership in a set, and the value of a fold is reached through the   *)
(* steps that lead to it.                                                   *)
(***************************************************************************)
EXTENDS RangeVector, FiniteSetTheorems, SequenceTheorems, WellFoundedInduction, TLAPS

(* A set of natural numbers has a least element. *)
LEMMA LeastNat ==
  ASSUME NEW T \in SUBSET Nat, T # {}
  PROVE  \E m \in T : \A k \in T : m <= k
<1>1. IsWellFoundedOn(OpToRel(<, Nat), Nat)
  BY NatLessThanWellFounded
<1>2. PICK m \in T : \A k \in T : <<k, m>> \notin OpToRel(<, Nat)
  BY <1>1, WFMin
<1>3. \A k \in T : ~(k < m)
  BY <1>2, Zenon DEF OpToRel
<1>4. \A k \in T : m <= k
  BY <1>3
<1> QED
  BY <1>4

(* Induction over the natural numbers, by the least exception. *)
LEMMA NatSet ==
  ASSUME NEW S, 0 \in S, \A n \in Nat : n \in S => n + 1 \in S
  PROVE  \A n \in Nat : n \in S
<1> DEFINE T == {n \in Nat : n \notin S}
<1>1. SUFFICES ASSUME T # {} PROVE FALSE
  OBVIOUS
<1>2. PICK m \in T : \A k \in T : m <= k
  BY <1>1, LeastNat
<1>3. m \in Nat /\ m # 0 /\ m - 1 \in Nat /\ m - 1 \notin T
  BY <1>2
<1> QED
  BY <1>2, <1>3

(* A prefix of 1 .. n is counted by its last element. *)
LEMMA PrefixCount ==
  ASSUME NEW n \in Nat, NEW P \in SUBSET (1 .. n), \A i \in P : \A j \in 1 .. i : j \in P
  PROVE  Cardinality(P) \in 0 .. n /\ P = 1 .. Cardinality(P)
<1> DEFINE T == {k \in Nat : k + 1 \notin P}
<1>1. n \in T
  OBVIOUS
<1>2. PICK m \in T : \A k \in T : m <= k
  BY <1>1, LeastNat
<1>3. P = 1 .. m
  <2>1. ASSUME NEW i \in P PROVE i \in 1 .. m
    <3>1. i \in Nat /\ i >= 1
      OBVIOUS
    <3>2. ~(m + 1 <= i)
      BY <1>2, <3>1
    <3> QED
      BY <1>2, <3>1, <3>2
  <2>2. ASSUME NEW i \in 1 .. m PROVE i \in P
    <3>1. i - 1 \in Nat /\ ~(m <= i - 1)
      BY <1>2
    <3>2. i - 1 \notin T
      BY <1>2, <3>1
    <3> QED
      BY <3>1, <3>2
  <2> QED
    BY <2>1, <2>2
<1>4. m <= n /\ m \in Nat
  BY <1>1, <1>2
<1>5. Cardinality(1 .. m) = m
  BY <1>4, FS_Interval
<1> QED
  BY <1>3, <1>4, <1>5
-----------------------------------------------------------------------------
(* Vectors whose ranges lie in order, each before all that follow.          *)
Precedes(s, t) == \A i \in 1 .. Len(s), j \in 1 .. Len(t) : s[i].end < t[j].start
Ordered(s) ==
  /\ \A k \in 1 .. Len(s) : s[k].start < s[k].end
  /\ \A i, j \in 1 .. Len(s) : i < j => s[i].end < s[j].start

(* What the bounds of a range in a vector are. *)
LEMMA Spans ==
  ASSUME NEW rs \in Seq(Span)
  PROVE  /\ DOMAIN rs = 1 .. Len(rs) /\ Len(rs) \in Nat
         /\ \A k \in 1 .. Len(rs) : rs[k] \in Span /\ rs[k].start \in Int /\ rs[k].end \in Int
<1>1. \A k \in 1 .. Len(rs) : rs[k] \in Span
  OBVIOUS
<1>2. \A r \in Span : r.start \in Int /\ r.end \in Int
  BY DEF Span
<1> QED
  BY <1>1, <1>2

(* What the code asks of neighbours holds of any two ranges. *)
LEMMA NormalIsOrdered ==
  ASSUME NEW rs \in Seq(Span)
  PROVE  Normal(rs) <=> Ordered(rs)
<1>1. \A k \in 1 .. Len(rs) : rs[k].start \in Int /\ rs[k].end \in Int
  BY Spans
<1>2. ASSUME Ordered(rs) PROVE Normal(rs)
  BY <1>1, <1>2 DEF Ordered, Normal, Empty
<1>3. ASSUME Normal(rs) PROVE Ordered(rs)
  <2>1. \A k \in 1 .. Len(rs) : rs[k].start < rs[k].end
    BY <1>1, <1>3 DEF Normal, Empty
  <2> DEFINE S == {n \in Nat : \A i, j \in 1 .. Len(rs) :
                                 i < j /\ j <= n => rs[i].end < rs[j].start}
  <2>2. 0 \in S
    OBVIOUS
  <2>3. ASSUME NEW n \in Nat, n \in S PROVE n + 1 \in S
    <3>1. SUFFICES ASSUME NEW i \in 1 .. Len(rs), NEW j \in 1 .. Len(rs), i < j, j <= n + 1
                   PROVE  rs[i].end < rs[j].start
      OBVIOUS
    <3>2. CASE j <= n
      BY <2>3, <3>1, <3>2
    <3>3. CASE j = n + 1 /\ i = n
      <4>1. n \in 1 .. Len(rs) - 1
        BY <3>1, <3>3
      <4> QED
        BY <1>3, <3>3, <4>1 DEF Normal
    <3>4. CASE j = n + 1 /\ i < n
      <4>1. n \in 1 .. Len(rs) - 1
        BY <3>1, <3>4
      <4>2. rs[i].end < rs[n].start
        BY <2>3, <3>4, <4>1
      <4>3. rs[n].end < rs[n + 1].start
        BY <1>3, <4>1 DEF Normal
      <4>4. n + 1 \in 1 .. Len(rs)
        BY <4>1
      <4> QED
        BY <1>1, <2>1, <3>4, <4>1, <4>2, <4>3, <4>4
    <3> QED
      BY <3>1, <3>2, <3>3, <3>4
  <2> HIDE DEF S
  <2>4. Len(rs) \in S
    BY <2>2, <2>3, NatSet
  <2> USE DEF S
  <2> QED
    BY <2>1, <2>4 DEF Ordered
<1> QED
  BY <1>2, <1>3

(* Two vectors in order, one before the other, make one in order. *)
LEMMA ConcatAt ==
  ASSUME NEW s \in Seq(Span), NEW t \in Seq(Span)
  PROVE  /\ s \o t \in Seq(Span)
         /\ \A k \in 1 .. Len(s \o t) : (\E m \in 1 .. Len(s) : (s \o t)[k] = s[m])
                                       \/ \E m \in 1 .. Len(t) : (s \o t)[k] = t[m]
<1>1. Len(s \o t) = Len(s) + Len(t) /\ s \o t \in Seq(Span)
  OBVIOUS
<1>2. ASSUME NEW k \in 1 .. Len(s \o t)
      PROVE  (\E m \in 1 .. Len(s) : (s \o t)[k] = s[m])
             \/ \E m \in 1 .. Len(t) : (s \o t)[k] = t[m]
  <2>1. CASE k <= Len(s)
    <3>1. k \in 1 .. Len(s) /\ (s \o t)[k] = s[k]
      BY <1>1, <2>1
    <3> QED
      BY <3>1
  <2>2. CASE k > Len(s)
    <3>1. k - Len(s) \in 1 .. Len(t) /\ (s \o t)[k] = t[k - Len(s)]
      BY <1>1, <2>2
    <3> QED
      BY <3>1
  <2> QED
    BY <1>1, <2>1, <2>2
<1> QED
  BY <1>1, <1>2

LEMMA OrderedConcat ==
  ASSUME NEW s \in Seq(Span), NEW t \in Seq(Span), Ordered(s), Ordered(t), Precedes(s, t)
  PROVE  Ordered(s \o t) /\ s \o t \in Seq(Span)
<1> DEFINE u == s \o t
<1>1. Len(u) = Len(s) + Len(t) /\ u \in Seq(Span)
      /\ \A k \in 1 .. Len(u) : u[k] = IF k <= Len(s) THEN s[k] ELSE t[k - Len(s)]
  OBVIOUS
<1> HIDE DEF u
<1>2. ASSUME NEW k \in 1 .. Len(u) PROVE u[k].start < u[k].end
  <2>1. CASE k <= Len(s)
    <3>1. k \in 1 .. Len(s) /\ u[k] = s[k]
      BY <1>1, <2>1
    <3> QED
      BY <3>1 DEF Ordered
  <2>2. CASE k > Len(s)
    <3>1. k - Len(s) \in 1 .. Len(t) /\ u[k] = t[k - Len(s)]
      BY <1>1, <2>2
    <3> QED
      BY <3>1 DEF Ordered
  <2> QED
    BY <1>1, <2>1, <2>2
<1>3. ASSUME NEW i \in 1 .. Len(u), NEW j \in 1 .. Len(u), i < j PROVE u[i].end < u[j].start
  <2>1. CASE j <= Len(s)
    <3>1. i \in 1 .. Len(s) /\ j \in 1 .. Len(s) /\ u[i] = s[i] /\ u[j] = s[j]
      BY <1>1, <1>3, <2>1
    <3> QED
      BY <1>3, <3>1 DEF Ordered
  <2>2. CASE i > Len(s)
    <3>1. /\ i - Len(s) \in 1 .. Len(t) /\ j - Len(s) \in 1 .. Len(t)
          /\ i - Len(s) < j - Len(s) /\ u[i] = t[i - Len(s)] /\ u[j] = t[j - Len(s)]
      BY <1>1, <1>3, <2>2
    <3> QED
      BY <3>1 DEF Ordered
  <2>3. CASE i <= Len(s) /\ j > Len(s)
    <3>1. i \in 1 .. Len(s) /\ u[i] = s[i]
      BY <1>1, <2>3
    <3>2. j - Len(s) \in 1 .. Len(t) /\ u[j] = t[j - Len(s)]
      BY <1>1, <2>3
    <3> QED
      BY <3>1, <3>2 DEF Precedes
  <2> QED
    BY <1>1, <2>1, <2>2, <2>3
<1> QED
  BY <1>1, <1>2, <1>3 DEF Ordered, u

(* The integers of a vector: those that lie in one of its ranges. *)
LEMMA ValuesIn ==
  ASSUME NEW s \in Seq(Span), NEW v
  PROVE  v \in Values(s) <=> v \in Int /\ \E k \in 1 .. Len(s) : s[k].start <= v /\ v < s[k].end
<1>1. \A k \in 1 .. Len(s) : s[k].start \in Int /\ s[k].end \in Int
  BY Spans
<1>2. v \in Values(s) <=> \E k \in 1 .. Len(s) : v \in s[k].start .. (s[k].end - 1)
  BY DEF Values, ValuesOf
<1> QED
  BY <1>1, <1>2

(* A concatenation holds what its parts hold. *)
LEMMA ValuesConcat ==
  ASSUME NEW s \in Seq(Span), NEW t \in Seq(Span)
  PROVE  Values(s \o t) = Values(s) \cup Values(t)
<1>1. ASSUME NEW v \in Values(s \o t) PROVE v \in Values(s) \cup Values(t)
  <2>1. PICK k \in 1 .. Len(s \o t) : v \in ValuesOf((s \o t)[k])
    BY DEF Values
  <2>2. CASE k <= Len(s)
    BY <2>1, <2>2 DEF Values
  <2>3. CASE k > Len(s)
    <3>1. k - Len(s) \in 1 .. Len(t) /\ (s \o t)[k] = t[k - Len(s)]
      BY <2>1, <2>3
    <3> QED
      BY <2>1, <3>1 DEF Values
  <2> QED
    BY <2>1, <2>2, <2>3
<1>2. ASSUME NEW k \in 1 .. Len(s) PROVE ValuesOf(s[k]) \subseteq Values(s \o t)
  <2>1. k \in 1 .. Len(s \o t) /\ (s \o t)[k] = s[k]
    OBVIOUS
  <2> QED
    BY <2>1 DEF Values
<1>3. ASSUME NEW k \in 1 .. Len(t) PROVE ValuesOf(t[k]) \subseteq Values(s \o t)
  <2>1. k + Len(s) \in 1 .. Len(s \o t) /\ (s \o t)[k + Len(s)] = t[k]
    OBVIOUS
  <2> QED
    BY <2>1 DEF Values
<1>4. Values(s) \cup Values(t) \subseteq Values(s \o t)
  <2>1. DOMAIN s = 1 .. Len(s) /\ DOMAIN t = 1 .. Len(t)
    OBVIOUS
  <2>2. Values(s) \subseteq Values(s \o t)
    BY <1>2, <2>1 DEF Values
  <2>3. Values(t) \subseteq Values(s \o t)
    BY <1>3, <2>1 DEF Values
  <2> QED
    BY <2>2, <2>3
<1> QED
  BY <1>1, <1>4

(* A piece of a vector in order: in order, with the ranges of the piece. *)
LEMMA SubSeqFacts ==
  ASSUME NEW s \in Seq(Span), NEW m \in 1 .. Len(s) + 1, NEW n \in 0 .. Len(s), m <= n + 1, Ordered(s)
  PROVE  /\ SubSeq(s, m, n) \in Seq(Span) /\ Len(SubSeq(s, m, n)) = n - m + 1
         /\ \A k \in 1 .. n - m + 1 : SubSeq(s, m, n)[k] = s[m + k - 1]
         /\ Ordered(SubSeq(s, m, n))
         /\ Values(SubSeq(s, m, n)) = UNION {ValuesOf(s[k]) : k \in m .. n}
<1> DEFINE u == SubSeq(s, m, n)
<1>1. Len(u) = n - m + 1
  BY SubSeqProperties
<1>2. \A k \in 1 .. n - m + 1 : u[k] = s[m + k - 1] /\ m + k - 1 \in m .. n /\ m + k - 1 \in 1 .. Len(s)
  BY SubSeqProperties
<1>3. u \in Seq(Span)
  OBVIOUS
<1> HIDE DEF u
<1>4. Ordered(u)
  <2>1. ASSUME NEW k \in 1 .. Len(u) PROVE u[k].start < u[k].end
    <3>1. u[k] = s[m + k - 1] /\ m + k - 1 \in 1 .. Len(s)
      BY <1>1, <1>2
    <3> QED
      BY <3>1 DEF Ordered
  <2>2. ASSUME NEW i \in 1 .. Len(u), NEW j \in 1 .. Len(u), i < j PROVE u[i].end < u[j].start
    <3>1. /\ u[i] = s[m + i - 1] /\ m + i - 1 \in 1 .. Len(s)
          /\ u[j] = s[m + j - 1] /\ m + j - 1 \in 1 .. Len(s) /\ m + i - 1 < m + j - 1
      BY <1>1, <1>2, <2>2
    <3> QED
      BY <3>1 DEF Ordered
  <2> QED
    BY <2>1, <2>2 DEF Ordered
<1>5. \A k \in m .. n : k - m + 1 \in 1 .. Len(u) /\ u[k - m + 1] = s[k]
  BY <1>1, <1>2
<1>6. DOMAIN u = 1 .. Len(u)
  BY <1>3
<1>7. Values(u) = UNION {ValuesOf(s[k]) : k \in m .. n}
  BY <1>1, <1>2, <1>5, <1>6 DEF Values
<1> QED
  BY <1>1, <1>2, <1>3, <1>4, <1>7 DEF u
-----------------------------------------------------------------------------
(* A vector of at most one range. *)
LEMMA Single ==
  ASSUME NEW r \in Span, r.start < r.end
  PROVE  <<r>> \in Seq(Span) /\ Ordered(<<r>>) /\ Len(<<r>>) = 1 /\ <<r>>[1] = r
         /\ Values(<<r>>) = ValuesOf(r)
<1>1. <<r>> \in Seq(Span) /\ Len(<<r>>) = 1 /\ <<r>>[1] = r
  OBVIOUS
<1>2. DOMAIN <<r>> = {1}
  BY <1>1
<1> QED
  BY <1>1, <1>2 DEF Ordered, Values

(* The empty vector. *)
LEMMA Nothing ==
  <<>> \in Seq(Span) /\ Ordered(<<>>) /\ Len(<<>>) = 0 /\ Values(<<>>) = {}
<1>1. <<>> \in Seq(Span) /\ Len(<<>>) = 0 /\ DOMAIN <<>> = {}
  OBVIOUS
<1> QED
  BY <1>1 DEF Ordered, Values

(* The windows that partition_point finds: those that end at or before p,   *)
(* and those that start before p.                                           *)
LEMMA EndsUpTo ==
  ASSUME NEW rs \in Seq(Span), Ordered(rs), NEW p \in Int
  PROVE  LET P == {k \in DOMAIN rs : rs[k].end <= p}
         IN  Cardinality(P) \in 0 .. Len(rs) /\ P = 1 .. Cardinality(P)
<1> DEFINE P == {k \in DOMAIN rs : rs[k].end <= p}
<1>1. P \in SUBSET (1 .. Len(rs)) /\ Len(rs) \in Nat
  BY Spans
<1>2. ASSUME NEW i \in P, NEW j \in 1 .. i PROVE j \in P
  <2>1. i \in 1 .. Len(rs) /\ j \in 1 .. Len(rs) /\ rs[i].end <= p
    BY <1>1
  <2>2. j < i => rs[j].end < rs[i].start /\ rs[i].start < rs[i].end
    BY <2>1 DEF Ordered
  <2>3. rs[j].end \in Int /\ rs[i].start \in Int /\ rs[i].end \in Int /\ DOMAIN rs = 1 .. Len(rs)
    BY <2>1, Spans
  <2> QED
    BY <2>1, <2>2, <2>3
<1> HIDE DEF P
<1>3. Cardinality(P) \in 0 .. Len(rs) /\ P = 1 .. Cardinality(P)
  BY <1>1, <1>2, PrefixCount
<1> QED
  BY <1>3 DEF P

(* Likewise for those that start before p. *)
LEMMA StartsBefore ==
  ASSUME NEW rs \in Seq(Span), Ordered(rs), NEW p \in Int
  PROVE  LET P == {k \in DOMAIN rs : rs[k].start < p}
         IN  Cardinality(P) \in 0 .. Len(rs) /\ P = 1 .. Cardinality(P)
<1> DEFINE P == {k \in DOMAIN rs : rs[k].start < p}
<1>1. P \in SUBSET (1 .. Len(rs)) /\ Len(rs) \in Nat
  BY Spans
<1>2. ASSUME NEW i \in P, NEW j \in 1 .. i PROVE j \in P
  <2>1. i \in 1 .. Len(rs) /\ j \in 1 .. Len(rs) /\ rs[i].start < p
    BY <1>1
  <2>2. j < i => rs[j].end < rs[i].start /\ rs[j].start < rs[j].end
    BY <2>1 DEF Ordered
  <2>3. rs[j].end \in Int /\ rs[i].start \in Int /\ rs[j].start \in Int /\ DOMAIN rs = 1 .. Len(rs)
    BY <2>1, Spans
  <2> QED
    BY <2>1, <2>2, <2>3
<1> HIDE DEF P
<1>3. Cardinality(P) \in 0 .. Len(rs) /\ P = 1 .. Cardinality(P)
  BY <1>1, <1>2, PrefixCount
<1> QED
  BY <1>3 DEF P

(* remove_range: the splice keeps the order and takes the range out. *)
LEMMA RemoveRangeFacts ==
  ASSUME NEW rs \in Seq(Span), Ordered(rs), NEW r \in Span
  PROVE  /\ RemoveRange(rs, r) \in Seq(Span) /\ Ordered(RemoveRange(rs, r))
         /\ Values(RemoveRange(rs, r)) = Values(rs) \ ValuesOf(r)
<1> DEFINE lo == Cardinality({k \in DOMAIN rs : rs[k].end <= r.start})
           hi == Cardinality({k \in DOMAIN rs : rs[k].start < r.end})
           n == Len(rs)
<1>1. /\ r.start \in Int /\ r.end \in Int /\ n \in Nat /\ DOMAIN rs = 1 .. n
      /\ \A k \in 1 .. n : rs[k].start \in Int /\ rs[k].end \in Int
  BY Spans DEF Span
<1>2. lo \in 0 .. n /\ hi \in 0 .. n
      /\ \A k \in 1 .. n : (k <= lo <=> rs[k].end <= r.start) /\ (k <= hi <=> rs[k].start < r.end)
  <2>1. lo \in 0 .. n /\ {k \in DOMAIN rs : rs[k].end <= r.start} = 1 .. lo
    BY <1>1, EndsUpTo
  <2>2. hi \in 0 .. n /\ {k \in DOMAIN rs : rs[k].start < r.end} = 1 .. hi
    BY <1>1, StartsBefore
  <2> HIDE DEF lo, hi
  <2>3. ASSUME NEW k \in 1 .. n PROVE k <= lo <=> rs[k].end <= r.start
    <3>1. k \in 1 .. lo <=> k <= lo
      BY <1>1, <2>1
    <3>2. k \in {m \in DOMAIN rs : rs[m].end <= r.start} <=> rs[k].end <= r.start
      BY <1>1, Zenon
    <3> QED
      BY <2>1, <3>1, <3>2, Zenon
  <2>4. ASSUME NEW k \in 1 .. n PROVE k <= hi <=> rs[k].start < r.end
    <3>1. k \in 1 .. hi <=> k <= hi
      BY <1>1, <2>2
    <3>2. k \in {m \in DOMAIN rs : rs[m].start < r.end} <=> rs[k].start < r.end
      BY <1>1, Zenon
    <3> QED
      BY <2>2, <3>1, <3>2, Zenon
  <2> QED
    BY <2>1, <2>2, <2>3, <2>4, Zenon
<1>3. CASE Empty(r) \/ hi <= lo
  <2>1. RemoveRange(rs, r) = rs
    BY <1>3 DEF RemoveRange
  <2> HIDE DEF lo, hi
  <2>2. ASSUME NEW v \in Values(rs), v \in ValuesOf(r) PROVE FALSE
    <3>1. v \in Int /\ r.start <= v /\ v < r.end
      BY <1>1, <2>2 DEF ValuesOf
    <3>2. PICK k \in 1 .. n : rs[k].start <= v /\ v < rs[k].end
      BY ValuesIn
    <3>3. hi <= lo
      BY <1>1, <1>3, <3>1 DEF Empty
    <3> QED
      BY <1>1, <1>2, <3>1, <3>2, <3>3
  <2> QED
    BY <2>1, <2>2
<1>4. CASE ~Empty(r) /\ lo < hi
  <2> DEFINE A == SubSeq(rs, 1, lo)
             head == IF rs[lo + 1].start < r.start THEN <<Rg(rs[lo + 1].start, r.start)>> ELSE <<>>
             tail == IF rs[hi].end > r.end THEN <<Rg(r.end, rs[hi].end)>> ELSE <<>>
             D == SubSeq(rs, hi + 1, n)
  <2>1. RemoveRange(rs, r) = A \o head \o tail \o D
    <3>1. ~(hi <= lo)
      BY <1>2, <1>4
    <3> HIDE DEF A, head, tail, D
    <3> QED
      BY <1>4, <3>1 DEF RemoveRange, A, head, tail, D
  <2> HIDE DEF lo, hi
  <2>2. /\ r.start < r.end /\ lo + 1 \in 1 .. n /\ hi \in 1 .. n
        /\ \A k \in 1 .. n : rs[k].start < rs[k].end
        /\ \A i, j \in 1 .. n : i < j => rs[i].end < rs[j].start
    BY <1>1, <1>2, <1>4 DEF Empty, Ordered
  <2>3. /\ A \in Seq(Span) /\ Ordered(A) /\ Len(A) = lo
        /\ \A k \in 1 .. lo : A[k] = rs[k]
        /\ Values(A) = UNION {ValuesOf(rs[k]) : k \in 1 .. lo}
    <3>1. 1 \in 1 .. n + 1 /\ lo \in 0 .. n /\ 1 <= lo + 1 /\ lo - 1 + 1 = lo
      BY <1>1, <1>2
    <3>2. /\ A \in Seq(Span) /\ Ordered(A) /\ Len(A) = lo - 1 + 1
          /\ \A k \in 1 .. lo - 1 + 1 : A[k] = rs[1 + k - 1]
          /\ Values(A) = UNION {ValuesOf(rs[k]) : k \in 1 .. lo}
      BY <3>1, SubSeqFacts
    <3>3. \A k \in 1 .. lo : 1 + k - 1 = k
      BY <1>1, <1>2
    <3> HIDE DEF A
    <3> QED
      BY <3>1, <3>2, <3>3
  <2>4. /\ D \in Seq(Span) /\ Ordered(D) /\ Len(D) = n - hi
        /\ \A k \in 1 .. n - hi : D[k] = rs[hi + k]
        /\ Values(D) = UNION {ValuesOf(rs[k]) : k \in hi + 1 .. n}
    <3>1. hi + 1 \in 1 .. n + 1 /\ n \in 0 .. n /\ hi + 1 <= n + 1 /\ n - (hi + 1) + 1 = n - hi
      BY <1>1, <1>2
    <3>2. /\ D \in Seq(Span) /\ Ordered(D) /\ Len(D) = n - (hi + 1) + 1
          /\ \A k \in 1 .. n - (hi + 1) + 1 : D[k] = rs[hi + 1 + k - 1]
          /\ Values(D) = UNION {ValuesOf(rs[k]) : k \in hi + 1 .. n}
      BY <3>1, SubSeqFacts
    <3>3. \A k \in 1 .. n - hi : hi + 1 + k - 1 = hi + k
      BY <1>1, <1>2
    <3> HIDE DEF D, n
    <3> QED
      BY <3>1, <3>2, <3>3
  <2>5. /\ head \in Seq(Span) /\ Ordered(head)
        /\ \A k \in 1 .. Len(head) : head[k].start = rs[lo + 1].start /\ head[k].end = r.start
        /\ Values(head) = rs[lo + 1].start .. r.start - 1
    <3>1. CASE rs[lo + 1].start < r.start
      <4>1. Rg(rs[lo + 1].start, r.start) \in Span
        BY <1>1, <2>2 DEF Span, Rg
      <4> QED
        BY <3>1, <4>1, Single DEF Rg, ValuesOf
    <3>2. CASE ~(rs[lo + 1].start < r.start)
      <4>1. rs[lo + 1].start .. r.start - 1 = {}
        BY <1>1, <2>2, <3>2
      <4>2. head = <<>>
        BY <3>2
      <4>3. Values(head) = rs[lo + 1].start .. r.start - 1
        BY <4>1, <4>2, Nothing, Zenon
      <4> HIDE DEF head
      <4>4. Len(head) = 0 /\ head \in Seq(Span) /\ Ordered(head)
        BY <4>2, Nothing
      <4> QED
        BY <4>3, <4>4
    <3> QED
      BY <3>1, <3>2
  <2>6. /\ tail \in Seq(Span) /\ Ordered(tail)
        /\ \A k \in 1 .. Len(tail) : tail[k].start = r.end /\ tail[k].end = rs[hi].end
        /\ Values(tail) = r.end .. rs[hi].end - 1
    <3>1. CASE rs[hi].end > r.end
      <4>1. Rg(r.end, rs[hi].end) \in Span
        BY <1>1, <2>2 DEF Span, Rg
      <4> QED
        BY <1>1, <2>2, <3>1, <4>1, Single DEF Rg, ValuesOf
    <3>2. CASE ~(rs[hi].end > r.end)
      <4>1. r.end .. rs[hi].end - 1 = {}
        BY <1>1, <2>2, <3>2
      <4>2. tail = <<>>
        BY <3>2
      <4>3. Values(tail) = r.end .. rs[hi].end - 1
        BY <4>1, <4>2, Nothing, Zenon
      <4> HIDE DEF tail
      <4>4. Len(tail) = 0 /\ tail \in Seq(Span) /\ Ordered(tail)
        BY <4>2, Nothing
      <4> QED
        BY <4>3, <4>4
    <3> QED
      BY <3>1, <3>2
  <2> HIDE DEF A, head, tail, D, n
  <2>7. Precedes(A, head)
    <3>1. SUFFICES ASSUME NEW i \in 1 .. lo, NEW j \in 1 .. Len(head)
                   PROVE  A[i].end < head[j].start
      BY <2>3 DEF Precedes
    <3>2. i \in 1 .. n /\ i < lo + 1 /\ A[i] = rs[i]
      BY <1>1, <1>2, <2>3
    <3> QED
      BY <2>2, <2>5, <3>2
  <2>8. Precedes(A \o head, tail)
    <3>1. SUFFICES ASSUME NEW i \in 1 .. Len(A \o head), NEW j \in 1 .. Len(tail)
                   PROVE  (A \o head)[i].end < r.end
      BY <2>6 DEF Precedes
    <3>2. CASE i <= Len(A)
      <4>1. i \in 1 .. n /\ i <= lo /\ (A \o head)[i] = rs[i]
        BY <1>1, <1>2, <2>3, <2>5, <3>1, <3>2
      <4> QED
        BY <1>1, <1>2, <2>2, <4>1
    <3>3. CASE i > Len(A)
      <4>1. i - Len(A) \in 1 .. Len(head) /\ (A \o head)[i] = head[i - Len(A)]
        BY <2>3, <2>5, <3>1, <3>3
      <4> QED
        BY <2>2, <2>5, <4>1
    <3> QED
      BY <2>3, <2>5, <3>2, <3>3
  <2>9. Precedes((A \o head) \o tail, D)
    <3> DEFINE u == (A \o head) \o tail
    <3>1. ASSUME NEW i \in 1 .. Len(u) PROVE u[i].end <= rs[hi].end /\ u[i].end \in Int
      <4> DEFINE w == A \o head
      <4>0. A \in Seq(Span) /\ head \in Seq(Span) /\ tail \in Seq(Span) /\ w \in Seq(Span)
        BY <2>3, <2>5, <2>6, ConcatAt, Zenon
      <4>1. \/ \E k \in 1 .. Len(A) : u[i] = A[k]
            \/ \E k \in 1 .. Len(head) : u[i] = head[k]
            \/ \E k \in 1 .. Len(tail) : u[i] = tail[k]
        <5>1. u = w \o tail
          BY Zenon
        <5>2. \A k \in 1 .. Len(w) : (\E m \in 1 .. Len(A) : w[k] = A[m])
                                     \/ \E m \in 1 .. Len(head) : w[k] = head[m]
          BY <4>0, ConcatAt, Zenon
        <5> HIDE DEF u, w
        <5>4. \A k \in 1 .. Len(w \o tail) : (\E m \in 1 .. Len(w) : (w \o tail)[k] = w[m])
                                             \/ \E m \in 1 .. Len(tail) : (w \o tail)[k] = tail[m]
          BY <4>0, ConcatAt
        <5>3. (\E k \in 1 .. Len(w) : u[i] = w[k]) \/ \E k \in 1 .. Len(tail) : u[i] = tail[k]
          BY <5>1, <5>4, Zenon
        <5> QED
          BY <5>2, <5>3, Zenon
      <4>2. ASSUME NEW k \in 1 .. Len(A), u[i] = A[k] PROVE u[i].end <= rs[hi].end /\ u[i].end \in Int
        <5>1. k \in 1 .. n /\ k <= lo /\ A[k] = rs[k]
          BY <1>1, <1>2, <2>3
        <5>2. k < hi
          BY <1>2, <1>4, <5>1
        <5> QED
          BY <1>1, <2>2, <4>2, <5>1, <5>2
      <4>3. ASSUME NEW k \in 1 .. Len(head), u[i] = head[k]
            PROVE  u[i].end <= rs[hi].end /\ u[i].end \in Int
        <5>1. u[i].end = r.start
          BY <2>5, <4>3
        <5>2. ~(hi <= lo) /\ lo \in Nat /\ hi \in Nat
          BY <1>2, <1>4
        <5> QED
          BY <1>1, <1>2, <2>2, <5>1, <5>2
      <4>4. ASSUME NEW k \in 1 .. Len(tail), u[i] = tail[k]
            PROVE  u[i].end <= rs[hi].end /\ u[i].end \in Int
        BY <1>1, <2>2, <2>6, <4>4
      <4> HIDE DEF u
      <4> QED
        BY <4>1, <4>2, <4>3, <4>4
    <3>2. ASSUME NEW j \in 1 .. Len(D) PROVE rs[hi].end < D[j].start /\ D[j].start \in Int
      <4>1. D[j] = rs[hi + j] /\ hi + j \in 1 .. n /\ hi < hi + j
        BY <1>1, <1>2, <2>4, <3>2
      <4> QED
        BY <1>1, <2>2, <4>1
    <3> HIDE DEF u
    <3>3. rs[hi].end \in Int
      BY <1>1, <2>2
    <3>4. Precedes(u, D)
      BY <3>1, <3>2, <3>3 DEF Precedes
    <3> QED
      BY <3>4 DEF u
  <2>10. /\ Ordered(A \o head) /\ A \o head \in Seq(Span)
         /\ Ordered((A \o head) \o tail) /\ (A \o head) \o tail \in Seq(Span)
         /\ Ordered(((A \o head) \o tail) \o D) /\ ((A \o head) \o tail) \o D \in Seq(Span)
    <3>1. Ordered(A \o head) /\ A \o head \in Seq(Span)
      BY <2>3, <2>5, <2>7, OrderedConcat
    <3>2. Ordered((A \o head) \o tail) /\ (A \o head) \o tail \in Seq(Span)
      BY <2>6, <2>8, <3>1, OrderedConcat
    <3> QED
      BY <2>4, <2>9, <3>1, <3>2, OrderedConcat
  <2>11. Values(((A \o head) \o tail) \o D) = Values(A) \cup Values(head) \cup Values(tail) \cup Values(D)
    <3>1. Values(A \o head) = Values(A) \cup Values(head)
      BY <2>3, <2>5, ValuesConcat
    <3>2. Values((A \o head) \o tail) = Values(A \o head) \cup Values(tail)
      BY <2>6, <2>10, ValuesConcat
    <3>3. Values(((A \o head) \o tail) \o D) = Values((A \o head) \o tail) \cup Values(D)
      BY <2>4, <2>10, ValuesConcat
    <3> QED
      BY <3>1, <3>2, <3>3
  <2>12. ASSUME NEW v
         PROVE  (v \in Values(A) \/ v \in Values(head) \/ v \in Values(tail) \/ v \in Values(D))
                  <=> v \in Values(rs) /\ v \notin ValuesOf(r)
    <3>1. v \in Values(A) <=> \E k \in 1 .. lo : v \in ValuesOf(rs[k])
      BY <2>3
    <3>2. v \in Values(D) <=> \E k \in hi + 1 .. n : v \in ValuesOf(rs[k])
      BY <2>4
    <3>3. v \in Values(rs) <=> v \in Int /\ \E k \in 1 .. n : rs[k].start <= v /\ v < rs[k].end
      BY ValuesIn DEF n
    <3>4. \A k \in 1 .. n : v \in ValuesOf(rs[k]) <=> v \in Int /\ rs[k].start <= v /\ v < rs[k].end
      BY <1>1 DEF ValuesOf
    <3>5. v \in ValuesOf(r) <=> v \in Int /\ r.start <= v /\ v < r.end
      BY <1>1 DEF ValuesOf
    <3>6. /\ v \in Values(head) <=> v \in Int /\ rs[lo + 1].start <= v /\ v < r.start
          /\ v \in Values(tail) <=> v \in Int /\ r.end <= v /\ v < rs[hi].end
      BY <1>1, <2>2, <2>5, <2>6
    <3>7. ASSUME NEW k \in 1 .. n, v \in Int, rs[k].start <= v, v < rs[k].end, v \notin ValuesOf(r)
          PROVE  v \in Values(A) \/ v \in Values(head) \/ v \in Values(tail) \/ v \in Values(D)
      <4>1. CASE k <= lo
        BY <3>1, <3>4, <3>7, <4>1
      <4>2. CASE k > hi
        <5>1. k \in hi + 1 .. n
          BY <1>2, <4>2
        <5> QED
          BY <3>2, <3>4, <3>7, <5>1
      <4>3. CASE lo < k /\ k <= hi
        <5>1. v < r.start \/ r.end <= v
          BY <1>1, <3>5, <3>7
        <5>2. rs[lo + 1].start <= rs[k].start /\ rs[k].end <= rs[hi].end
          <6>1. k = lo + 1 \/ rs[lo + 1].end < rs[k].start
            BY <1>1, <1>2, <2>2, <4>3
          <6>2. k = hi \/ rs[k].end < rs[hi].start
            BY <1>1, <1>2, <2>2, <4>3
          <6> QED
            BY <1>1, <2>2, <6>1, <6>2
        <5> QED
          BY <1>1, <2>2, <3>6, <3>7, <5>1, <5>2
      <4> QED
        BY <1>2, <4>1, <4>2, <4>3
    <3>8. ASSUME v \in Values(A) PROVE v \in Values(rs) /\ v \notin ValuesOf(r)
      <4>1. PICK k \in 1 .. lo : v \in ValuesOf(rs[k])
        BY <3>1, <3>8
      <4>2. k \in 1 .. n /\ rs[k].end <= r.start
        BY <1>1, <1>2
      <4> QED
        BY <1>1, <3>3, <3>4, <3>5, <4>1, <4>2
    <3>9. ASSUME v \in Values(D) PROVE v \in Values(rs) /\ v \notin ValuesOf(r)
      <4>1. PICK k \in hi + 1 .. n : v \in ValuesOf(rs[k])
        BY <3>2, <3>9
      <4>2. k \in 1 .. n /\ ~(rs[k].start < r.end)
        BY <1>1, <1>2
      <4> QED
        BY <1>1, <3>3, <3>4, <3>5, <4>1, <4>2
    <3>10. ASSUME v \in Values(head) PROVE v \in Values(rs) /\ v \notin ValuesOf(r)
      <4>1. v < rs[lo + 1].end
        BY <1>1, <1>2, <2>2, <3>6, <3>10
      <4> QED
        BY <1>1, <2>2, <3>3, <3>5, <3>6, <3>10, <4>1
    <3>11. ASSUME v \in Values(tail) PROVE v \in Values(rs) /\ v \notin ValuesOf(r)
      <4>1. rs[hi].start < r.end
        BY <1>2, <2>2
      <4> QED
        BY <1>1, <2>2, <3>3, <3>5, <3>6, <3>11, <4>1
    <3> QED
      BY <3>3, <3>7, <3>8, <3>9, <3>10, <3>11
  <2>13. Values(((A \o head) \o tail) \o D) = Values(rs) \ ValuesOf(r)
    BY <2>11, <2>12
  <2> QED
    BY <2>1, <2>10, <2>13
<1>5. lo \in Nat /\ hi \in Nat
  BY <1>2
<1> HIDE DEF lo, hi
<1> QED
  BY <1>3, <1>4, <1>5
-----------------------------------------------------------------------------
(* Folds.  FoldLeft takes the elements of a sequence by their indices, the  *)
(* largest last; what it computes is a function on sets of indices, chosen  *)
(* by its recursive equation, so there must be one.                         *)
LEMMA MaxFacts ==
  /\ \A k \in Nat \ {0} : Max(1 .. k) = k /\ (1 .. k) \ {k} = 1 .. k - 1
  /\ \A n \in Nat : \A T \in SUBSET (1 .. n + 1) : n + 1 \in T => Max(T) = n + 1
<1>1. ASSUME NEW n \in Nat, NEW T \in SUBSET (1 .. n + 1), n + 1 \in T PROVE Max(T) = n + 1
  <2>1. n + 1 \in T /\ \A y \in T : n + 1 >= y
    BY <1>1
  <2>2. Max(T) \in T /\ \A y \in T : Max(T) >= y
    BY <2>1, Zenon DEF Max
  <2>3. Max(T) \in 1 .. n + 1 /\ Max(T) >= n + 1
    BY <2>1, <2>2
  <2> QED
    BY <2>3
<1>2. ASSUME NEW k \in Nat \ {0} PROVE Max(1 .. k) = k
  <2>1. k - 1 \in Nat /\ (k - 1) + 1 = k /\ 1 .. k \in SUBSET (1 .. (k - 1) + 1) /\ k \in 1 .. k
    OBVIOUS
  <2> QED
    BY <1>1, <2>1
<1>3. \A k \in Nat \ {0} : (1 .. k) \ {k} = 1 .. k - 1
  OBVIOUS
<1> QED
  BY <1>1, <1>2, <1>3

Folding(A, F, b, m, xs) ==
  {g \in [SUBSET (1 .. m) -> A] :
     /\ g[{}] = b
     /\ \A T \in (SUBSET (1 .. m)) \ {{}} :
          Max(T) \in T /\ g[T] = F[<<g[T \ {Max(T)}], xs[Max(T)]>>]}

LEMMA FoldExists ==
  ASSUME NEW A, NEW X, NEW F \in [A \X X -> A], NEW b \in A, NEW n \in Nat,
         NEW xs \in [1 .. n -> X]
  PROVE  Folding(A, F, b, n, xs) # {}
<1> DEFINE Sol(m) == Folding(A, F, b, m, xs)
           S == {m \in Nat : m <= n => Sol(m) # {}}
<1>1. 0 \in S
  <2> DEFINE g == [T \in SUBSET (1 .. 0) |-> b]
  <2>1. SUBSET (1 .. 0) = {{}}
    OBVIOUS
  <2>2. g \in [SUBSET (1 .. 0) -> A] /\ g[{}] = b /\ (SUBSET (1 .. 0)) \ {{}} = {}
    BY <2>1
  <2> HIDE DEF g
  <2>3. g \in Sol(0)
    BY <2>2 DEF Folding
  <2> HIDE DEF Sol
  <2> QED
    BY <2>3
<1>2. ASSUME NEW m \in Nat, m \in S PROVE m + 1 \in S
  <2>1. SUFFICES ASSUME m + 1 <= n
                 PROVE  Sol(m + 1) # {}
    <3> HIDE DEF Sol
    <3> QED
      OBVIOUS
  <2>2. PICK g : g \in Sol(m)
    <3>1. m <= n
      BY <2>1
    <3> HIDE DEF Sol
    <3> QED
      BY <1>2, <3>1
  <2> USE DEF Folding
  <2> DEFINE h == [T \in SUBSET (1 .. m + 1) |->
                     IF m + 1 \in T THEN F[<<g[T \ {m + 1}], xs[m + 1]>>] ELSE g[T]]
  <2>3. xs[m + 1] \in X
    BY <2>1
  <2>4. ASSUME NEW T \in SUBSET (1 .. m + 1)
        PROVE  /\ m + 1 \in T => T \ {m + 1} \in SUBSET (1 .. m)
               /\ m + 1 \notin T => T \in SUBSET (1 .. m)
    OBVIOUS
  <2> HIDE DEF h
  <2>g. \A T \in SUBSET (1 .. m) : g[T] \in A
    BY <2>2
  <2> USE DEF h
  <2>5. h \in [SUBSET (1 .. m + 1) -> A]
    <3>1. ASSUME NEW T \in SUBSET (1 .. m + 1), m + 1 \in T
          PROVE  F[<<g[T \ {m + 1}], xs[m + 1]>>] \in A
      <4>1. g[T \ {m + 1}] \in A
        BY <2>4, <2>g, <3>1
      <4> QED
        BY <2>3, <4>1
    <3>2. ASSUME NEW T \in SUBSET (1 .. m + 1), m + 1 \notin T PROVE g[T] \in A
      BY <2>4, <2>g, <3>2
    <3> QED
      BY <3>1, <3>2
  <2>6. \A T \in SUBSET (1 .. m) : T \in SUBSET (1 .. m + 1) /\ m + 1 \notin T /\ h[T] = g[T]
    OBVIOUS
  <2>7. h[{}] = b
    BY <2>2, <2>6
  <2>8. ASSUME NEW T \in (SUBSET (1 .. m + 1)) \ {{}}
        PROVE  Max(T) \in T /\ h[T] = F[<<h[T \ {Max(T)}], xs[Max(T)]>>]
    <3>1. CASE m + 1 \in T
      <4>1. Max(T) = m + 1
        BY <3>1, MaxFacts
      <4>2. h[T \ {m + 1}] = g[T \ {m + 1}]
        BY <2>4, <2>6, <3>1
      <4>3. h[T] = F[<<g[T \ {m + 1}], xs[m + 1]>>]
        BY <3>1
      <4> HIDE DEF h
      <4> QED
        BY <3>1, <4>1, <4>2, <4>3
    <3>2. CASE m + 1 \notin T
      <4>1. T \in (SUBSET (1 .. m)) \ {{}} /\ T \ {Max(T)} \in SUBSET (1 .. m)
        BY <2>4, <3>2
      <4>2. Max(T) \in T /\ g[T] = F[<<g[T \ {Max(T)}], xs[Max(T)]>>]
        BY <2>2, <4>1
      <4>3. h[T] = g[T] /\ h[T \ {Max(T)}] = g[T \ {Max(T)}]
        BY <2>6, <4>1
      <4> HIDE DEF h
      <4> QED
        BY <4>2, <4>3
    <3> QED
      BY <3>1, <3>2
  <2> HIDE DEF h
  <2> QED
    BY <2>5, <2>7, <2>8
<1> HIDE DEF S
<1>3. n \in S
  BY <1>1, <1>2, NatSet
<1>4. Sol(n) # {}
  <2> HIDE DEF Sol
  <2> QED
    BY <1>3 DEF S
<1> QED
  BY <1>4

(* The values of the ranges up to the k-th. *)
LEMMA ValuesUpTo ==
  ASSUME NEW xs \in Seq(Span)
  PROVE  /\ UNION {ValuesOf(xs[j]) : j \in 1 .. 0} = {}
         /\ \A k \in Nat : UNION {ValuesOf(xs[j]) : j \in 1 .. k + 1}
                             = (UNION {ValuesOf(xs[j]) : j \in 1 .. k}) \cup ValuesOf(xs[k + 1])
         /\ UNION {ValuesOf(xs[j]) : j \in 1 .. Len(xs)} = Values(xs)
<1> DEFINE W(j) == ValuesOf(xs[j])
<1>1. 1 .. 0 = {} /\ \A k \in Nat : 1 .. k + 1 = (1 .. k) \cup {k + 1}
  OBVIOUS
<1>2. DOMAIN xs = 1 .. Len(xs)
  OBVIOUS
<1>3. UNION {W(j) : j \in 1 .. Len(xs)} = Values(xs)
  BY <1>2 DEF Values
<1> HIDE DEF W
<1>4. UNION {W(j) : j \in 1 .. 0} = {}
  BY <1>1
<1>5. \A k \in Nat : UNION {W(j) : j \in 1 .. k + 1} = (UNION {W(j) : j \in 1 .. k}) \cup W(k + 1)
  BY <1>1
<1> QED
  BY <1>3, <1>4, <1>5 DEF W

(* difference_mut, as the sequence of its removals. *)
LEMMA DifferenceFold ==
  ASSUME NEW rs \in Seq(Span), Ordered(rs), NEW xs \in Seq(Span)
  PROVE  \E f : /\ f[0] = rs
                /\ \A k \in 1 .. Len(xs) : f[k] = RemoveRange(f[k - 1], xs[k])
                /\ DifferenceWith(rs, xs) = f[Len(xs)]
<1> DEFINE A == {s \in Seq(Span) : Ordered(s)}
           F == [p \in A \X Span |-> RemoveRange(p[1], p[2])]
           n == Len(xs)
           Unfold(g) == [T \in SUBSET (1 .. n) |->
                           IF T = {} THEN rs ELSE RemoveRange(g[T \ {Max(T)}], xs[Max(T)])]
<1>1. n \in Nat /\ DOMAIN xs = 1 .. n /\ xs \in [1 .. n -> Span]
  OBVIOUS
<1>2. F \in [A \X Span -> A]
  BY RemoveRangeFacts
<1>3. \E g : g = Unfold(g)
  <2>1. PICK g \in [SUBSET (1 .. n) -> A] :
               /\ g[{}] = rs
               /\ \A T \in (SUBSET (1 .. n)) \ {{}} :
                    Max(T) \in T /\ g[T] = F[<<g[T \ {Max(T)}], xs[Max(T)]>>]
    <3>1. rs \in A
      OBVIOUS
    <3> HIDE DEF F, A, n
    <3>2. Folding(A, F, rs, n, xs) # {}
      BY <1>1, <1>2, <3>1, FoldExists
    <3> QED
      BY <3>2 DEF Folding
  <2>2. ASSUME NEW T \in SUBSET (1 .. n), T # {}
        PROVE  g[T] = RemoveRange(g[T \ {Max(T)}], xs[Max(T)])
    <3>1. Max(T) \in T /\ g[T] = F[<<g[T \ {Max(T)}], xs[Max(T)]>>]
      BY <2>1, <2>2
    <3>2. T \ {Max(T)} \in SUBSET (1 .. n) /\ g[T \ {Max(T)}] \in A /\ xs[Max(T)] \in Span
      BY <1>1, <3>1
    <3> QED
      BY <3>1, <3>2
  <2>3. g = Unfold(g)
    BY <2>1, <2>2
  <2> QED
    BY <2>3
<1> DEFINE G == CHOOSE g : g = Unfold(g)
           f == [k \in 0 .. n |-> G[1 .. k]]
<1>4. G = Unfold(G)
  BY <1>3, Zenon
<1>5. DifferenceWith(rs, xs) = G[1 .. n]
  <2>1. DifferenceWith(rs, xs) =
          (CHOOSE g : g = [T \in SUBSET DOMAIN xs |->
             IF T = {} THEN rs ELSE RemoveRange(g[T \ {Max(T)}], xs[Max(T)])])[DOMAIN xs]
    BY Zenon DEF DifferenceWith, FoldLeft, MapThenFoldSet
  <2> QED
    BY <1>1, <2>1, Zenon
<1> HIDE DEF G
<1>6. f[0] = rs
  BY <1>1, <1>4
<1>7. ASSUME NEW k \in 1 .. n PROVE f[k] = RemoveRange(f[k - 1], xs[k])
  <2>1. /\ k \in Nat \ {0} /\ k - 1 \in 0 .. n /\ k \in 0 .. n
        /\ 1 .. k \in SUBSET (1 .. n) /\ 1 .. k # {}
    BY <1>1
  <2>2. Max(1 .. k) = k /\ (1 .. k) \ {k} = 1 .. k - 1
    BY <2>1, MaxFacts
  <2>3. G[1 .. k] = RemoveRange(G[(1 .. k) \ {Max(1 .. k)}], xs[Max(1 .. k)])
    BY <1>4, <2>1
  <2> QED
    BY <2>1, <2>2, <2>3
<1>8. f[n] = G[1 .. n]
  BY <1>1
<1> HIDE DEF f
<1> QED
  BY <1>5, <1>6, <1>7, <1>8

(* set.rs:263, 275: difference_mut takes out of the set what the ranges of  *)
(* the operand hold, in whatever order they come and though they overlap,   *)
(* are empty or reversed; the vector stays sorted, non-adjacent and without *)
(* empty ranges at each removal.                                            *)
THEOREM DifferenceExact ==
  ASSUME NEW rs \in Seq(Span), Normal(rs), NEW xs \in Seq(Span)
  PROVE  /\ DifferenceWith(rs, xs) \in Seq(Span) /\ Normal(DifferenceWith(rs, xs))
         /\ Values(DifferenceWith(rs, xs)) = Values(rs) \ Values(xs)
<1>1. Ordered(rs)
  BY NormalIsOrdered
<1>2. PICK f : /\ f[0] = rs
               /\ \A k \in 1 .. Len(xs) : f[k] = RemoveRange(f[k - 1], xs[k])
               /\ DifferenceWith(rs, xs) = f[Len(xs)]
  BY <1>1, DifferenceFold
<1> DEFINE S == {k \in Nat : k <= Len(xs) =>
                   /\ f[k] \in Seq(Span) /\ Ordered(f[k])
                   /\ Values(f[k]) = Values(rs) \ UNION {ValuesOf(xs[j]) : j \in 1 .. k}}
<1>3. 0 \in S
  BY <1>1, <1>2
<1>4. ASSUME NEW k \in Nat, k \in S PROVE k + 1 \in S
  <2>1. SUFFICES ASSUME k + 1 <= Len(xs)
                 PROVE  /\ f[k + 1] \in Seq(Span) /\ Ordered(f[k + 1])
                        /\ Values(f[k + 1]) = Values(rs) \ UNION {ValuesOf(xs[j]) : j \in 1 .. k + 1}
    OBVIOUS
  <2>2. k + 1 \in 1 .. Len(xs) /\ (k + 1) - 1 = k /\ xs[k + 1] \in Span /\ k <= Len(xs)
    BY <2>1
  <2>3. f[k + 1] = RemoveRange(f[k], xs[k + 1])
    BY <1>2, <2>2
  <2>4. /\ f[k] \in Seq(Span) /\ Ordered(f[k])
        /\ Values(f[k]) = Values(rs) \ UNION {ValuesOf(xs[j]) : j \in 1 .. k}
    BY <1>4, <2>2
  <2>5. /\ f[k + 1] \in Seq(Span) /\ Ordered(f[k + 1])
        /\ Values(f[k + 1]) = Values(f[k]) \ ValuesOf(xs[k + 1])
    <3> DEFINE s == f[k]
               r == xs[k + 1]
    <3>1. s \in Seq(Span) /\ Ordered(s) /\ r \in Span /\ f[k + 1] = RemoveRange(s, r)
      BY <2>2, <2>3, <2>4
    <3> HIDE DEF s, r
    <3>2. f[k + 1] \in Seq(Span) /\ Ordered(f[k + 1]) /\ Values(f[k + 1]) = Values(s) \ ValuesOf(r)
      BY <3>1, RemoveRangeFacts
    <3> QED
      BY <3>2 DEF s, r
  <2>6. UNION {ValuesOf(xs[j]) : j \in 1 .. k + 1}
          = (UNION {ValuesOf(xs[j]) : j \in 1 .. k}) \cup ValuesOf(xs[k + 1])
    BY ValuesUpTo
  <2> QED
    BY <2>4, <2>5, <2>6
<1> HIDE DEF S
<1>5. Len(xs) \in S
  BY <1>3, <1>4, NatSet
<1>6. Values(xs) = UNION {ValuesOf(xs[j]) : j \in 1 .. Len(xs)}
  BY ValuesUpTo
<1> DEFINE res == f[Len(xs)]
<1>7. res \in Seq(Span) /\ Ordered(res) /\ Values(res) = Values(rs) \ Values(xs)
  BY <1>5, <1>6 DEF S
<1>8. DifferenceWith(rs, xs) = res
  BY <1>2
<1> HIDE DEF res
<1> QED
  BY <1>7, <1>8, NormalIsOrdered

-----------------------------------------------------------------------------
(* Growing a vector at its end. *)
NonEmpties(s) == \A k \in 1 .. Len(s) : s[k].start < s[k].end

(* The last range grown. *)
LEMMA LastEndingFacts ==
  ASSUME NEW rs \in Seq(Span), NonEmpties(rs), rs # <<>>,
         NEW e \in Int, e >= Last(rs).end
  PROVE  /\ LastEndingAt(rs, e) \in Seq(Span) /\ NonEmpties(LastEndingAt(rs, e))
         /\ Ordered(rs) => Ordered(LastEndingAt(rs, e))
         /\ Values(LastEndingAt(rs, e)) = Values(rs) \cup (Last(rs).end .. e - 1)
         /\ LastEndingAt(rs, e) # <<>> /\ Last(LastEndingAt(rs, e)) = Rg(Last(rs).start, e)
<1> DEFINE n == Len(rs)
           us == LastEndingAt(rs, e)
<1>1. n \in Nat \ {0} /\ n \in 1 .. n /\ Last(rs) = rs[n]
  BY DEF Last
<1>2. \A k \in 1 .. n : rs[k] \in Span /\ rs[k].start \in Int /\ rs[k].end \in Int
  BY Spans
<1>3. Rg(rs[n].start, e) \in Span
  BY <1>1, <1>2 DEF Rg, Span
<1>4. us \in Seq(Span) /\ Len(us) = n
  BY <1>1, <1>3 DEF LastEndingAt
<1>5. \A k \in 1 .. n : us[k] = IF k = n THEN Rg(rs[n].start, e) ELSE rs[k]
  BY <1>1 DEF LastEndingAt
<1> HIDE DEF us
<1>6. \A k \in 1 .. n : us[k].start = rs[k].start /\ us[k].end = IF k = n THEN e ELSE rs[k].end
  BY <1>1, <1>5 DEF Rg
<1>7. rs[n].start < rs[n].end /\ rs[n].end <= e
  BY <1>1 DEF NonEmpties
<1>8. NonEmpties(us)
  BY <1>1, <1>2, <1>4, <1>6, <1>7 DEF NonEmpties
<1>9. ASSUME Ordered(rs) PROVE Ordered(us)
  <2>1. \A i, j \in 1 .. n : i < j => us[i].end < us[j].start
    BY <1>1, <1>2, <1>6, <1>9 DEF Ordered
  <2> QED
    BY <1>4, <1>8, <2>1 DEF Ordered, NonEmpties
<1>10. ASSUME NEW v PROVE v \in Values(us) <=> v \in Values(rs) \cup (rs[n].end .. e - 1)
  <2>1. v \in Values(us) <=> v \in Int /\ \E k \in 1 .. n : us[k].start <= v /\ v < us[k].end
    BY <1>4, ValuesIn
  <2>2. v \in Values(rs) <=> v \in Int /\ \E k \in 1 .. n : rs[k].start <= v /\ v < rs[k].end
    BY ValuesIn
  <2>3. v \in rs[n].end .. e - 1 <=> v \in Int /\ rs[n].end <= v /\ v < e
    BY <1>1, <1>2
  <2>4. ASSUME v \in Int, NEW k \in 1 .. n, us[k].start <= v, v < us[k].end
        PROVE  (rs[k].start <= v /\ v < rs[k].end) \/ (rs[n].end <= v /\ v < e)
    BY <1>2, <1>6, <2>4
  <2>5. ASSUME v \in Int, NEW k \in 1 .. n, rs[k].start <= v, v < rs[k].end
        PROVE  us[k].start <= v /\ v < us[k].end
    BY <1>2, <1>6, <1>7, <2>5
  <2>6. ASSUME v \in Int, rs[n].end <= v, v < e PROVE us[n].start <= v /\ v < us[n].end
    BY <1>1, <1>2, <1>6, <1>7, <2>6
  <2> QED
    BY <1>1, <2>1, <2>2, <2>3, <2>4, <2>5, <2>6
<1>11. us # <<>> /\ Last(us) = us[n]
  BY <1>1, <1>4 DEF Last
<1> QED
  BY <1>1, <1>4, <1>5, <1>8, <1>9, <1>10, <1>11 DEF us

(* A range appended. *)
LEMMA AppendFacts ==
  ASSUME NEW rs \in Seq(Span), NonEmpties(rs), NEW r \in Span, r.start < r.end
  PROVE  /\ Append(rs, r) \in Seq(Span) /\ NonEmpties(Append(rs, r))
         /\ Values(Append(rs, r)) = Values(rs) \cup ValuesOf(r)
         /\ Append(rs, r) # <<>> /\ Last(Append(rs, r)) = r
         /\ Ordered(rs) /\ (rs = <<>> \/ Last(rs).end < r.start) => Ordered(Append(rs, r))
<1> DEFINE n == Len(rs)
           us == Append(rs, r)
<1>1. n \in Nat /\ us \in Seq(Span) /\ Len(us) = n + 1 /\ us[n + 1] = r
      /\ \A k \in 1 .. n : us[k] = rs[k]
  OBVIOUS
<1>2. us = rs \o <<r>>
  OBVIOUS
<1>3. Values(us) = Values(rs) \cup ValuesOf(r)
  BY <1>2, Single, ValuesConcat
<1>4. us # <<>> /\ Last(us) = r
  BY <1>1 DEF Last
<1>5. NonEmpties(us)
  <2>1. ASSUME NEW k \in 1 .. n + 1 PROVE us[k].start < us[k].end
    BY <1>1 DEF NonEmpties
  <2> QED
    BY <1>1, <2>1 DEF NonEmpties
<1>6. ASSUME Ordered(rs), rs = <<>> \/ Last(rs).end < r.start PROVE Ordered(us)
  <2>1. Precedes(rs, <<r>>)
    <3>1. ASSUME NEW i \in 1 .. n PROVE rs[i].end < r.start
      <4>1. n \in 1 .. n /\ Last(rs) = rs[n] /\ rs # <<>>
        BY <1>1 DEF Last
      <4>2. rs[i].end \in Int /\ rs[n].start \in Int /\ rs[n].end \in Int /\ r.start \in Int
        BY <4>1, Spans DEF Span
      <4>3. rs[n].end < r.start /\ rs[n].start < rs[n].end
        BY <1>6, <4>1 DEF Ordered
      <4>4. i < n => rs[i].end < rs[n].start
        BY <1>6, <4>1 DEF Ordered
      <4> QED
        BY <1>1, <4>2, <4>3, <4>4
    <3> QED
      BY <3>1, Single DEF Precedes
  <2> QED
    BY <1>2, <1>6, <2>1, Single, OrderedConcat
<1> HIDE DEF us
<1> QED
  BY <1>1, <1>3, <1>4, <1>5, <1>6 DEF us

-----------------------------------------------------------------------------
(* sort_merge. *)
LEMMA JoinFacts ==
  ASSUME NEW rs \in Seq(Span), Ordered(rs), NEW r \in Span, r.start < r.end,
         rs = <<>> \/ Last(rs).start <= r.start
  PROVE  /\ Join(rs, r) \in Seq(Span) /\ Ordered(Join(rs, r))
         /\ Values(Join(rs, r)) = Values(rs) \cup ValuesOf(r)
         /\ Join(rs, r) # <<>> /\ Last(Join(rs, r)).start <= r.start
<1>1. NonEmpties(rs) /\ r.start \in Int /\ r.end \in Int
  BY DEF NonEmpties, Ordered, Span
<1>2. CASE rs = <<>> \/ r.start > Last(rs).end
  <2>1. rs # <<>> => Last(rs).end \in Int
    BY Spans DEF Last
  <2>2. rs = <<>> \/ Last(rs).end < r.start
    BY <1>1, <1>2, <2>1
  <2>3. Join(rs, r) = Append(rs, r)
    BY <1>2 DEF Join
  <2> QED
    BY <1>1, <2>2, <2>3, AppendFacts
<1>3. CASE rs # <<>> /\ ~(r.start > Last(rs).end)
  <2> DEFINE e == Larger(Last(rs).end, r.end)
             q == Last(rs)
  <2>1. q.start \in Int /\ q.end \in Int /\ q = rs[Len(rs)] /\ Len(rs) \in 1 .. Len(rs)
    BY <1>3, Spans DEF Last
  <2>2. e \in Int /\ e >= q.end /\ e >= r.end /\ (e = q.end \/ e = r.end)
    BY <1>1, <2>1 DEF Larger
  <2>3. Join(rs, r) = LastEndingAt(rs, e)
    BY <1>3 DEF Join
  <2> HIDE DEF e
  <2>4. /\ LastEndingAt(rs, e) \in Seq(Span) /\ Ordered(LastEndingAt(rs, e))
        /\ Values(LastEndingAt(rs, e)) = Values(rs) \cup (q.end .. e - 1)
        /\ LastEndingAt(rs, e) # <<>> /\ Last(LastEndingAt(rs, e)) = Rg(q.start, e)
    BY <1>1, <1>3, <2>2, LastEndingFacts
  <2>5. ValuesOf(q) \subseteq Values(rs)
    BY <2>1 DEF Values
  <2>6. Values(rs) \cup (q.end .. e - 1) = Values(rs) \cup ValuesOf(r)
    <3>1. ASSUME NEW v \in q.end .. e - 1 PROVE v \in Values(rs) \cup ValuesOf(r)
      BY <1>1, <1>3, <2>1, <2>2, <3>1 DEF ValuesOf
    <3>2. ASSUME NEW v \in ValuesOf(r) PROVE v \in Values(rs) \cup (q.end .. e - 1)
      <4>1. v \in Int /\ r.start <= v /\ v < r.end
        BY <1>1, <3>2 DEF ValuesOf
      <4>2. v < q.end => v \in ValuesOf(q)
        BY <1>3, <1>1, <2>1, <4>1 DEF ValuesOf
      <4>3. v >= q.end => v \in q.end .. e - 1
        BY <1>1, <2>1, <2>2, <4>1
      <4> QED
        BY <2>1, <2>5, <4>1, <4>2, <4>3
    <3> QED
      BY <3>1, <3>2
  <2>7. Rg(q.start, e).start = q.start
    BY DEF Rg
  <2> QED
    BY <1>3, <2>3, <2>4, <2>6, <2>7
<1> QED
  BY <1>2, <1>3

(* One step of the merge on any vector. *)
LEMMA JoinType ==
  ASSUME NEW rs \in Seq(Span), NEW r \in Span PROVE Join(rs, r) \in Seq(Span)
<1>1. CASE rs = <<>> \/ r.start > Last(rs).end
  BY <1>1 DEF Join
<1>2. CASE rs # <<>> /\ ~(r.start > Last(rs).end)
  <2> DEFINE e == Larger(Last(rs).end, r.end)
             n == Len(rs)
  <2>1. n \in 1 .. n /\ Last(rs) = rs[n] /\ rs[n].start \in Int /\ rs[n].end \in Int /\ r.end \in Int
    BY <1>2, Spans DEF Last, Span
  <2>2. Rg(rs[n].start, e) \in Span
    BY <2>1 DEF Rg, Span, Larger
  <2> DEFINE x == Rg(rs[n].start, e)
  <2>3. Join(rs, r) = [rs EXCEPT ![n] = x]
    BY <1>2 DEF Join, LastEndingAt
  <2>4. x \in Span
    BY <2>2
  <2> HIDE DEF x
  <2> QED
    BY <2>1, <2>3, <2>4
<1> QED
  BY <1>1, <1>2

(* Sorting by rank. *)
LEMMA SortedFacts ==
  ASSUME NEW rs \in Seq(Span), NonEmpties(rs)
  PROVE  /\ Sorted(rs) \in Seq(Span) /\ Len(Sorted(rs)) = Len(rs) /\ NonEmpties(Sorted(rs))
         /\ Values(Sorted(rs)) = Values(rs)
         /\ \A m, n \in 1 .. Len(rs) : m < n => Sorted(rs)[m].start <= Sorted(rs)[n].start
<1> DEFINE D == 1 .. Len(rs)
           Le(j, i) == Before(rs[j], rs[i]) \/ (rs[j] = rs[i] /\ j <= i)
           Below(i) == {j \in D : Le(j, i)}
           rank == [i \in D |-> Rank(rs, i)]
<1>1. /\ Len(rs) \in Nat /\ DOMAIN rs = D
      /\ \A k \in D : rs[k] \in Span /\ rs[k].start \in Int /\ rs[k].end \in Int
  BY Spans
<1>2. IsFiniteSet(D) /\ Cardinality(D) = Len(rs)
  <2> DEFINE n == Len(rs)
  <2>1. n \in Int /\ n >= 0 /\ D = 1 .. n
    BY <1>1
  <2> HIDE DEF n, D
  <2>2. IsFiniteSet(1 .. n) /\ Cardinality(1 .. n) = IF 1 > n THEN 0 ELSE n - 1 + 1
    BY <2>1, FS_Interval
  <2> QED
    BY <2>1, <2>2 DEF n
<1>3. \A i \in D : Below(i) \in SUBSET D /\ Rank(rs, i) = Cardinality(Below(i))
  BY <1>1 DEF Rank
<1>4. \A i \in D : i \in Below(i)
  OBVIOUS
<1>5. \A i, j \in D : rs[i].start = rs[j].start /\ rs[i].end = rs[j].end => rs[i] = rs[j]
  BY <1>1 DEF Span
<1>6. \A i, j \in D : Le(i, j) \/ Le(j, i)
  BY <1>1, <1>5 DEF Before
<1>7. \A i, j \in D : i # j => ~(Le(i, j) /\ Le(j, i))
  BY <1>1, <1>5 DEF Before
<1>8. \A i, j, k \in D : Le(i, j) /\ Le(j, k) => Le(i, k)
  BY <1>1, <1>5 DEF Before
<1> HIDE DEF Le
<1>9. \A i, k \in D : Le(i, k) => Below(i) \in SUBSET Below(k)
  BY <1>8
<1>10. \A i, k \in D : i # k /\ Le(i, k) => k \in Below(k) /\ k \notin Below(i)
  BY <1>4, <1>7
<1>11. \A i \in D : Rank(rs, i) \in Nat
  <2>1. SUFFICES ASSUME NEW i \in D PROVE Rank(rs, i) \in Nat
    OBVIOUS
  <2> DEFINE T == Below(i)
  <2>2. T \in SUBSET D /\ Rank(rs, i) = Cardinality(T)
    BY <1>3
  <2> HIDE DEF T, D
  <2>3. IsFiniteSet(T)
    BY <1>2, <2>2, FS_Subset
  <2> QED
    BY <2>2, <2>3, FS_CardinalityType
<1>12. \A i, k \in D : i # k /\ Le(i, k) => Rank(rs, i) < Rank(rs, k)
  <2>1. SUFFICES ASSUME NEW i \in D, NEW k \in D, i # k, Le(i, k)
                 PROVE  Rank(rs, i) < Rank(rs, k)
    OBVIOUS
  <2> DEFINE S == Below(k)
             T == Below(i)
  <2>2. IsFiniteSet(S) /\ T \in SUBSET S /\ S # T
    BY <1>2, <1>3, <1>9, <1>10, <2>1, FS_Subset
  <2>3. Rank(rs, i) = Cardinality(T) /\ Rank(rs, k) = Cardinality(S)
    BY <1>3
  <2> HIDE DEF S, T
  <2>4. Cardinality(T) <= Cardinality(S) /\ Cardinality(T) # Cardinality(S)
    BY <2>2, FS_Subset
  <2> QED
    BY <1>11, <2>3, <2>4
<1>13. \A i \in D : Rank(rs, i) \in D
  <2>1. SUFFICES ASSUME NEW i \in D PROVE Rank(rs, i) \in D
    OBVIOUS
  <2> DEFINE T == Below(i)
  <2>2. T \in SUBSET D /\ i \in T /\ Rank(rs, i) = Cardinality(T)
    BY <1>3, <1>4
  <2>3. IsFiniteSet(T) /\ Cardinality(T) <= Len(rs) /\ Cardinality(T) \in Nat
    BY <1>2, <1>11, <2>2, FS_Subset
  <2>4. Cardinality(T) # 0
    BY <2>2, <2>3, FS_EmptySet
  <2> QED
    BY <1>1, <2>2, <2>3, <2>4
<1>14. rank \in Surjection(D, D)
  <2>1. rank \in [D -> D]
    BY <1>13
  <2>2. \A i, k \in D : rank[i] = rank[k] => i = k
    BY <1>6, <1>11, <1>12
  <2>3. rank \in Injection(D, D)
    BY <2>1, <2>2 DEF Injection, IsInjective
  <2> HIDE DEF rank
  <2> QED
    BY <1>2, <2>3, FS_Injection
<1> DEFINE pos(n) == CHOOSE i \in D : Rank(rs, i) = n
<1>15. \A n \in D : pos(n) \in D /\ Rank(rs, pos(n)) = n
  <2>1. \A n \in D : \E i \in D : rank[i] = n
    BY <1>14 DEF Surjection
  <2>2. \A n \in D : \E i \in D : Rank(rs, i) = n
    BY <2>1
  <2> QED
    BY <2>2
<1>16. \A i \in D : pos(Rank(rs, i)) = i
  BY <1>6, <1>11, <1>12, <1>13, <1>15
<1>17. Sorted(rs) = [n \in D |-> rs[pos(n)]]
  BY <1>1 DEF Sorted
<1> HIDE DEF pos, Below, rank
<1>18. Sorted(rs) \in Seq(Span) /\ Len(Sorted(rs)) = Len(rs)
       /\ \A n \in D : Sorted(rs)[n] = rs[pos(n)]
  BY <1>1, <1>15, <1>17
<1>19. NonEmpties(Sorted(rs))
  BY <1>15, <1>18 DEF NonEmpties
<1>20. \A n \in D : ValuesOf(Sorted(rs)[n]) \subseteq Values(rs)
  BY <1>1, <1>15, <1>18 DEF Values
<1>21. DOMAIN Sorted(rs) = D
  BY <1>17
<1>22. \A i \in D : ValuesOf(rs[i]) \subseteq Values(Sorted(rs))
  BY <1>13, <1>16, <1>18, <1>21 DEF Values
<1>23. Values(Sorted(rs)) = Values(rs)
  <2>1. Values(Sorted(rs)) \subseteq Values(rs)
    BY <1>20, <1>21 DEF Values
  <2>2. Values(rs) \subseteq Values(Sorted(rs))
    BY <1>1, <1>22 DEF Values
  <2> QED
    BY <2>1, <2>2
<1>24. ASSUME NEW m \in D, NEW n \in D, m < n PROVE Sorted(rs)[m].start <= Sorted(rs)[n].start
  <2> DEFINE i == pos(m)
             k == pos(n)
  <2>1. i \in D /\ k \in D /\ Rank(rs, i) = m /\ Rank(rs, k) = n
    BY <1>15
  <2> HIDE DEF i, k
  <2>2. Le(i, k)
    <3>1. ~(Le(k, i) /\ k # i)
      BY <1>1, <1>12, <1>24, <2>1
    <3> QED
      BY <1>1, <1>6, <1>24, <2>1, <3>1
  <2>3. rs[i].start <= rs[k].start
    BY <1>1, <2>1, <2>2 DEF Le, Before
  <2> QED
    BY <1>18, <2>3 DEF i, k
<1> QED
  BY <1>18, <1>19, <1>23, <1>24

(* sort_merge, as the sequence of its joins. *)
LEMMA JoinFold ==
  ASSUME NEW xs \in Seq(Span)
  PROVE  \E f : /\ f[0] = <<>>
                /\ \A k \in 1 .. Len(xs) : f[k] = Join(f[k - 1], xs[k])
                /\ FoldLeft(Join, <<>>, xs) = f[Len(xs)]
<1> DEFINE A == Seq(Span)
           F == [p \in A \X Span |-> Join(p[1], p[2])]
           n == Len(xs)
           Unfold(g) == [T \in SUBSET (1 .. n) |->
                           IF T = {} THEN <<>> ELSE Join(g[T \ {Max(T)}], xs[Max(T)])]
<1>1. n \in Nat /\ DOMAIN xs = 1 .. n /\ xs \in [1 .. n -> Span]
  OBVIOUS
<1>2. F \in [A \X Span -> A]
  BY JoinType
<1>3. \E g : g = Unfold(g)
  <2>1. PICK g \in [SUBSET (1 .. n) -> A] :
               /\ g[{}] = <<>>
               /\ \A T \in (SUBSET (1 .. n)) \ {{}} :
                    Max(T) \in T /\ g[T] = F[<<g[T \ {Max(T)}], xs[Max(T)]>>]
    <3>1. <<>> \in A
      OBVIOUS
    <3> HIDE DEF F, A, n
    <3>2. Folding(A, F, <<>>, n, xs) # {}
      BY <1>1, <1>2, <3>1, FoldExists
    <3> QED
      BY <3>2 DEF Folding
  <2>2. ASSUME NEW T \in SUBSET (1 .. n), T # {}
        PROVE  g[T] = Join(g[T \ {Max(T)}], xs[Max(T)])
    <3>1. Max(T) \in T /\ g[T] = F[<<g[T \ {Max(T)}], xs[Max(T)]>>]
      BY <2>1, <2>2
    <3>2. T \ {Max(T)} \in SUBSET (1 .. n) /\ g[T \ {Max(T)}] \in A /\ xs[Max(T)] \in Span
      BY <1>1, <3>1
    <3> QED
      BY <3>1, <3>2
  <2>3. g = Unfold(g)
    BY <2>1, <2>2
  <2> QED
    BY <2>3
<1> DEFINE G == CHOOSE g : g = Unfold(g)
           f == [k \in 0 .. n |-> G[1 .. k]]
<1>4. G = Unfold(G)
  BY <1>3, Zenon
<1>5. FoldLeft(Join, <<>>, xs) = G[1 .. n]
  <2>1. FoldLeft(Join, <<>>, xs) =
          (CHOOSE g : g = [T \in SUBSET DOMAIN xs |->
             IF T = {} THEN <<>> ELSE Join(g[T \ {Max(T)}], xs[Max(T)])])[DOMAIN xs]
    BY Zenon DEF FoldLeft, MapThenFoldSet
  <2> QED
    BY <1>1, <2>1, Zenon
<1> HIDE DEF G
<1>6. f[0] = <<>>
  BY <1>1, <1>4
<1>7. ASSUME NEW k \in 1 .. n PROVE f[k] = Join(f[k - 1], xs[k])
  <2>1. /\ k \in Nat \ {0} /\ k - 1 \in 0 .. n /\ k \in 0 .. n
        /\ 1 .. k \in SUBSET (1 .. n) /\ 1 .. k # {}
    <3>1. n \in Nat /\ k \in 1 .. n
      BY <1>1
    <3> HIDE DEF n
    <3>2. k \in 1 .. k
      BY <3>1
    <3>3. k \in Nat \ {0} /\ k - 1 \in 0 .. n /\ k \in 0 .. n
      BY <3>1
    <3>4. \A i \in 1 .. k : i \in 1 .. n
      BY <3>1
    <3> QED
      BY <3>2, <3>3, <3>4
  <2>2. Max(1 .. k) = k /\ (1 .. k) \ {k} = 1 .. k - 1
    BY <2>1, MaxFacts
  <2>3. G[1 .. k] = Join(G[(1 .. k) \ {Max(1 .. k)}], xs[Max(1 .. k)])
    BY <1>4, <2>1
  <2> QED
    BY <2>1, <2>2, <2>3
<1>8. f[n] = G[1 .. n]
  BY <1>1
<1> HIDE DEF f
<1> QED
  BY <1>5, <1>6, <1>7, <1>8

(* push_range. *)
Acc == [ranges : Seq(Span), sort : BOOLEAN]

(* A push on any vector. *)
LEMMA PushType ==
  ASSUME NEW a \in Acc, NEW r \in Span PROVE PushRange(a, r) \in Acc
<1> DEFINE s == a.ranges
           n == Len(s)
<1>1. a = [ranges |-> s, sort |-> a.sort] /\ s \in Seq(Span) /\ a.sort \in BOOLEAN
  BY DEF Acc
<1> HIDE DEF s
<1>2. CASE Empty(r)
  BY <1>2 DEF PushRange
<1>3. CASE ~Empty(r) /\ s # <<>> /\ r.start = Last(s).end
  <2> DEFINE x == Rg(s[n].start, r.end)
  <2>1. n \in 1 .. n /\ s[n].start \in Int /\ r.end \in Int
    <3>1. \A k \in 1 .. n : s[k].start \in Int
      BY <1>1, Spans
    <3>2. n \in 1 .. n
      BY <1>1, <1>3
    <3> QED
      BY <3>1, <3>2 DEF Span
  <2>2. x \in Span
    BY <2>1 DEF Rg, Span
  <2>3. PushRange(a, r) = [ranges |-> [s EXCEPT ![n] = x], sort |-> a.sort]
    BY <1>1, <1>3 DEF PushRange, LastEndingAt, s
  <2> HIDE DEF x
  <2>4. [s EXCEPT ![n] = x] \in Seq(Span)
    BY <1>1, <2>1, <2>2
  <2> QED
    BY <1>1, <2>3, <2>4 DEF Acc
<1>4. CASE ~Empty(r) /\ ~(s # <<>> /\ r.start = Last(s).end)
  <2>1. PushRange(a, r) = [ranges |-> Append(s, r),
                           sort |-> a.sort \/ (s # <<>> /\ r.start < Last(s).end)]
    BY <1>4 DEF PushRange, s
  <2>2. Append(s, r) \in Seq(Span)
    BY <1>1
  <2> QED
    BY <2>1, <2>2 DEF Acc
<1> QED
  BY <1>2, <1>3, <1>4

(* A push keeps the integers, and the order unless it asks for a sort. *)
LEMMA PushFacts ==
  ASSUME NEW a \in Acc, NEW r \in Span,
         NonEmpties(a.ranges), a.sort \/ Ordered(a.ranges)
  PROVE  /\ NonEmpties(PushRange(a, r).ranges)
         /\ PushRange(a, r).sort \/ Ordered(PushRange(a, r).ranges)
         /\ Values(PushRange(a, r).ranges) = Values(a.ranges) \cup ValuesOf(r)
<1> DEFINE s == a.ranges
<1>1. a = [ranges |-> s, sort |-> a.sort] /\ s \in Seq(Span) /\ a.sort \in BOOLEAN
  BY DEF Acc
<1>2. r.start \in Int /\ r.end \in Int
  BY DEF Span
<1>3. NonEmpties(s) /\ (a.sort \/ Ordered(s))
  OBVIOUS
<1> HIDE DEF s
<1>4. CASE Empty(r)
  <2>1. ValuesOf(r) = {}
    BY <1>2, <1>4 DEF Empty, ValuesOf
  <2> QED
    BY <1>3, <1>4, <2>1 DEF PushRange, s
<1>5. CASE ~Empty(r) /\ s # <<>> /\ r.start = Last(s).end
  <2>1. PushRange(a, r) = [ranges |-> LastEndingAt(s, r.end), sort |-> a.sort]
    BY <1>1, <1>5 DEF PushRange, s
  <2>2. r.end >= Last(s).end
    BY <1>2, <1>5 DEF Empty
  <2>3. /\ NonEmpties(LastEndingAt(s, r.end)) /\ (Ordered(s) => Ordered(LastEndingAt(s, r.end)))
        /\ Values(LastEndingAt(s, r.end)) = Values(s) \cup (Last(s).end .. r.end - 1)
    BY <1>1, <1>2, <1>3, <1>5, <2>2, LastEndingFacts
  <2>4. ValuesOf(r) = Last(s).end .. r.end - 1
    BY <1>5 DEF ValuesOf
  <2> QED
    BY <1>3, <2>1, <2>3, <2>4 DEF s
<1>6. CASE ~Empty(r) /\ ~(s # <<>> /\ r.start = Last(s).end)
  <2>1. PushRange(a, r) = [ranges |-> Append(s, r),
                           sort |-> a.sort \/ (s # <<>> /\ r.start < Last(s).end)]
    BY <1>6 DEF PushRange, s
  <2>2. r.start < r.end
    BY <1>2, <1>6 DEF Empty
  <2>3. s # <<>> => Last(s).end \in Int
    BY <1>1, Spans DEF Last
  <2>4. /\ NonEmpties(Append(s, r)) /\ Values(Append(s, r)) = Values(s) \cup ValuesOf(r)
        /\ Ordered(s) /\ (s = <<>> \/ Last(s).end < r.start) => Ordered(Append(s, r))
    BY <1>1, <1>3, <2>2, AppendFacts
  <2>5. (a.sort \/ (s # <<>> /\ r.start < Last(s).end)) \/ Ordered(Append(s, r))
    BY <1>2, <1>3, <1>6, <2>3, <2>4
  <2>6. PushRange(a, r).ranges = Append(s, r)
    BY <2>1
  <2>7. PushRange(a, r).sort = (a.sort \/ (s # <<>> /\ r.start < Last(s).end))
    BY <2>1
  <2> QED
    BY <2>4, <2>5, <2>6, <2>7, Zenon DEF s
<1> QED
  BY <1>4, <1>5, <1>6

(* union_mut, as the sequence of its pushes. *)
LEMMA PushFold ==
  ASSUME NEW b \in Acc, NEW xs \in Seq(Span)
  PROVE  \E f : /\ f[0] = b
                /\ \A k \in 1 .. Len(xs) : f[k] = PushRange(f[k - 1], xs[k])
                /\ FoldLeft(PushRange, b, xs) = f[Len(xs)]
<1> DEFINE A == Acc
           F == [p \in A \X Span |-> PushRange(p[1], p[2])]
           n == Len(xs)
           Unfold(g) == [T \in SUBSET (1 .. n) |->
                           IF T = {} THEN b ELSE PushRange(g[T \ {Max(T)}], xs[Max(T)])]
<1>1. n \in Nat /\ DOMAIN xs = 1 .. n /\ xs \in [1 .. n -> Span]
  OBVIOUS
<1>2. F \in [A \X Span -> A]
  BY PushType
<1>3. \E g : g = Unfold(g)
  <2>1. PICK g \in [SUBSET (1 .. n) -> A] :
               /\ g[{}] = b
               /\ \A T \in (SUBSET (1 .. n)) \ {{}} :
                    Max(T) \in T /\ g[T] = F[<<g[T \ {Max(T)}], xs[Max(T)]>>]
    <3>1. b \in A
      OBVIOUS
    <3> HIDE DEF F, A, n
    <3>2. Folding(A, F, b, n, xs) # {}
      BY <1>1, <1>2, <3>1, FoldExists
    <3> QED
      BY <3>2 DEF Folding
  <2>2. ASSUME NEW T \in SUBSET (1 .. n), T # {}
        PROVE  g[T] = PushRange(g[T \ {Max(T)}], xs[Max(T)])
    <3>1. Max(T) \in T /\ g[T] = F[<<g[T \ {Max(T)}], xs[Max(T)]>>]
      BY <2>1, <2>2
    <3>2. T \ {Max(T)} \in SUBSET (1 .. n) /\ g[T \ {Max(T)}] \in A /\ xs[Max(T)] \in Span
      BY <1>1, <3>1
    <3> QED
      BY <3>1, <3>2
  <2>3. g = Unfold(g)
    BY <2>1, <2>2
  <2> QED
    BY <2>3
<1> DEFINE G == CHOOSE g : g = Unfold(g)
           f == [k \in 0 .. n |-> G[1 .. k]]
<1>4. G = Unfold(G)
  BY <1>3, Zenon
<1>5. FoldLeft(PushRange, b, xs) = G[1 .. n]
  <2>1. FoldLeft(PushRange, b, xs) =
          (CHOOSE g : g = [T \in SUBSET DOMAIN xs |->
             IF T = {} THEN b ELSE PushRange(g[T \ {Max(T)}], xs[Max(T)])])[DOMAIN xs]
    BY Zenon DEF FoldLeft, MapThenFoldSet
  <2> QED
    BY <1>1, <2>1, Zenon
<1> HIDE DEF G
<1>6. f[0] = b
  BY <1>1, <1>4
<1>7. ASSUME NEW k \in 1 .. n PROVE f[k] = PushRange(f[k - 1], xs[k])
  <2>1. /\ k \in Nat \ {0} /\ k - 1 \in 0 .. n /\ k \in 0 .. n
        /\ 1 .. k \in SUBSET (1 .. n) /\ 1 .. k # {}
    <3>1. n \in Nat /\ k \in 1 .. n
      BY <1>1
    <3> HIDE DEF n
    <3>2. k \in 1 .. k
      BY <3>1
    <3>3. k \in Nat \ {0} /\ k - 1 \in 0 .. n /\ k \in 0 .. n
      BY <3>1
    <3>4. \A i \in 1 .. k : i \in 1 .. n
      BY <3>1
    <3> QED
      BY <3>2, <3>3, <3>4
  <2>2. Max(1 .. k) = k /\ (1 .. k) \ {k} = 1 .. k - 1
    BY <2>1, MaxFacts
  <2>3. G[1 .. k] = PushRange(G[(1 .. k) \ {Max(1 .. k)}], xs[Max(1 .. k)])
    BY <1>4, <2>1
  <2> QED
    BY <2>1, <2>2, <2>3
<1>8. f[n] = G[1 .. n]
  BY <1>1
<1> HIDE DEF f
<1> QED
  BY <1>5, <1>6, <1>7, <1>8

(* set.rs:91: sort_merge sorts by start and end and joins what overlaps or  *)
(* touches: whatever the order of the ranges, and though they overlap, the  *)
(* vector comes out sorted and non-adjacent and holds the same integers.    *)
THEOREM SortMergeExact ==
  ASSUME NEW rs \in Seq(Span), \A k \in 1 .. Len(rs) : rs[k].start < rs[k].end
  PROVE  /\ SortMerge(rs) \in Seq(Span) /\ Normal(SortMerge(rs))
         /\ Values(SortMerge(rs)) = Values(rs)
<1> DEFINE xs == Sorted(rs)
           n == Len(xs)
<1>1. /\ xs \in Seq(Span) /\ NonEmpties(xs) /\ Values(xs) = Values(rs)
      /\ \A i, j \in 1 .. n : i < j => xs[i].start <= xs[j].start
  BY SortedFacts DEF NonEmpties
<1>2. SortMerge(rs) = FoldLeft(Join, <<>>, xs)
  BY DEF SortMerge
<1> HIDE DEF xs
<1>3. PICK f : /\ f[0] = <<>>
               /\ \A k \in 1 .. Len(xs) : f[k] = Join(f[k - 1], xs[k])
               /\ FoldLeft(Join, <<>>, xs) = f[Len(xs)]
  BY <1>1, JoinFold
<1>4. n \in Nat
  BY <1>1
<1> DEFINE S == {k \in Nat : k <= n =>
                   /\ f[k] \in Seq(Span) /\ Ordered(f[k])
                   /\ Values(f[k]) = UNION {ValuesOf(xs[j]) : j \in 1 .. k}
                   /\ k < n => f[k] = <<>> \/ Last(f[k]).start <= xs[k + 1].start}
<1>5. 0 \in S
  BY <1>1, <1>3, Nothing, ValuesUpTo
<1>6. ASSUME NEW k \in Nat, k \in S PROVE k + 1 \in S
  <2>1. SUFFICES ASSUME k + 1 <= n
                 PROVE  /\ f[k + 1] \in Seq(Span) /\ Ordered(f[k + 1])
                        /\ Values(f[k + 1]) = UNION {ValuesOf(xs[j]) : j \in 1 .. k + 1}
                        /\ k + 1 < n => f[k + 1] = <<>> \/ Last(f[k + 1]).start <= xs[k + 2].start
    OBVIOUS
  <2> DEFINE s == f[k]
             r == xs[k + 1]
             t == f[k + 1]
  <2>2. k + 1 \in 1 .. n /\ k < n /\ k <= n /\ (k + 1) - 1 = k
    BY <1>4, <2>1
  <2>3. /\ s \in Seq(Span) /\ Ordered(s) /\ (s = <<>> \/ Last(s).start <= r.start)
        /\ Values(s) = UNION {ValuesOf(xs[j]) : j \in 1 .. k}
    BY <1>6, <2>2
  <2>4. t = Join(s, r)
    BY <1>3, <2>2
  <2>5. r \in Span /\ r.start < r.end
    BY <1>1, <2>2 DEF NonEmpties
  <2>6. k + 1 < n => r.start <= xs[k + 2].start /\ xs[k + 2].start \in Int
    <3>1. k + 1 < n => k + 2 \in 1 .. n /\ k + 1 < k + 2
      BY <1>4, <2>2
    <3>2. \A j \in 1 .. n : xs[j].start \in Int
      BY <1>1, Spans
    <3> QED
      BY <1>1, <2>2, <3>1, <3>2
  <2>7. UNION {ValuesOf(xs[j]) : j \in 1 .. k + 1}
          = (UNION {ValuesOf(xs[j]) : j \in 1 .. k}) \cup ValuesOf(r)
    BY <1>1, ValuesUpTo
  <2> HIDE DEF s, r, t
  <2>8. /\ t \in Seq(Span) /\ Ordered(t) /\ Values(t) = Values(s) \cup ValuesOf(r)
        /\ t # <<>> /\ Last(t).start <= r.start
    BY <2>3, <2>4, <2>5, JoinFacts
  <2>9. Last(t).start \in Int /\ r.start \in Int
    <3>1. Len(t) \in 1 .. Len(t) /\ \A j \in 1 .. Len(t) : t[j].start \in Int
      BY <2>8, Spans
    <3> QED
      BY <2>5, <3>1 DEF Last, Span
  <2>10. k + 1 < n => Last(t).start <= xs[k + 2].start
    BY <2>6, <2>8, <2>9
  <2> QED
    BY <2>3, <2>7, <2>8, <2>10 DEF t
<1> HIDE DEF S
<1>7. n \in S
  BY <1>4, <1>5, <1>6, NatSet
<1> DEFINE res == f[n]
<1>8. res \in Seq(Span) /\ Ordered(res) /\ Values(res) = Values(xs)
  <2>1. /\ res \in Seq(Span) /\ Ordered(res)
        /\ Values(res) = UNION {ValuesOf(xs[j]) : j \in 1 .. n}
    BY <1>4, <1>7 DEF S
  <2>2. UNION {ValuesOf(xs[j]) : j \in 1 .. n} = Values(xs)
    BY <1>1, ValuesUpTo
  <2> QED
    BY <2>1, <2>2
<1>9. SortMerge(rs) = res
  BY <1>2, <1>3
<1> HIDE DEF res
<1> QED
  BY <1>1, <1>8, <1>9, NormalIsOrdered

(* set.rs:234, 247: union_mut pushes each range of the operand on the tail, *)
(* joining what touches it, and sorts only where a push was out of order;   *)
(* the set is normal again whatever the operand yields, and is the union.   *)
THEOREM UnionExact ==
  ASSUME NEW rs \in Seq(Span), Normal(rs), NEW xs \in Seq(Span)
  PROVE  /\ UnionWith(rs, xs) \in Seq(Span) /\ Normal(UnionWith(rs, xs))
         /\ Values(UnionWith(rs, xs)) = Values(rs) \cup Values(xs)
<1> DEFINE b == [ranges |-> rs, sort |-> FALSE]
           n == Len(xs)
<1>1. Ordered(rs) /\ NonEmpties(rs)
  BY NormalIsOrdered DEF Ordered, NonEmpties
<1>2. b \in Acc /\ b.ranges = rs
  BY DEF Acc
<1>3. UnionWith(rs, xs) = Settle(FoldLeft(PushRange, b, xs))
  BY DEF UnionWith
<1> HIDE DEF b
<1>4. PICK f : /\ f[0] = b
               /\ \A k \in 1 .. Len(xs) : f[k] = PushRange(f[k - 1], xs[k])
               /\ FoldLeft(PushRange, b, xs) = f[Len(xs)]
  BY <1>2, PushFold
<1>5. n \in Nat
  OBVIOUS
<1> DEFINE S == {k \in Nat : k <= n =>
                   /\ f[k] \in Acc /\ NonEmpties(f[k].ranges)
                   /\ f[k].sort \/ Ordered(f[k].ranges)
                   /\ Values(f[k].ranges) = Values(rs) \cup UNION {ValuesOf(xs[j]) : j \in 1 .. k}}
<1>6. 0 \in S
  BY <1>1, <1>2, <1>4, ValuesUpTo
<1>7. ASSUME NEW k \in Nat, k \in S PROVE k + 1 \in S
  <2>1. SUFFICES ASSUME k + 1 <= n
                 PROVE  /\ f[k + 1] \in Acc /\ NonEmpties(f[k + 1].ranges)
                        /\ f[k + 1].sort \/ Ordered(f[k + 1].ranges)
                        /\ Values(f[k + 1].ranges)
                             = Values(rs) \cup UNION {ValuesOf(xs[j]) : j \in 1 .. k + 1}
    OBVIOUS
  <2> DEFINE a == f[k]
             r == xs[k + 1]
  <2>2. k + 1 \in 1 .. n /\ k <= n /\ (k + 1) - 1 = k
    BY <1>5, <2>1
  <2>3. /\ a \in Acc /\ NonEmpties(a.ranges) /\ (a.sort \/ Ordered(a.ranges))
        /\ Values(a.ranges) = Values(rs) \cup UNION {ValuesOf(xs[j]) : j \in 1 .. k}
    BY <1>7, <2>2
  <2>4. f[k + 1] = PushRange(a, r) /\ r \in Span
    BY <1>4, <2>2
  <2>5. UNION {ValuesOf(xs[j]) : j \in 1 .. k + 1}
          = (UNION {ValuesOf(xs[j]) : j \in 1 .. k}) \cup ValuesOf(r)
    BY ValuesUpTo
  <2> HIDE DEF a, r
  <2>6. /\ f[k + 1] \in Acc /\ NonEmpties(f[k + 1].ranges)
        /\ f[k + 1].sort \/ Ordered(f[k + 1].ranges)
        /\ Values(f[k + 1].ranges) = Values(a.ranges) \cup ValuesOf(r)
    BY <2>3, <2>4, PushType, PushFacts
  <2> QED
    BY <2>3, <2>5, <2>6
<1> HIDE DEF S
<1>8. n \in S
  BY <1>5, <1>6, <1>7, NatSet
<1> DEFINE a == f[n]
<1>9. /\ a \in Acc /\ NonEmpties(a.ranges) /\ (a.sort \/ Ordered(a.ranges))
      /\ Values(a.ranges) = Values(rs) \cup Values(xs)
  BY <1>5, <1>8, ValuesUpTo DEF S
<1>10. UnionWith(rs, xs) = Settle(a)
  BY <1>3, <1>4
<1> HIDE DEF a
<1>11. a.ranges \in Seq(Span)
  BY <1>9 DEF Acc
<1>12. CASE a.sort
  BY <1>9, <1>10, <1>11, <1>12, SortMergeExact DEF Settle, NonEmpties
<1>13. CASE ~a.sort
  BY <1>9, <1>10, <1>11, <1>13, NormalIsOrdered DEF Settle
<1> QED
  BY <1>12, <1>13

-----------------------------------------------------------------------------
(* set.rs:322: split_off leaves what lies below `at` and returns the rest,  *)
(* each a normal vector; a range that `at` falls inside is cut in two.      *)
THEOREM SplitOffExact ==
  ASSUME NEW rs \in Seq(Span), Normal(rs), NEW at \in Int
  PROVE  /\ SplitOff(rs, at).left \in Seq(Span) /\ Normal(SplitOff(rs, at).left)
         /\ Values(SplitOff(rs, at).left) = {v \in Values(rs) : v < at}
         /\ SplitOff(rs, at).right \in Seq(Span) /\ Normal(SplitOff(rs, at).right)
         /\ Values(SplitOff(rs, at).right) = {v \in Values(rs) : v >= at}
<1> DEFINE idx == Cardinality({k \in DOMAIN rs : rs[k].start < at})
           n == Len(rs)
           rest == SubSeq(rs, idx + 1, n)
           left == SplitOff(rs, at).left
           right == SplitOff(rs, at).right
<1>1. Ordered(rs) /\ n \in Nat
  BY NormalIsOrdered
<1>2. /\ DOMAIN rs = 1 .. n
      /\ \A k \in 1 .. n : rs[k] \in Span /\ rs[k].start \in Int /\ rs[k].end \in Int
  BY Spans
<1>3. idx \in 0 .. n /\ \A k \in 1 .. n : k <= idx <=> rs[k].start < at
  <2>1. idx \in 0 .. n /\ {k \in DOMAIN rs : rs[k].start < at} = 1 .. idx
    BY <1>1, StartsBefore
  <2> HIDE DEF idx
  <2> QED
    BY <1>2, <2>1
<1>4. SplitOff(rs, at) =
        IF idx > 0 /\ at < rs[idx].end
          THEN [left |-> SubSeq(rs, 1, idx - 1) \o <<Rg(rs[idx].start, at)>>,
                right |-> <<Rg(at, rs[idx].end)>> \o rest]
          ELSE [left |-> SubSeq(rs, 1, idx), right |-> rest]
  BY DEF SplitOff
<1> HIDE DEF idx
<1>5. \A i, j \in 1 .. n : i < j => rs[i].end < rs[j].start
  BY <1>1 DEF Ordered
<1>6. \A k \in 1 .. n : rs[k].start < rs[k].end
  BY <1>1 DEF Ordered
<1>7. /\ rest \in Seq(Span) /\ Len(rest) = n - idx /\ Ordered(rest)
      /\ \A k \in 1 .. n - idx : rest[k] = rs[idx + k]
      /\ Values(rest) = UNION {ValuesOf(rs[k]) : k \in idx + 1 .. n}
  <2>1. /\ idx + 1 \in 1 .. Len(rs) + 1 /\ n \in 0 .. Len(rs) /\ idx + 1 <= n + 1
        /\ n - (idx + 1) + 1 = n - idx
    BY <1>1, <1>3
  <2>2. \A k \in 1 .. n - idx : (idx + 1) + k - 1 = idx + k
    BY <1>1, <1>3
  <2>3. /\ rest \in Seq(Span) /\ Len(rest) = n - (idx + 1) + 1 /\ Ordered(rest)
        /\ \A k \in 1 .. n - (idx + 1) + 1 : rest[k] = rs[(idx + 1) + k - 1]
        /\ Values(rest) = UNION {ValuesOf(rs[k]) : k \in idx + 1 .. n}
    BY <1>1, <2>1, SubSeqFacts
  <2> QED
    BY <2>1, <2>2, <2>3
<1>8. \A v : v \in Values(rs) <=> v \in Int /\ \E k \in 1 .. n : rs[k].start <= v /\ v < rs[k].end
  BY ValuesIn
<1> HIDE DEF rest
<1>9. \A v : v \in Values(rest) <=> v \in Int /\ \E k \in idx + 1 .. n : rs[k].start <= v /\ v < rs[k].end
  <2>1. \A k \in idx + 1 .. n : k \in 1 .. n
    BY <1>1, <1>3
  <2>2. \A v : v \in Values(rest) <=> \E k \in idx + 1 .. n : v \in ValuesOf(rs[k])
    <3>1. Values(rest) = UNION {ValuesOf(rs[k]) : k \in idx + 1 .. n}
      BY <1>7
    <3> QED
      BY <3>1
  <2>3. ASSUME NEW v, NEW k \in idx + 1 .. n
        PROVE  v \in ValuesOf(rs[k]) <=> v \in Int /\ rs[k].start <= v /\ v < rs[k].end
    BY <1>2, <2>1 DEF ValuesOf
  <2> QED
    BY <2>2, <2>3
<1>10. CASE idx > 0 /\ at < rs[idx].end
  <2> DEFINE A == SubSeq(rs, 1, idx - 1)
             b == Rg(rs[idx].start, at)
             c == Rg(at, rs[idx].end)
  <2>1. left = A \o <<b>> /\ right = <<c>> \o rest
    <3>1. SplitOff(rs, at) = [left |-> A \o <<b>>, right |-> <<c>> \o rest]
      BY <1>4, <1>10, Zenon
    <3> HIDE DEF A, b, c
    <3> QED
      BY <3>1
  <2>2. idx \in 1 .. n /\ rs[idx].start < at
    BY <1>1, <1>3, <1>10
  <2>3. /\ b \in Span /\ b.start = rs[idx].start /\ b.end = at /\ b.start < b.end
        /\ c \in Span /\ c.start = at /\ c.end = rs[idx].end /\ c.start < c.end
    BY <1>2, <1>10, <2>2 DEF Rg, Span
  <2>4. /\ A \in Seq(Span) /\ Len(A) = idx - 1 /\ Ordered(A)
        /\ \A k \in 1 .. idx - 1 : A[k] = rs[k]
        /\ Values(A) = UNION {ValuesOf(rs[k]) : k \in 1 .. idx - 1}
    <3>1. /\ 1 \in 1 .. Len(rs) + 1 /\ idx - 1 \in 0 .. Len(rs) /\ 1 <= (idx - 1) + 1
          /\ (idx - 1) - 1 + 1 = idx - 1
      BY <1>1, <2>2
    <3>2. \A k \in 1 .. idx - 1 : 1 + k - 1 = k
      BY <1>1, <2>2
    <3>3. /\ A \in Seq(Span) /\ Len(A) = (idx - 1) - 1 + 1 /\ Ordered(A)
          /\ \A k \in 1 .. (idx - 1) - 1 + 1 : A[k] = rs[1 + k - 1]
          /\ Values(A) = UNION {ValuesOf(rs[k]) : k \in 1 .. idx - 1}
      BY <1>1, <3>1, SubSeqFacts
    <3> QED
      BY <3>1, <3>2, <3>3
  <2>5. \A v : v \in Values(A) <=> v \in Int /\ \E k \in 1 .. idx - 1 : rs[k].start <= v /\ v < rs[k].end
    <3>1. \A k \in 1 .. idx - 1 : k \in 1 .. n
      BY <1>1, <2>2
    <3> QED
      BY <1>2, <2>4, <3>1 DEF ValuesOf
  <2> HIDE DEF A, b, c
  <2>6. /\ <<b>> \in Seq(Span) /\ Ordered(<<b>>) /\ Len(<<b>>) = 1 /\ <<b>>[1] = b
        /\ Values(<<b>>) = ValuesOf(b)
    BY <2>3, Single
  <2>7. /\ <<c>> \in Seq(Span) /\ Ordered(<<c>>) /\ Len(<<c>>) = 1 /\ <<c>>[1] = c
        /\ Values(<<c>>) = ValuesOf(c)
    BY <2>3, Single
  <2>8. Precedes(A, <<b>>)
    <3>1. ASSUME NEW i \in 1 .. idx - 1 PROVE A[i].end < b.start
      <4>1. i \in 1 .. n /\ i < idx
        BY <1>1, <2>2
      <4> QED
        BY <1>5, <2>2, <2>3, <2>4, <4>1
    <3> QED
      BY <2>4, <2>6, <3>1 DEF Precedes
  <2>9. Precedes(<<c>>, rest)
    <3>1. ASSUME NEW j \in 1 .. n - idx PROVE c.end < rest[j].start
      <4>1. idx + j \in 1 .. n /\ idx < idx + j
        BY <1>1, <2>2
      <4> QED
        BY <1>5, <1>7, <2>2, <2>3, <4>1
    <3> QED
      BY <1>7, <2>7, <3>1 DEF Precedes
  <2>10. /\ A \o <<b>> \in Seq(Span) /\ Ordered(A \o <<b>>)
         /\ Values(A \o <<b>>) = Values(A) \cup ValuesOf(b)
    <3>1. A \o <<b>> \in Seq(Span) /\ Ordered(A \o <<b>>)
      BY <2>4, <2>6, <2>8, OrderedConcat, Zenon
    <3>2. Values(A \o <<b>>) = Values(A) \cup Values(<<b>>)
      BY <2>4, <2>6, ValuesConcat, Zenon
    <3> QED
      BY <2>6, <3>1, <3>2, Zenon
  <2>11. /\ <<c>> \o rest \in Seq(Span) /\ Ordered(<<c>> \o rest)
         /\ Values(<<c>> \o rest) = ValuesOf(c) \cup Values(rest)
    <3>1. <<c>> \o rest \in Seq(Span) /\ Ordered(<<c>> \o rest)
      BY <1>7, <2>7, <2>9, OrderedConcat, Zenon
    <3>2. Values(<<c>> \o rest) = Values(<<c>>) \cup Values(rest)
      BY <1>7, <2>7, ValuesConcat, Zenon
    <3> QED
      BY <2>7, <3>1, <3>2, Zenon
  <2>12. \A v : v \in ValuesOf(b) <=> v \in Int /\ rs[idx].start <= v /\ v < at
    BY <1>2, <2>2, <2>3 DEF ValuesOf
  <2>13. \A v : v \in ValuesOf(c) <=> v \in Int /\ at <= v /\ v < rs[idx].end
    BY <1>2, <2>2, <2>3 DEF ValuesOf
  <2>14. \A k \in 1 .. n : k < idx => rs[k].end < at
    <3>1. \A k \in 1 .. n : k < idx => rs[k].end < rs[idx].start
      BY <1>5, <2>2
    <3> QED
      BY <1>2, <2>2, <3>1
  <2>15. ASSUME NEW v
         PROVE  v \in Values(A) \cup ValuesOf(b) <=> v \in Values(rs) /\ v < at
    <3>1. ASSUME v \in Int, NEW k \in 1 .. n, rs[k].start <= v, v < rs[k].end, v < at
          PROVE  v \in Values(A) \cup ValuesOf(b)
      <4>1. k <= idx
        BY <1>2, <1>3, <3>1
      <4>2. k = idx \/ k \in 1 .. idx - 1
        BY <1>1, <2>2, <4>1
      <4> QED
        BY <2>5, <2>12, <3>1, <4>2
    <3>2. ASSUME v \in Int, NEW k \in 1 .. idx - 1, rs[k].start <= v, v < rs[k].end
          PROVE  v \in Values(rs) /\ v < at
      <4>1. k \in 1 .. n /\ k < idx
        BY <1>1, <2>2
      <4> QED
        BY <1>2, <1>8, <2>14, <3>2, <4>1
    <3>3. ASSUME v \in Int, rs[idx].start <= v, v < at PROVE v \in Values(rs)
      BY <1>2, <1>8, <1>10, <2>2, <3>3
    <3> QED
      BY <1>8, <2>5, <2>12, <3>1, <3>2, <3>3
  <2>16. ASSUME NEW v
         PROVE  v \in ValuesOf(c) \cup Values(rest) <=> v \in Values(rs) /\ v >= at
    <3>1. ASSUME v \in Int, NEW k \in 1 .. n, rs[k].start <= v, v < rs[k].end, v >= at
          PROVE  v \in ValuesOf(c) \cup Values(rest)
      <4>1. ~(k < idx)
        BY <1>2, <2>14, <3>1
      <4>2. k = idx \/ k \in idx + 1 .. n
        BY <1>1, <2>2, <4>1
      <4>3. CASE k = idx
        BY <2>13, <3>1, <4>3
      <4>4. CASE k \in idx + 1 .. n
        <5>1. v \in Values(rest)
          BY <1>9, <3>1, <4>4, Zenon
        <5> QED
          BY <5>1
      <4> QED
        BY <4>2, <4>3, <4>4
    <3>2. ASSUME v \in Int, NEW k \in idx + 1 .. n, rs[k].start <= v, v < rs[k].end
          PROVE  v \in Values(rs) /\ v >= at
      <4>1. k \in 1 .. n /\ ~(k <= idx)
        BY <1>1, <2>2
      <4> QED
        BY <1>2, <1>3, <1>8, <3>2, <4>1
    <3>3. ASSUME v \in Int, at <= v, v < rs[idx].end PROVE v \in Values(rs) /\ v >= at
      BY <1>2, <1>8, <2>2, <3>3
    <3> QED
      BY <1>8, <1>9, <2>13, <3>1, <3>2, <3>3
  <2> QED
    BY <2>1, <2>10, <2>11, <2>15, <2>16, NormalIsOrdered
<1>11. CASE ~(idx > 0 /\ at < rs[idx].end)
  <2> DEFINE A == SubSeq(rs, 1, idx)
  <2>1. left = A /\ right = rest
    <3>1. SplitOff(rs, at) = [left |-> A, right |-> rest]
      BY <1>4, <1>11, Zenon
    <3> HIDE DEF A
    <3> QED
      BY <3>1
  <2>2. /\ A \in Seq(Span) /\ Ordered(A)
        /\ Values(A) = UNION {ValuesOf(rs[k]) : k \in 1 .. idx}
    BY <1>1, <1>3, SubSeqFacts
  <2>3. \A v : v \in Values(A) <=> v \in Int /\ \E k \in 1 .. idx : rs[k].start <= v /\ v < rs[k].end
    <3>1. \A k \in 1 .. idx : k \in 1 .. n
      BY <1>1, <1>3
    <3> QED
      BY <1>2, <2>2, <3>1 DEF ValuesOf
  <2> HIDE DEF A
  <2>4. \A k \in 1 .. idx : rs[k].end <= at
    <3>1. SUFFICES ASSUME NEW k \in 1 .. idx PROVE rs[k].end <= at
      OBVIOUS
    <3>2. k \in 1 .. n /\ idx \in 1 .. n /\ rs[idx].end <= at
      BY <1>1, <1>2, <1>3, <1>11
    <3>3. k < idx => rs[k].end < rs[idx].start
      BY <1>5, <3>2
    <3> QED
      BY <1>2, <1>6, <3>2, <3>3
  <2>5. ASSUME NEW v PROVE v \in Values(A) <=> v \in Values(rs) /\ v < at
    <3>1. ASSUME v \in Int, NEW k \in 1 .. n, rs[k].start <= v, v < rs[k].end, v < at
          PROVE  k \in 1 .. idx
      BY <1>1, <1>2, <1>3, <3>1
    <3>2. ASSUME v \in Int, NEW k \in 1 .. idx, rs[k].start <= v, v < rs[k].end
          PROVE  k \in 1 .. n /\ v < at
      BY <1>1, <1>2, <1>3, <2>4, <3>2
    <3> QED
      BY <1>8, <2>3, <3>1, <3>2
  <2>6. ASSUME NEW v PROVE v \in Values(rest) <=> v \in Values(rs) /\ v >= at
    <3>1. ASSUME v \in Int, NEW k \in 1 .. n, rs[k].start <= v, v < rs[k].end, v >= at
          PROVE  k \in idx + 1 .. n
      <4>1. ~(k \in 1 .. idx)
        BY <1>2, <2>4, <3>1
      <4> QED
        BY <1>1, <1>3, <4>1
    <3>2. ASSUME v \in Int, NEW k \in idx + 1 .. n, rs[k].start <= v, v < rs[k].end
          PROVE  k \in 1 .. n /\ v >= at
      <4>1. k \in 1 .. n /\ ~(k <= idx)
        BY <1>1, <1>3
      <4> QED
        BY <1>2, <1>3, <3>2, <4>1
    <3> QED
      BY <1>8, <1>9, <3>1, <3>2
  <2> QED
    BY <1>7, <2>1, <2>2, <2>5, <2>6, NormalIsOrdered
<1> QED
  BY <1>10, <1>11

(* range.rs:574: the subset test of a range and a set looks for the first   *)
(* range of the set that ends after the start of the range, and compares    *)
(* with that one alone; that is enough in a normal set.                     *)
THEOREM RangeInSetExact ==
  ASSUME NEW qs \in Seq(Span), Normal(qs), NEW r \in Span
  PROVE  RangeInSet(r, qs) <=> ValuesOf(r) \subseteq Values(qs)
<1> DEFINE lo == Cardinality({k \in DOMAIN qs : qs[k].end <= r.start})
           n == Len(qs)
<1>1. Ordered(qs) /\ n \in Nat /\ r.start \in Int /\ r.end \in Int
  BY NormalIsOrdered DEF Span
<1>2. /\ DOMAIN qs = 1 .. n
      /\ \A k \in 1 .. n : qs[k] \in Span /\ qs[k].start \in Int /\ qs[k].end \in Int
  BY Spans
<1>3. lo \in 0 .. n /\ \A k \in 1 .. n : k <= lo <=> qs[k].end <= r.start
  <2>1. lo \in 0 .. n /\ {k \in DOMAIN qs : qs[k].end <= r.start} = 1 .. lo
    BY <1>1, EndsUpTo
  <2> HIDE DEF lo
  <2> QED
    BY <1>2, <2>1
<1>4. {k \in DOMAIN qs : r.start >= qs[k].end} = {k \in DOMAIN qs : qs[k].end <= r.start}
  BY <1>1, <1>2
<1>5. RangeInSet(r, qs) <=> \/ Empty(r)
                            \/ /\ qs # <<>>
                               /\ r.start >= RsMin(qs) /\ r.end <= RsEnd(qs)
                               /\ lo + 1 <= n
                               /\ r.start >= qs[lo + 1].start /\ r.end <= qs[lo + 1].end
  BY <1>4 DEF RangeInSet, RangeInRange
<1> HIDE DEF lo
<1>6. \A i, j \in 1 .. n : i < j => qs[i].end < qs[j].start
  BY <1>1 DEF Ordered
<1>7. \A k \in 1 .. n : qs[k].start < qs[k].end
  BY <1>1 DEF Ordered
<1>8. \A v : v \in Values(qs) <=> v \in Int /\ \E k \in 1 .. n : qs[k].start <= v /\ v < qs[k].end
  BY ValuesIn
<1>9. \A v : v \in ValuesOf(r) <=> v \in Int /\ r.start <= v /\ v < r.end
  BY <1>1 DEF ValuesOf
<1>10. CASE Empty(r)
  <2>1. ValuesOf(r) = {}
    BY <1>1, <1>9, <1>10 DEF Empty
  <2> QED
    BY <1>5, <1>10, <2>1
<1>11. CASE ~Empty(r)
  <2>1. r.start < r.end
    BY <1>1, <1>11 DEF Empty
  <2>2. ASSUME RangeInSet(r, qs), NEW v \in ValuesOf(r) PROVE v \in Values(qs)
    <3>1. lo + 1 \in 1 .. n /\ r.start >= qs[lo + 1].start /\ r.end <= qs[lo + 1].end
      BY <1>1, <1>3, <1>5, <1>11, <2>2
    <3> QED
      BY <1>1, <1>2, <1>8, <1>9, <2>2, <3>1
  <2>3. ASSUME ValuesOf(r) \subseteq Values(qs) PROVE RangeInSet(r, qs)
    <3>1. r.start \in Values(qs)
      BY <1>1, <1>9, <2>1, <2>3
    <3>2. PICK k \in 1 .. n : qs[k].start <= r.start /\ r.start < qs[k].end
      BY <1>8, <3>1
    <3>3. k = lo + 1
      <4>1. ~(k <= lo)
        BY <1>1, <1>2, <1>3, <3>2
      <4>2. k > lo + 1 => FALSE
        <5>1. SUFFICES ASSUME k > lo + 1 PROVE FALSE
          OBVIOUS
        <5>2. lo + 1 \in 1 .. n /\ lo + 1 < k /\ ~(lo + 1 <= lo)
          BY <1>1, <1>3, <5>1
        <5>3. qs[lo + 1].end < qs[k].start /\ ~(qs[lo + 1].end <= r.start)
          BY <1>3, <1>6, <5>2
        <5> QED
          BY <1>1, <1>2, <3>2, <5>2, <5>3
      <4> QED
        BY <1>1, <1>3, <4>1, <4>2
    <3>4. r.end <= qs[k].end
      <4>1. SUFFICES ASSUME ~(r.end <= qs[k].end) PROVE FALSE
        OBVIOUS
      <4>2. qs[k].end \in ValuesOf(r)
        BY <1>1, <1>2, <1>9, <3>2, <4>1
      <4>3. PICK m \in 1 .. n : qs[m].start <= qs[k].end /\ qs[k].end < qs[m].end
        BY <1>8, <2>3, <4>2
      <4>4. m < k => qs[m].end < qs[k].start
        BY <1>6
      <4>5. k < m => qs[k].end < qs[m].start
        BY <1>6
      <4> QED
        BY <1>2, <1>7, <4>3, <4>4, <4>5
    <3>5. qs # <<>> /\ RsMin(qs) = qs[1].start /\ RsEnd(qs) = qs[n].end
      BY <1>1, <3>2 DEF RsMin, RsEnd, Last
    <3>6. qs[1].start <= qs[k].start
      <4>1. 1 \in 1 .. n /\ (1 < k => qs[1].end < qs[k].start)
        BY <1>1, <1>6, <3>2
      <4> QED
        BY <1>2, <1>7, <3>2, <4>1
    <3>7. qs[k].end <= qs[n].end
      <4>1. n \in 1 .. n /\ (k < n => qs[k].end < qs[n].start)
        BY <1>1, <1>6, <3>2
      <4> QED
        BY <1>1, <1>2, <1>7, <3>2, <4>1
    <3>8. r.start >= qs[1].start /\ r.end <= qs[n].end
      <4>1. 1 \in 1 .. n /\ n \in 1 .. n
        BY <1>1, <3>2
      <4> QED
        BY <1>1, <1>2, <3>2, <3>4, <3>6, <3>7, <4>1
    <3> QED
      BY <1>1, <1>2, <1>3, <1>5, <3>2, <3>3, <3>4, <3>5, <3>8
  <2> QED
    BY <2>2, <2>3
<1> QED
  BY <1>10, <1>11

-----------------------------------------------------------------------------
(* What the trait RangeIterator asks of an iterator (iter.rs:11-18), in the *)
(* integers that it has still to yield: S before a call, T after it.  next  *)
(* yields the first of the ranges that S consists of ...                    *)
NextContract(S, out, T) ==
  \/ S = {} /\ out = None /\ T = {}
  \/ /\ out \in Span /\ out.start < out.end
     /\ S = ValuesOf(out) \cup T
     /\ \A v \in T : out.end < v

(* ... and seek_end_ge(n) the first that ends at n or later; what it passes *)
(* over ends before n, and before what it yields.                           *)
SeekContract(S, n, out, T) ==
  \/ (\A v \in S : v + 1 < n) /\ out = None /\ T = {}
  \/ /\ out \in Span /\ out.start < out.end /\ n <= out.end
     /\ (ValuesOf(out) \cup T) \subseteq S
     /\ \A v \in S \ (ValuesOf(out) \cup T) : v + 1 < n /\ v + 1 < out.start
     /\ \A v \in T : out.end < v

(* An Option<Range>, and the integers it holds. *)
Slot == {None} \cup {r \in Span : r.start < r.end}
Held(o) == IF o = None THEN {} ELSE ValuesOf(o)

(* The integers of a range. *)
LEMMA Within ==
  ASSUME NEW r \in Span
  PROVE  /\ r.start \in Int /\ r.end \in Int /\ ValuesOf(r) \subseteq Int
         /\ \A v : v \in ValuesOf(r) <=> v \in Int /\ r.start <= v /\ v < r.end
<1>1. r.start \in Int /\ r.end \in Int
  BY DEF Span
<1> QED
  BY <1>1 DEF ValuesOf

(* What a slot holds. *)
LEMMA SlotFacts ==
  ASSUME None \notin Span, NEW o \in Slot
  PROVE  /\ o = None => Held(o) = {}
         /\ o # None => o \in Span /\ o.start < o.end /\ Held(o) = ValuesOf(o)
  BY DEF Slot, Held

(* A range that may be empty goes into a slot as what it holds. *)
LEMMA NonEmptyFacts ==
  ASSUME None \notin Span, NEW r \in Span
  PROVE  NonEmpty(r) \in Slot /\ Held(NonEmpty(r)) = ValuesOf(r)
<1>1. r # None
  OBVIOUS
<1>2. CASE r.start >= r.end
  <2>1. ValuesOf(r) = {}
    BY <1>2, Within
  <2> QED
    BY <1>2, <2>1 DEF NonEmpty, Empty, Slot, Held
<1>3. CASE ~(r.start >= r.end)
  <2>1. r.start < r.end
    BY <1>3, Within
  <2> QED
    BY <1>1, <1>3, <2>1 DEF NonEmpty, Empty, Slot, Held
<1> QED
  BY <1>2, <1>3

(* A seek that ends with the first call of next ... *)
LEMMA SeekIsNext ==
  ASSUME None \notin Span, NEW S, NEW T, NEW out, NEW n \in Int, NextContract(S, out, T),
         out = None \/ n <= out.end
  PROVE  SeekContract(S, n, out, T)
<1>1. CASE S = {} /\ out = None /\ T = {}
  BY <1>1 DEF SeekContract
<1>2. CASE /\ out \in Span /\ out.start < out.end
           /\ S = ValuesOf(out) \cup T
           /\ \A v \in T : out.end < v
  <2>1. n <= out.end
    BY <1>2
  <2>2. (ValuesOf(out) \cup T) \subseteq S /\ S \ (ValuesOf(out) \cup T) = {}
    BY <1>2
  <2> QED
    BY <1>2, <2>1, <2>2 DEF SeekContract
<1> QED
  BY <1>1, <1>2 DEF NextContract

(* ... and one that goes on with what is left. *)
LEMMA SeekPastNext ==
  ASSUME None \notin Span, NEW S, NEW R, NEW out, NEW n \in Int, NextContract(S, out, R),
         out # None, out.end < n, R \subseteq Int,
         NEW T, NEW found, SeekContract(R, n, found, T)
  PROVE  SeekContract(S, n, found, T)
<1>1. /\ out \in Span /\ out.start < out.end
      /\ S = ValuesOf(out) \cup R
      /\ \A v \in R : out.end < v
  BY DEF NextContract
<1>2. \A v \in ValuesOf(out) : v \in Int /\ v + 1 < n /\ v + 1 <= out.end
  BY <1>1, Within
<1>3. CASE (\A v \in R : v + 1 < n) /\ found = None /\ T = {}
  BY <1>1, <1>2, <1>3 DEF SeekContract
<1>4. CASE /\ found \in Span /\ found.start < found.end /\ n <= found.end
           /\ (ValuesOf(found) \cup T) \subseteq R
           /\ \A v \in R \ (ValuesOf(found) \cup T) : v + 1 < n /\ v + 1 < found.start
           /\ \A v \in T : found.end < v
  <2>1. found.start \in R /\ found.start \in Int /\ out.end \in Int
    BY <1>1, <1>4, Within
  <2>2. out.end < found.start
    BY <1>1, <2>1
  <2>3. \A v \in ValuesOf(out) : v + 1 < found.start
    BY <1>2, <2>1, <2>2
  <2>4. \A v \in S \ (ValuesOf(found) \cup T) : v + 1 < n /\ v + 1 < found.start
    BY <1>1, <1>2, <1>4, <2>3
  <2>5. (ValuesOf(found) \cup T) \subseteq S
    BY <1>1, <1>4
  <2> QED
    BY <1>4, <2>4, <2>5 DEF SeekContract
<1> QED
  BY <1>3, <1>4 DEF SeekContract

(* A call that empties a slot: next, and seek_end_ge. *)
LEMMA TakeSlot ==
  ASSUME None \notin Span, NEW o \in Slot, NEW n \in Int
  PROVE  /\ NextContract(Held(o), o, {})
         /\ SeekContract(Held(o), n, IF o # None /\ o.end >= n THEN o ELSE None, {})
<1>1. CASE o = None
  BY <1>1, SlotFacts DEF NextContract, SeekContract
<1>2. CASE o # None
  <2>1. o \in Span /\ o.start < o.end /\ Held(o) = ValuesOf(o)
    BY <1>2, SlotFacts
  <2>2. NextContract(Held(o), o, {})
    BY <2>1 DEF NextContract
  <2>3. CASE o.end >= n
    <3>1. n <= o.end
      BY <2>1, <2>3, Within
    <3>2. SeekContract(Held(o), n, o, {})
      BY <2>2, <3>1, SeekIsNext
    <3> QED
      BY <1>2, <2>2, <2>3, <3>2
  <2>4. CASE ~(o.end >= n)
    <3>1. \A v \in Held(o) : v + 1 < n
      BY <2>1, <2>4, Within
    <3>2. SeekContract(Held(o), n, None, {})
      BY <3>1 DEF SeekContract
    <3> QED
      BY <2>2, <2>4, <3>2
  <2> QED
    BY <2>3, <2>4
<1> QED
  BY <1>1, <1>2
-----------------------------------------------------------------------------
(* What the ranges of a vector hold from number k + 1 on. *)
From(rs, k) == UNION {ValuesOf(rs[j]) : j \in k + 1 .. Len(rs)}

(* They are the integers of one of those ranges. *)
LEMMA FromIn ==
  ASSUME NEW rs \in Seq(Span), NEW k \in Nat, NEW v
  PROVE  v \in From(rs, k) <=> /\ v \in Int
                               /\ \E j \in k + 1 .. Len(rs) : rs[j].start <= v /\ v < rs[j].end
<1>1. \A j \in k + 1 .. Len(rs) : rs[j] \in Span
  BY Spans
<1>2. v \in From(rs, k) <=> \E j \in k + 1 .. Len(rs) : v \in ValuesOf(rs[j])
  BY Zenon DEF From
<1> QED
  BY <1>1, <1>2, Within

(* The ranges from k + 1 on are the first of them and the others. *)
LEMMA NextAt ==
  ASSUME None \notin Span, NEW rs \in Seq(Span), Ordered(rs), NEW k \in Nat
  PROVE  NextContract(From(rs, k), IF k < Len(rs) THEN rs[k + 1] ELSE None, From(rs, k + 1))
<1>1. Len(rs) \in Nat /\ \A j \in 1 .. Len(rs) : rs[j] \in Span
  BY Spans
<1>2. CASE ~(k < Len(rs))
  <2>1. k + 1 .. Len(rs) = {} /\ (k + 1) + 1 .. Len(rs) = {}
    BY <1>1, <1>2
  <2>2. From(rs, k) = {} /\ From(rs, k + 1) = {}
    BY <2>1 DEF From
  <2> QED
    BY <1>2, <2>2 DEF NextContract
<1>3. CASE k < Len(rs)
  <2>1. k + 1 \in 1 .. Len(rs) /\ k + 1 .. Len(rs) = {k + 1} \cup ((k + 1) + 1 .. Len(rs))
    BY <1>1, <1>3
  <2>2. From(rs, k) = ValuesOf(rs[k + 1]) \cup From(rs, k + 1)
    BY <2>1, Zenon DEF From
  <2>3. rs[k + 1] \in Span /\ rs[k + 1].start < rs[k + 1].end
    BY <1>1, <2>1 DEF Ordered
  <2>4. ASSUME NEW v \in From(rs, k + 1) PROVE rs[k + 1].end < v
    <3>1. PICK j \in (k + 1) + 1 .. Len(rs) : rs[j].start <= v /\ v < rs[j].end
      BY FromIn
    <3>2. v \in Int
      BY FromIn
    <3>3. j \in 1 .. Len(rs) /\ k + 1 < j
      BY <1>1, <3>1
    <3>4. rs[k + 1].end < rs[j].start
      BY <2>1, <3>3 DEF Ordered
    <3>5. rs[k + 1].end \in Int /\ rs[j].start \in Int
      BY <2>1, <3>3, Spans
    <3> QED
      BY <3>1, <3>2, <3>4, <3>5
  <2> QED
    BY <1>3, <2>2, <2>3, <2>4 DEF NextContract
<1> QED
  BY <1>2, <1>3

(* partition_point finds the first range that ends at n or later. *)
LEMMA SeekAt ==
  ASSUME None \notin Span, NEW rs \in Seq(Span), Ordered(rs), NEW n \in Int
  PROVE  LET k == EndsBefore(rs, n)
         IN  /\ k \in 0 .. Len(rs)
             /\ SeekContract(From(rs, 0), n, IF k < Len(rs) THEN rs[k + 1] ELSE None,
                             From(rs, k + 1))
<1> DEFINE k == EndsBefore(rs, n)
           out == IF k < Len(rs) THEN rs[k + 1] ELSE None
<1>1. /\ Len(rs) \in Nat /\ DOMAIN rs = 1 .. Len(rs)
      /\ \A j \in 1 .. Len(rs) : rs[j] \in Span /\ rs[j].start \in Int /\ rs[j].end \in Int
  BY Spans
<1>2. {j \in DOMAIN rs : rs[j].end < n} = {j \in DOMAIN rs : rs[j].end <= n - 1}
  BY <1>1
<1>3. k = Cardinality({j \in DOMAIN rs : rs[j].end <= n - 1})
  BY <1>2 DEF EndsBefore
<1> HIDE DEF k
<1>4. k \in 0 .. Len(rs) /\ {j \in DOMAIN rs : rs[j].end <= n - 1} = 1 .. k
  BY <1>3, EndsUpTo
<1>5. k \in Nat /\ \A j \in 1 .. Len(rs) : j <= k <=> rs[j].end < n
  BY <1>1, <1>4
<1>6. NextContract(From(rs, k), out, From(rs, k + 1))
  BY <1>5, NextAt
<1>7. \A v \in From(rs, 0) : v \in From(rs, k) \/ v + 1 < n
  <2>1. SUFFICES ASSUME NEW v \in From(rs, 0), v \notin From(rs, k) PROVE v + 1 < n
    OBVIOUS
  <2>2. v \in Int
    BY FromIn
  <2>3. PICK j \in 0 + 1 .. Len(rs) : rs[j].start <= v /\ v < rs[j].end
    BY FromIn
  <2>4. j \notin k + 1 .. Len(rs)
    BY <1>5, <2>1, <2>2, <2>3, FromIn
  <2>5. j \in 1 .. Len(rs) /\ j <= k
    BY <1>1, <1>5, <2>4
  <2> QED
    BY <1>1, <1>5, <2>2, <2>3, <2>5
<1>8. CASE k < Len(rs)
  <2>1. k + 1 \in 1 .. Len(rs) /\ out = rs[k + 1] /\ out \in Span
    BY <1>1, <1>5, <1>8
  <2>2. n <= out.end
    BY <1>1, <1>5, <2>1
  <2>3. out # None /\ out.start < out.end
    BY <2>1 DEF Ordered
  <2>4. From(rs, k) = ValuesOf(out) \cup From(rs, k + 1) /\ \A v \in From(rs, k + 1) : out.end < v
    BY <1>6, <2>3 DEF NextContract
  <2>5. From(rs, k) \subseteq From(rs, 0)
    <3>1. k + 1 .. Len(rs) \subseteq 0 + 1 .. Len(rs)
      BY <1>5
    <3> QED
      BY <3>1 DEF From
  <2>6. ASSUME NEW v \in From(rs, 0), v \notin From(rs, k) PROVE v + 1 < out.start
    <3>1. v \in Int
      BY FromIn
    <3>2. PICK j \in 0 + 1 .. Len(rs) : rs[j].start <= v /\ v < rs[j].end
      BY FromIn
    <3>3. j \notin k + 1 .. Len(rs)
      BY <1>5, <2>6, <3>1, <3>2, FromIn
    <3>4. j \in 1 .. Len(rs) /\ j < k + 1
      BY <1>1, <1>5, <3>3
    <3>5. rs[j].end < out.start
      BY <2>1, <3>4 DEF Ordered
    <3>6. rs[j].end \in Int /\ out.start \in Int
      BY <1>1, <2>1, <3>4
    <3> QED
      BY <3>1, <3>2, <3>5, <3>6
  <2> HIDE DEF out
  <2>7. (ValuesOf(out) \cup From(rs, k + 1)) \subseteq From(rs, 0)
    BY <2>4, <2>5
  <2>8. \A v \in From(rs, 0) \ (ValuesOf(out) \cup From(rs, k + 1)) : v + 1 < n /\ v + 1 < out.start
    BY <1>7, <2>4, <2>6
  <2>9. SeekContract(From(rs, 0), n, out, From(rs, k + 1))
    BY <2>1, <2>2, <2>3, <2>4, <2>7, <2>8 DEF SeekContract
  <2> QED
    BY <1>4, <2>9 DEF k, out
<1>9. CASE ~(k < Len(rs))
  <2>1. out = None
    BY <1>9
  <2>2. From(rs, k) = {} /\ From(rs, k + 1) = {}
    <3>1. k + 1 .. Len(rs) = {} /\ (k + 1) + 1 .. Len(rs) = {}
      BY <1>1, <1>5, <1>9
    <3> QED
      BY <3>1 DEF From
  <2>3. SeekContract(From(rs, 0), n, out, From(rs, k + 1))
    BY <1>7, <2>1, <2>2 DEF SeekContract
  <2> QED
    BY <1>4, <2>3 DEF k, out
<1> QED
  BY <1>8, <1>9

(* A piece of a vector up to its end holds what the vector holds from       *)
(* there.                                                                   *)
LEMMA RestOfVector ==
  ASSUME NEW rs \in Seq(Span), Ordered(rs), NEW k \in 0 .. Len(rs)
  PROVE  LET ts == SubSeq(rs, k + 1, Len(rs))
         IN  /\ ts \in Seq(Span) /\ Ordered(ts) /\ Len(ts) = Len(rs) - k
             /\ \A j \in 1 .. Len(rs) - k : ts[j] = rs[k + j]
             /\ Values(ts) = From(rs, k) /\ From(ts, 0) = Values(ts)
<1> DEFINE ts == SubSeq(rs, k + 1, Len(rs))
<1>1. Len(rs) \in Nat /\ k + 1 \in 1 .. Len(rs) + 1 /\ Len(rs) \in 0 .. Len(rs) /\ k + 1 <= Len(rs) + 1
  BY Spans
<1>2. /\ ts \in Seq(Span) /\ Len(ts) = Len(rs) - (k + 1) + 1
      /\ \A j \in 1 .. Len(rs) - (k + 1) + 1 : ts[j] = rs[(k + 1) + j - 1]
      /\ Ordered(ts)
      /\ Values(ts) = UNION {ValuesOf(rs[j]) : j \in k + 1 .. Len(rs)}
  BY <1>1, SubSeqFacts
<1> HIDE DEF ts
<1>3. Len(ts) = Len(rs) - k /\ \A j \in 1 .. Len(rs) - k : ts[j] = rs[k + j]
  BY <1>1, <1>2
<1>4. Values(ts) = From(rs, k)
  BY <1>2 DEF From
<1>5. DOMAIN ts = 0 + 1 .. Len(ts)
  BY <1>2
<1>6. From(ts, 0) = Values(ts)
  BY <1>5 DEF From, Values
<1> QED
  BY <1>2, <1>3, <1>4, <1>6 DEF ts

(* Taking the first range of a vector in order. *)
LEMMA TakeHead ==
  ASSUME None \notin Span, NEW ts \in Seq(Span), Ordered(ts)
  PROVE  LET p == RangeIterNext(Iter(ts))
         IN  \E us \in Seq(Span) : /\ Ordered(us) /\ p.it = Iter(us)
                                   /\ p.out = IF 0 < Len(ts) THEN ts[1] ELSE None
                                   /\ Values(us) = From(ts, 1)
<1> DEFINE p == RangeIterNext(Iter(ts))
<1>1. Len(ts) \in Nat
  BY Spans
<1>2. CASE ts = <<>>
  <2>1. p = Yield(None, Iter(ts))
    BY <1>2, Zenon DEF RangeIterNext, Iter
  <2>2. p.it = Iter(ts) /\ p.out = None
    BY <2>1 DEF Yield
  <2>3. 1 + 1 .. Len(ts) = {} /\ ~(0 < Len(ts))
    BY <1>2
  <2>4. From(ts, 1) = {}
    BY <2>3 DEF From
  <2> QED
    BY <1>2, <2>2, <2>3, <2>4, Nothing
<1>3. CASE ts # <<>>
  <2>1. 0 < Len(ts) /\ Head(ts) = ts[1] /\ Tail(ts) = SubSeq(ts, 1 + 1, Len(ts)) /\ 1 \in 0 .. Len(ts)
    BY <1>1, <1>3
  <2>2. Iter(ts).ranges = ts
    BY DEF Iter
  <2>3. p = Yield(Head(ts), Iter(Tail(ts)))
    BY <1>3, <2>2 DEF RangeIterNext
  <2>4. p.out = ts[1] /\ p.it = Iter(Tail(ts))
    BY <2>1, <2>3 DEF Yield
  <2>5. /\ Tail(ts) \in Seq(Span) /\ Ordered(Tail(ts)) /\ Values(Tail(ts)) = From(ts, 1)
    BY <2>1, RestOfVector
  <2> QED
    BY <2>1, <2>4, <2>5
<1> QED
  BY <1>2, <1>3

(* set.rs:577-601: RangeIter, with its own seek by binary search, keeps the *)
(* contract of the trait at every call, whatever calls came before.         *)
THEOREM RangeIterExact ==
  ASSUME None \notin Span, NEW rs \in Seq(Span), Normal(rs), NEW n \in Int
  PROVE  LET p == RangeIterNext(Iter(rs))
             s == RangeIterSeek(Iter(rs), n)
         IN  /\ \E us \in Seq(Span) : /\ Normal(us) /\ p.it = Iter(us)
                                      /\ NextContract(Values(rs), p.out, Values(us))
             /\ \E us \in Seq(Span) : /\ Normal(us) /\ s.it = Iter(us)
                                      /\ SeekContract(Values(rs), n, s.out, Values(us))
<1> DEFINE p == RangeIterNext(Iter(rs))
           s == RangeIterSeek(Iter(rs), n)
           k == EndsBefore(rs, n)
           ts == SubSeq(rs, k + 1, Len(rs))
<1>1. Ordered(rs) /\ Len(rs) \in Nat
  BY NormalIsOrdered
<1>2. From(rs, 0) = Values(rs)
  BY <1>1 DEF From, Values
<1>3. \E us \in Seq(Span) : /\ Normal(us) /\ p.it = Iter(us)
                            /\ NextContract(Values(rs), p.out, Values(us))
  <2>1. PICK us \in Seq(Span) : /\ Ordered(us) /\ p.it = Iter(us)
                                /\ p.out = IF 0 < Len(rs) THEN rs[1] ELSE None
                                /\ Values(us) = From(rs, 1)
    BY <1>1, TakeHead
  <2>2. NextContract(From(rs, 0), IF 0 < Len(rs) THEN rs[0 + 1] ELSE None, From(rs, 0 + 1))
    BY <1>1, NextAt
  <2>3. NextContract(From(rs, 0), p.out, Values(us))
    BY <2>1, <2>2
  <2> QED
    BY <1>2, <2>1, <2>3, NormalIsOrdered
<1>4. k \in 0 .. Len(rs) /\ SeekContract(From(rs, 0), n, IF k < Len(rs) THEN rs[k + 1] ELSE None,
                                         From(rs, k + 1))
  BY <1>1, SeekAt
<1>5. s = RangeIterNext(Iter(ts))
  BY DEF RangeIterSeek, Iter
<1> HIDE DEF k
<1>6. /\ ts \in Seq(Span) /\ Ordered(ts) /\ Len(ts) = Len(rs) - k
      /\ \A j \in 1 .. Len(rs) - k : ts[j] = rs[k + j]
  BY <1>1, <1>4, RestOfVector
<1> HIDE DEF ts, s
<1>7. PICK us \in Seq(Span) : /\ Ordered(us) /\ s.it = Iter(us)
                              /\ s.out = IF 0 < Len(ts) THEN ts[1] ELSE None
                              /\ Values(us) = From(ts, 1)
  BY <1>5, <1>6, TakeHead
<1>8. s.out = IF k < Len(rs) THEN rs[k + 1] ELSE None
  <2>1. CASE k < Len(rs)
    <3>1. 0 < Len(ts) /\ 1 \in 1 .. Len(rs) - k
      BY <1>1, <1>4, <1>6, <2>1
    <3> QED
      BY <1>6, <1>7, <2>1, <3>1
  <2>2. CASE ~(k < Len(rs))
    <3>1. ~(0 < Len(ts))
      BY <1>1, <1>4, <1>6, <2>2
    <3> QED
      BY <1>7, <2>2, <3>1
  <2> QED
    BY <2>1, <2>2
<1>9. From(ts, 1) = From(rs, k + 1)
  <2>1. ASSUME NEW v \in From(ts, 1) PROVE v \in From(rs, k + 1)
    <3>1. PICK j \in 1 + 1 .. Len(ts) : ts[j].start <= v /\ v < ts[j].end
      BY <1>6, FromIn
    <3>2. v \in Int
      BY <1>6, FromIn
    <3>3. j \in 1 .. Len(rs) - k /\ k + j \in (k + 1) + 1 .. Len(rs) /\ k + 1 \in Nat
      BY <1>1, <1>4, <1>6, <3>1
    <3>4. rs[k + j].start <= v /\ v < rs[k + j].end
      BY <1>6, <3>1, <3>3
    <3> QED
      BY <3>2, <3>3, <3>4, FromIn
  <2>2. ASSUME NEW v \in From(rs, k + 1) PROVE v \in From(ts, 1)
    <3>1. k + 1 \in Nat
      BY <1>4
    <3>2. PICK i \in (k + 1) + 1 .. Len(rs) : rs[i].start <= v /\ v < rs[i].end
      BY <3>1, FromIn
    <3>3. v \in Int
      BY <3>1, FromIn
    <3>4. k \in Int /\ i \in Int /\ k + 2 <= i /\ i <= Len(rs) /\ Len(ts) = Len(rs) - k
      BY <1>1, <1>4, <1>6
    <3>5. i - k \in 1 .. Len(rs) - k /\ i - k \in 1 + 1 .. Len(ts) /\ k + (i - k) = i
      BY <1>1, <3>4
    <3>6. ts[i - k] = rs[i]
      BY <1>6, <3>5
    <3> QED
      BY <1>6, <3>2, <3>3, <3>5, <3>6, FromIn
  <2> QED
    BY <2>1, <2>2
<1>10. SeekContract(Values(rs), n, s.out, Values(us))
  BY <1>2, <1>4, <1>7, <1>8, <1>9
<1>11. \E us2 \in Seq(Span) : /\ Normal(us2) /\ s.it = Iter(us2)
                              /\ SeekContract(Values(rs), n, s.out, Values(us2))
  BY <1>7, <1>10, NormalIsOrdered
<1> QED
  BY <1>3, <1>11 DEF s

(* set.rs:520-537: IntoRangeIter keeps the contract of next; its seek looks *)
(* in the whole vector wherever the iterator stands: what it answers is the *)
(* answer of an iterator that has not yielded anything.                     *)
THEOREM IntoRangeIterExact ==
  ASSUME None \notin Span, NEW rs \in Seq(Span), Normal(rs), NEW k \in Nat, NEW n \in Int
  PROVE  LET at(j) == [IntoIter(rs) EXCEPT !.pos = j]
             p == IntoRangeIterNext(at(k))
             s == IntoRangeIterSeek(at(k), n)
         IN  /\ p.it = at(k + 1) /\ NextContract(From(rs, k), p.out, From(rs, k + 1))
             /\ \E j \in Nat : s.it = at(j) /\ SeekContract(Values(rs), n, s.out, From(rs, j))
<1> DEFINE at(j) == [IntoIter(rs) EXCEPT !.pos = j]
           m == EndsBefore(rs, n)
<1>1. Ordered(rs) /\ Len(rs) \in Nat
  BY NormalIsOrdered
<1>2. \A j : at(j) = [type |-> "IntoRangeIter", pos |-> j, ranges |-> rs]
  BY DEF IntoIter
<1>3. ASSUME NEW j \in Nat
      PROVE  LET p == IntoRangeIterNext(at(j))
             IN  p.it = at(j + 1) /\ p.out = IF j < Len(rs) THEN rs[j + 1] ELSE None
  <2>1. at(j).pos = j /\ at(j).ranges = rs /\ [at(j) EXCEPT !.pos = @ + 1] = at(j + 1)
    BY <1>2
  <2> QED
    BY <2>1 DEF IntoRangeIterNext, Yield
<1>4. From(rs, 0) = Values(rs)
  BY <1>1 DEF From, Values
<1>5. /\ m \in 0 .. Len(rs)
      /\ SeekContract(From(rs, 0), n, IF m < Len(rs) THEN rs[m + 1] ELSE None, From(rs, m + 1))
  BY <1>1, SeekAt
<1>6. IntoRangeIterSeek(at(k), n) = IntoRangeIterNext(at(m))
  <2>1. at(k).ranges = rs /\ [at(k) EXCEPT !.pos = m] = at(m)
    BY <1>2
  <2> QED
    BY <2>1 DEF IntoRangeIterSeek
<1> HIDE DEF m, at
<1>7. m \in Nat /\ m + 1 \in Nat
  BY <1>1, <1>5
<1>8. /\ IntoRangeIterSeek(at(k), n).it = at(m + 1)
      /\ SeekContract(Values(rs), n, IntoRangeIterSeek(at(k), n).out, From(rs, m + 1))
  BY <1>3, <1>4, <1>5, <1>6, <1>7
<1>9. /\ IntoRangeIterNext(at(k)).it = at(k + 1)
      /\ NextContract(From(rs, k), IntoRangeIterNext(at(k)).out, From(rs, k + 1))
  BY <1>1, <1>3, NextAt
<1> USE DEF at
<1> QED
  BY <1>7, <1>8, <1>9, Zenon
-----------------------------------------------------------------------------
(* range.rs:169-280: the intersection of two ranges, and a range as an      *)
(* iterator of its own, yield what they hold, once.                         *)
THEOREM RangeIntersectionExact ==
  ASSUME None \notin Span, NEW a \in Span, NEW b \in Span, NEW n \in Int
  PROVE  /\ RangeIntersection(a, b).range \in Slot /\ Once(a).range \in Slot
         /\ Held(RangeIntersection(a, b).range) = ValuesOf(a) \cap ValuesOf(b)
         /\ Held(Once(a).range) = ValuesOf(a)
         /\ \A o \in Slot :
              LET it == [type |-> "Once", range |-> o]
                  p == OnceNext(it)
                  s == OnceSeek(it, n)
              IN  /\ p.it.range = None /\ NextContract(Held(o), p.out, {})
                  /\ s.it.range = None /\ SeekContract(Held(o), n, s.out, {})
<1> DEFINE c == Rg(Larger(a.start, b.start), Smaller(a.end, b.end))
<1>1. c \in Span
  BY Within DEF Rg, Span, Larger, Smaller
<1>2. ValuesOf(c) = ValuesOf(a) \cap ValuesOf(b)
  <2>1. c.start = Larger(a.start, b.start) /\ c.end = Smaller(a.end, b.end)
    BY DEF Rg
  <2> HIDE DEF c
  <2>2. /\ a.start \in Int /\ a.end \in Int /\ b.start \in Int /\ b.end \in Int
        /\ \A v : v \in ValuesOf(a) <=> v \in Int /\ a.start <= v /\ v < a.end
        /\ \A v : v \in ValuesOf(b) <=> v \in Int /\ b.start <= v /\ v < b.end
        /\ \A v : v \in ValuesOf(c) <=> v \in Int /\ c.start <= v /\ v < c.end
    BY <1>1, Within
  <2> QED
    BY <2>1, <2>2 DEF Larger, Smaller
<1>3. RangeIntersection(a, b).range = NonEmpty(c) /\ Once(a).range = NonEmpty(a)
  BY DEF RangeIntersection, Once
<1>4. ASSUME NEW o \in Slot
      PROVE  LET it == [type |-> "Once", range |-> o]
                 p == OnceNext(it)
                 s == OnceSeek(it, n)
             IN  /\ p.it.range = None /\ NextContract(Held(o), p.out, {})
                 /\ s.it.range = None /\ SeekContract(Held(o), n, s.out, {})
  <2> DEFINE it == [type |-> "Once", range |-> o]
  <2>1. it.range = o /\ [it EXCEPT !.range = None].range = None
    OBVIOUS
  <2>2. OnceNext(it).out = o /\ OnceNext(it).it.range = None
    BY <2>1 DEF OnceNext, Yield
  <2>3. /\ OnceSeek(it, n).out = IF o # None /\ o.end >= n THEN o ELSE None
        /\ OnceSeek(it, n).it.range = None
    BY <2>1 DEF OnceSeek, Yield
  <2> QED
    BY <2>2, <2>3, TakeSlot
<1> HIDE DEF c
<1> QED
  BY <1>1, <1>2, <1>3, <1>4, NonEmptyFacts
-----------------------------------------------------------------------------
(* range.rs:97-155: an iterator over the union of two ranges. *)
RangeUnionIters == [type : {"RangeUnionIter"}, a : Slot, b : Slot]
UnionComing(it) == Held(it.a) \cup Held(it.b)

(* Two ranges that overlap or touch, and the one they make. *)
LEMMA Merged ==
  ASSUME NEW l \in Span, NEW r \in Span, l.start < l.end, r.start < r.end,
         l.start <= r.start, r.start <= l.end
  PROVE  LET m == Rg(l.start, Larger(l.end, r.end))
         IN  m \in Span /\ m.start < m.end /\ ValuesOf(m) = ValuesOf(l) \cup ValuesOf(r)
<1> DEFINE m == Rg(l.start, Larger(l.end, r.end))
<1>1. /\ l.start \in Int /\ l.end \in Int /\ r.start \in Int /\ r.end \in Int
      /\ \A v : v \in ValuesOf(l) <=> v \in Int /\ l.start <= v /\ v < l.end
      /\ \A v : v \in ValuesOf(r) <=> v \in Int /\ r.start <= v /\ v < r.end
  BY Within
<1>2. m.start = l.start /\ m.end = Larger(l.end, r.end)
  BY DEF Rg
<1>3. m \in Span
  BY <1>1 DEF Rg, Span, Larger
<1> HIDE DEF m
<1>4. \A v : v \in ValuesOf(m) <=> v \in Int /\ m.start <= v /\ v < m.end
  BY <1>3, Within
<1>5. ValuesOf(m) = ValuesOf(l) \cup ValuesOf(r)
  BY <1>1, <1>2, <1>4 DEF Larger
<1>6. m.start < m.end
  BY <1>1, <1>2 DEF Larger
<1> QED
  BY <1>3, <1>5, <1>6 DEF m

(* What a call of next leaves: one range at most. *)
UnionLeft(it, o) == [it EXCEPT !.a = o, !.b = None]

(* It yields that range and no more. *)
LEMMA UnionLeftFacts ==
  ASSUME NEW it \in RangeUnionIters, NEW o \in Slot
  PROVE  /\ UnionLeft(it, o) \in RangeUnionIters /\ UnionLeft(it, o).b = None
         /\ UnionComing(UnionLeft(it, o)) = Held(o)
<1> DEFINE u == UnionLeft(it, o)
<1>1. None \in Slot /\ Held(None) = {}
  BY DEF Slot, Held
<1>2. u \in RangeUnionIters /\ u.a = o /\ u.b = None
  BY <1>1 DEF RangeUnionIters, UnionLeft
<1> QED
  BY <1>1, <1>2 DEF UnionComing

(* A call of next. *)
LEMMA UnionNextFacts ==
  ASSUME None \notin Span, NEW it \in RangeUnionIters
  PROVE  LET p == RangeUnionNext(it)
         IN  /\ p.it \in RangeUnionIters /\ p.it.b = None
             /\ NextContract(UnionComing(it), p.out, UnionComing(p.it))
<1> DEFINE p == RangeUnionNext(it)
<1>1. it.a \in Slot /\ it.b \in Slot
  BY DEF RangeUnionIters
<1>2. None \in Slot /\ Held(None) = {}
  BY DEF Slot, Held
<1>3. CASE it.a = None \/ it.b = None
  <2> DEFINE o == IF it.a # None THEN it.a ELSE it.b
  <2>1. p = Yield(o, UnionLeft(it, None))
    BY <1>3 DEF RangeUnionNext, UnionLeft
  <2>2. p.out = o /\ p.it = UnionLeft(it, None)
    BY <2>1 DEF Yield
  <2>3. UnionComing(it) = Held(o) /\ o \in Slot
    BY <1>1, <1>2, <1>3 DEF UnionComing
  <2> HIDE DEF p, o
  <2>4. p.it \in RangeUnionIters /\ p.it.b = None /\ UnionComing(p.it) = {}
    BY <1>2, <2>2, UnionLeftFacts
  <2>5. NextContract(Held(o), o, {})
    BY <2>3, TakeSlot
  <2> QED
    BY <2>2, <2>3, <2>4, <2>5 DEF p
<1>4. CASE ~(it.a = None \/ it.b = None)
  <2> DEFINE l == IF it.a.start < it.b.start THEN it.a ELSE it.b
             r == IF it.a.start < it.b.start THEN it.b ELSE it.a
             m == Rg(l.start, Larger(l.end, r.end))
  <2>1. /\ it.a \in Span /\ it.a.start < it.a.end /\ Held(it.a) = ValuesOf(it.a)
        /\ it.b \in Span /\ it.b.start < it.b.end /\ Held(it.b) = ValuesOf(it.b)
    BY <1>1, <1>4, SlotFacts
  <2>2. /\ l \in Span /\ l.start < l.end /\ r \in Span /\ r.start < r.end /\ r \in Slot
        /\ UnionComing(it) = ValuesOf(l) \cup ValuesOf(r)
    BY <1>1, <2>1 DEF UnionComing
  <2>3. l.start <= r.start
    BY <2>1, Within
  <2>4. p = IF l.end < r.start
              THEN Yield(l, UnionLeft(it, r))
              ELSE Yield(m, UnionLeft(it, None))
    BY <1>4 DEF RangeUnionNext, UnionLeft
  <2>5. r # None /\ Held(r) = ValuesOf(r)
    BY <2>2 DEF Held
  <2> HIDE DEF p, l, r
  <2>6. CASE l.end < r.start
    <3>1. p.out = l /\ p.it = UnionLeft(it, r)
      BY <2>4, <2>6 DEF Yield
    <3>2. p.it \in RangeUnionIters /\ p.it.b = None /\ UnionComing(p.it) = ValuesOf(r)
      BY <2>2, <2>5, <3>1, UnionLeftFacts
    <3>3. \A v \in ValuesOf(r) : l.end < v
      BY <2>2, <2>6, Within
    <3>4. NextContract(UnionComing(it), l, ValuesOf(r))
      BY <2>2, <3>3 DEF NextContract
    <3> QED
      BY <3>1, <3>2, <3>4 DEF p
  <2>7. CASE ~(l.end < r.start)
    <3>1. p.out = m /\ p.it = UnionLeft(it, None)
      BY <2>4, <2>7 DEF Yield
    <3>2. p.it \in RangeUnionIters /\ p.it.b = None /\ UnionComing(p.it) = {}
      BY <1>2, <3>1, UnionLeftFacts
    <3>3. r.start <= l.end
      BY <2>2, <2>7, Within
    <3>4. m \in Span /\ m.start < m.end /\ ValuesOf(m) = ValuesOf(l) \cup ValuesOf(r)
      BY <2>2, <2>3, <3>3, Merged
    <3> HIDE DEF m
    <3>5. NextContract(UnionComing(it), m, {})
      BY <2>2, <3>4 DEF NextContract
    <3> QED
      BY <3>1, <3>2, <3>5 DEF p
  <2> QED
    BY <2>6, <2>7
<1> QED
  BY <1>3, <1>4

(* The integers still to come are integers. *)
LEMMA HeldInt ==
  ASSUME None \notin Span, NEW o \in Slot
  PROVE  Held(o) \subseteq Int
<1>1. CASE o = None
  BY <1>1, SlotFacts
<1>2. CASE o # None
  <2>1. o \in Span /\ Held(o) = ValuesOf(o)
    BY <1>2, SlotFacts
  <2> QED
    BY <2>1, Within
<1> QED
  BY <1>1, <1>2

(* range.rs:97-155: the union of two ranges, touching, enclosing, empty or  *)
(* apart, is yielded by next and by seek_end_ge as the trait demands, also  *)
(* in the calls that follow.                                                *)
THEOREM RangeUnionExact ==
  ASSUME None \notin Span, NEW n \in Int
  PROVE  /\ \A x, y \in Span : /\ RangeUnion(x, y) \in RangeUnionIters
                               /\ UnionComing(RangeUnion(x, y)) = ValuesOf(x) \cup ValuesOf(y)
         /\ \A it \in RangeUnionIters :
              LET p == RangeUnionNext(it)
                  s == RangeUnionSeek(it, n)
              IN  /\ p.it \in RangeUnionIters
                  /\ NextContract(UnionComing(it), p.out, UnionComing(p.it))
                  /\ s.it \in RangeUnionIters
                  /\ SeekContract(UnionComing(it), n, s.out, UnionComing(s.it))
<1>1. ASSUME NEW x \in Span, NEW y \in Span
      PROVE  /\ RangeUnion(x, y) \in RangeUnionIters
             /\ UnionComing(RangeUnion(x, y)) = ValuesOf(x) \cup ValuesOf(y)
  <2>1. /\ NonEmpty(x) \in Slot /\ Held(NonEmpty(x)) = ValuesOf(x)
        /\ NonEmpty(y) \in Slot /\ Held(NonEmpty(y)) = ValuesOf(y)
    BY NonEmptyFacts
  <2> QED
    BY <2>1 DEF RangeUnion, RangeUnionIters, UnionComing
<1>2. ASSUME NEW it \in RangeUnionIters
      PROVE  LET s == RangeUnionSeek(it, n)
             IN  /\ s.it \in RangeUnionIters
                 /\ SeekContract(UnionComing(it), n, s.out, UnionComing(s.it))
  <2> DEFINE p == RangeUnionNext(it)
             s == RangeUnionSeek(it, n)
             rest == p.it.a
             found == IF rest # None /\ rest.end >= n THEN rest ELSE None
             left == [p.it EXCEPT !.a = None]
  <2>1. /\ p.it \in RangeUnionIters /\ p.it.b = None
        /\ NextContract(UnionComing(it), p.out, UnionComing(p.it))
    BY UnionNextFacts
  <2>2. s = IF p.out = None \/ p.out.end >= n THEN p ELSE Yield(found, left)
    BY DEF RangeUnionSeek
  <2> HIDE DEF p, s
  <2>3. Held(None) = {} /\ None \in Slot
    BY DEF Held, Slot
  <2>4. rest \in Slot /\ left \in RangeUnionIters /\ left.a = None /\ left.b = None
    BY <2>1, <2>3 DEF RangeUnionIters
  <2>5. UnionComing(p.it) = Held(rest) /\ UnionComing(left) = {}
    BY <2>1, <2>3, <2>4 DEF UnionComing
  <2>6. p.out = None \/ (p.out \in Span /\ p.out.end \in Int)
    BY <2>1, Within DEF NextContract
  <2>7. CASE p.out = None \/ p.out.end >= n
    <3>1. p.out = None \/ n <= p.out.end
      BY <2>6, <2>7
    <3>2. SeekContract(UnionComing(it), n, p.out, UnionComing(p.it))
      BY <2>1, <3>1, SeekIsNext
    <3> QED
      BY <2>1, <2>2, <2>7, <3>2 DEF s
  <2>8. CASE ~(p.out = None \/ p.out.end >= n)
    <3>1. p.out # None /\ p.out.end < n
      BY <2>6, <2>8
    <3>2. s.out = found /\ s.it = left
      BY <2>2, <2>8 DEF Yield
    <3>3. SeekContract(Held(rest), n, found, {}) /\ Held(rest) \subseteq Int
      BY <2>4, TakeSlot, HeldInt
    <3> HIDE DEF rest, found, left
    <3>4. NextContract(UnionComing(it), p.out, Held(rest))
      BY <2>1, <2>5
    <3>5. SeekContract(UnionComing(it), n, found, {})
      BY <3>1, <3>3, <3>4, SeekPastNext
    <3> QED
      BY <2>4, <2>5, <3>2, <3>5 DEF s
  <2> QED
    BY <2>7, <2>8
<1> QED
  BY <1>1, <1>2, UnionNextFacts
-----------------------------------------------------------------------------
(* range.rs:13-95: an iterator over the difference of two ranges.  What is  *)
(* taken away is in order and, if it is empty, not inside of the range it   *)
(* would split in two.                                                      *)
Parted(this, other) == Empty(other) => RangesDisjoint(this, other)
RangeDiffIters ==
  {it \in [type : {"RangeDiffIter"}, this : Slot, other : Span] :
     it.other.start <= it.other.end /\ (it.this = None \/ Parted(it.this, it.other))}
DiffComing(it) == Held(it.this) \ ValuesOf(it.other)

(* The call of next that ends the iterator. *)
LEMMA DiffSpent ==
  ASSUME None \notin Span, NEW it \in RangeDiffIters
  PROVE  LET u == [it EXCEPT !.this = None]
         IN  u \in RangeDiffIters /\ u.this = None /\ u.other = it.other /\ DiffComing(u) = {}
<1> DEFINE u == [it EXCEPT !.this = None]
<1>1. None \in Slot /\ Held(None) = {}
  BY DEF Slot, Held
<1>2. /\ u \in [type : {"RangeDiffIter"}, this : Slot, other : Span]
      /\ u.this = None /\ u.other = it.other
  BY <1>1 DEF RangeDiffIters
<1>3. it.other.start <= it.other.end
  BY DEF RangeDiffIters
<1> HIDE DEF u
<1>4. u \in RangeDiffIters
  BY <1>2, <1>3 DEF RangeDiffIters
<1>5. DiffComing(u) = {}
  BY <1>1, <1>2 DEF DiffComing
<1> QED
  BY <1>2, <1>4, <1>5 DEF u

(* What is left of a range on the two sides of another inside of it. *)
LEMMA DiffParts ==
  ASSUME NEW t \in Span, NEW o \in Span, t.start < t.end, o.start <= o.end,
         ~RangesDisjoint(t, o), o.start < o.end
  PROVE  LET l == Rg(t.start, o.start)
             r == Rg(o.end, t.end)
         IN  /\ l \in Span /\ r \in Span
             /\ l.start = t.start /\ l.end = o.start /\ r.start = o.end /\ r.end = t.end
             /\ ValuesOf(t) \ ValuesOf(o) = ValuesOf(l) \cup ValuesOf(r)
             /\ \A v \in ValuesOf(r) : l.end < v
             /\ t.start >= o.start => ValuesOf(l) = {}
             /\ o.end >= t.end => ValuesOf(r) = {}
<1> DEFINE l == Rg(t.start, o.start)
           r == Rg(o.end, t.end)
<1>1. /\ t.start \in Int /\ t.end \in Int /\ o.start \in Int /\ o.end \in Int
      /\ \A v : v \in ValuesOf(t) <=> v \in Int /\ t.start <= v /\ v < t.end
      /\ \A v : v \in ValuesOf(o) <=> v \in Int /\ o.start <= v /\ v < o.end
  BY Within
<1>2. l \in Span /\ r \in Span
  BY <1>1 DEF Rg, Span
<1>3. l.start = t.start /\ l.end = o.start /\ r.start = o.end /\ r.end = t.end
  BY DEF Rg
<1> HIDE DEF l, r
<1>4. /\ \A v : v \in ValuesOf(l) <=> v \in Int /\ t.start <= v /\ v < o.start
      /\ \A v : v \in ValuesOf(r) <=> v \in Int /\ o.end <= v /\ v < t.end
  BY <1>2, <1>3, Within
<1>5. t.start < o.end /\ o.start < t.end
  BY <1>1 DEF RangesDisjoint
<1>6. ValuesOf(t) \ ValuesOf(o) = ValuesOf(l) \cup ValuesOf(r)
  BY <1>1, <1>4, <1>5
<1>7. /\ \A v \in ValuesOf(r) : l.end < v
      /\ t.start >= o.start => ValuesOf(l) = {}
      /\ o.end >= t.end => ValuesOf(r) = {}
  BY <1>1, <1>3, <1>4
<1> QED
  BY <1>2, <1>3, <1>6, <1>7 DEF l, r

(* A call of next, and that a range it leaves is untouched by the           *)
(* subtrahend.                                                              *)
LEMMA DiffNextFacts ==
  ASSUME None \notin Span, NEW it \in RangeDiffIters
  PROVE  LET p == RangeDiffNext(it)
         IN  /\ p.it \in RangeDiffIters /\ DiffComing(p.it) = Held(p.it.this)
             /\ NextContract(DiffComing(it), p.out, DiffComing(p.it))
<1> DEFINE p == RangeDiffNext(it)
           t == it.this
           o == it.other
           spent == [it EXCEPT !.this = None]
           l == Rg(t.start, o.start)
           r == Rg(o.end, t.end)
<1>1. /\ t \in Slot /\ o \in Span /\ it.type = "RangeDiffIter"
      /\ o.start <= o.end /\ (t = None \/ Parted(t, o))
  BY DEF RangeDiffIters
<1>2. /\ spent \in RangeDiffIters /\ spent.this = None /\ DiffComing(spent) = {}
      /\ Held(None) = {}
  BY DiffSpent DEF Held
<1>3. CASE t = None
  <2>1. p.out = None /\ p.it = it
    BY <1>3 DEF RangeDiffNext, Yield
  <2>2. Held(t) = {} /\ DiffComing(it) = {}
    BY <1>2, <1>3 DEF DiffComing
  <2> HIDE DEF p
  <2> QED
    BY <2>1, <2>2 DEF NextContract, p
<1>4. CASE t # None
  <2>1. t \in Span /\ t.start < t.end /\ DiffComing(it) = ValuesOf(t) \ ValuesOf(o)
    BY <1>1, <1>4, SlotFacts DEF DiffComing
  <2>2. /\ t.start \in Int /\ t.end \in Int /\ o.start \in Int /\ o.end \in Int
        /\ \A v : v \in ValuesOf(t) <=> v \in Int /\ t.start <= v /\ v < t.end
        /\ \A v : v \in ValuesOf(o) <=> v \in Int /\ o.start <= v /\ v < o.end
    BY <1>1, <2>1, Within
  <2>3. CASE RangesDisjoint(t, o)
    <3>1. p = Yield(t, spent)
      BY <1>4, <2>3 DEF RangeDiffNext
    <3>2. p.out = t /\ p.it = spent
      BY <3>1 DEF Yield
    <3>3. ValuesOf(t) \ ValuesOf(o) = ValuesOf(t)
      BY <2>2, <2>3 DEF RangesDisjoint
    <3> HIDE DEF p, spent, t, o
    <3>4. NextContract(DiffComing(it), t, {})
      BY <2>1, <3>3 DEF NextContract
    <3> QED
      BY <1>2, <3>2, <3>4 DEF p
  <2>4. CASE ~RangesDisjoint(t, o)
    <3>1. o.start < o.end
      BY <1>1, <1>4, <2>2, <2>4 DEF Parted, Empty
    <3>2. /\ l \in Span /\ r \in Span
          /\ l.start = t.start /\ l.end = o.start /\ r.start = o.end /\ r.end = t.end
          /\ ValuesOf(t) \ ValuesOf(o) = ValuesOf(l) \cup ValuesOf(r)
          /\ \A v \in ValuesOf(r) : l.end < v
          /\ t.start >= o.start => ValuesOf(l) = {}
          /\ o.end >= t.end => ValuesOf(r) = {}
      BY <1>1, <2>1, <2>4, <3>1, DiffParts
    <3>3. CASE t.start < o.start /\ o.end < t.end
      <4> DEFINE u == [it EXCEPT !.this = r, !.other.end = o.start]
                 q == [start |-> o.start, end |-> o.start]
      <4>1. p = Yield(l, u)
        BY <1>4, <2>4, <3>3 DEF RangeDiffNext
      <4>2. p.out = l /\ p.it = u
        BY <4>1 DEF Yield
      <4>3. r.start < r.end /\ r # None /\ r \in Slot /\ Held(r) = ValuesOf(r)
        BY <3>2, <3>3 DEF Slot, Held
      <4>4. q \in Span /\ q.start = o.start /\ q.end = o.start
        BY <2>2 DEF Span
      <4>5. u = [type |-> "RangeDiffIter", this |-> r, other |-> q]
        <5>1. it = [type |-> "RangeDiffIter", this |-> t, other |-> o]
          BY DEF RangeDiffIters
        <5>2. o = [start |-> o.start, end |-> o.end]
          BY <1>1 DEF Span
        <5>3. u = [[it EXCEPT !.this = r] EXCEPT !.other = [it.other EXCEPT !.end = o.start]]
          BY <5>1
        <5>4. [o EXCEPT !.end = o.start] = q
          BY <5>2
        <5>5. [it EXCEPT !.this = r] = [type |-> "RangeDiffIter", this |-> r, other |-> o]
          BY <5>1
        <5> HIDE DEF r, t, u, q
        <5> QED
          BY <5>3, <5>4, <5>5
      <4>6. ValuesOf(q) = {}
        BY <2>2, <4>4, Within
      <4>7. Parted(r, q)
        BY <2>2, <3>1, <3>2, <4>4 DEF Parted, RangesDisjoint
      <4> HIDE DEF p, u, q, r, l, t, o
      <4>8. u.this = r /\ u.other = q /\ u \in [type : {"RangeDiffIter"}, this : Slot, other : Span]
        BY <4>3, <4>4, <4>5
      <4>9. u \in RangeDiffIters
        BY <2>2, <4>4, <4>7, <4>8 DEF RangeDiffIters
      <4>10. DiffComing(u) = ValuesOf(r) /\ Held(u.this) = ValuesOf(r)
        BY <4>3, <4>6, <4>8 DEF DiffComing
      <4>11. l.start < l.end
        BY <3>2, <3>3
      <4>12. NextContract(DiffComing(it), l, ValuesOf(r))
        BY <2>1, <3>2, <4>11 DEF NextContract
      <4> QED
        BY <4>2, <4>9, <4>10, <4>12 DEF p
    <3>4. CASE t.start < o.start /\ ~(o.end < t.end)
      <4>1. p = Yield(l, spent)
        BY <1>4, <2>4, <3>4 DEF RangeDiffNext
      <4>2. p.out = l /\ p.it = spent
        BY <4>1 DEF Yield
      <4> HIDE DEF p, spent, r, l, t, o
      <4>3. ValuesOf(r) = {} /\ l.start < l.end
        BY <2>2, <3>2, <3>4
      <4>4. NextContract(DiffComing(it), l, {})
        BY <2>1, <3>2, <4>3 DEF NextContract
      <4> QED
        BY <1>2, <4>2, <4>4 DEF p
    <3>5. CASE ~(t.start < o.start)
      <4>1. p = Yield(NonEmpty(r), spent)
        BY <1>4, <2>4, <3>5 DEF RangeDiffNext
      <4>2. p.out = NonEmpty(r) /\ p.it = spent
        BY <4>1 DEF Yield
      <4> HIDE DEF p, spent, r, l, t, o
      <4>3. ValuesOf(l) = {}
        BY <2>2, <3>2, <3>5
      <4>4. NonEmpty(r) \in Slot /\ Held(NonEmpty(r)) = ValuesOf(r)
        BY <3>2, NonEmptyFacts
      <4>5. NextContract(ValuesOf(r), NonEmpty(r), {})
        BY <4>4, TakeSlot
      <4>6. DiffComing(it) = ValuesOf(r)
        BY <2>1, <3>2, <4>3
      <4> QED
        BY <1>2, <4>2, <4>5, <4>6 DEF p
    <3> QED
      BY <3>3, <3>4, <3>5
  <2> QED
    BY <2>3, <2>4
<1> QED
  BY <1>3, <1>4

(* range.rs:13-95: the difference of two ranges, the second touching,       *)
(* inside of, around or away from the first, is yielded by next and by      *)
(* seek_end_ge as the trait demands, also in the calls that follow.         *)
THEOREM RangeDiffExact ==
  ASSUME None \notin Span, NEW n \in Int
  PROVE  /\ \A x, y \in Span :
              (y.start < y.end \/ ~(x.start < y.start /\ y.start < x.end))
                => /\ RangeDiff(x, y) \in RangeDiffIters
                   /\ DiffComing(RangeDiff(x, y)) = ValuesOf(x) \ ValuesOf(y)
         /\ \A it \in RangeDiffIters :
              LET p == RangeDiffNext(it)
                  s == RangeDiffSeek(it, n)
              IN  /\ p.it \in RangeDiffIters
                  /\ NextContract(DiffComing(it), p.out, DiffComing(p.it))
                  /\ s.it \in RangeDiffIters
                  /\ SeekContract(DiffComing(it), n, s.out, DiffComing(s.it))
<1>1. ASSUME NEW x \in Span, NEW y \in Span,
             y.start < y.end \/ ~(x.start < y.start /\ y.start < x.end)
      PROVE  /\ RangeDiff(x, y) \in RangeDiffIters
             /\ DiffComing(RangeDiff(x, y)) = ValuesOf(x) \ ValuesOf(y)
  <2> DEFINE t == NonEmpty(x)
             o == IF y.start > y.end THEN Rg(y.start, y.start) ELSE y
             it == RangeDiff(x, y)
  <2>1. t \in Slot /\ Held(t) = ValuesOf(x)
    BY NonEmptyFacts
  <2>2. /\ x.start \in Int /\ x.end \in Int /\ y.start \in Int /\ y.end \in Int
        /\ \A v : v \in ValuesOf(y) <=> v \in Int /\ y.start <= v /\ v < y.end
    BY Within
  <2>3. /\ o \in Span /\ o.start = y.start /\ o.start <= o.end
        /\ y.start < y.end => o = y
        /\ ~(y.start < y.end) => o.end = y.start
    BY <2>2 DEF Rg, Span
  <2>4. t = None \/ t = x
    BY DEF NonEmpty
  <2>5. it = [type |-> "RangeDiffIter", this |-> t, other |-> o]
    BY DEF RangeDiff
  <2> HIDE DEF t, o, it
  <2>6. ValuesOf(o) = ValuesOf(y)
    <3>1. \A v : v \in ValuesOf(o) <=> v \in Int /\ o.start <= v /\ v < o.end
      BY <2>3, Within
    <3> QED
      BY <2>2, <2>3, <3>1
  <2>7. t = x => Parted(t, o)
    <3>1. y.start < y.end => o.start < o.end
      BY <2>3
    <3>2. ~(y.start < y.end) => RangesDisjoint(x, o)
      BY <1>1, <2>2, <2>3 DEF RangesDisjoint
    <3>3. o.start \in Int /\ o.end \in Int
      BY <2>3, Within
    <3> QED
      BY <3>1, <3>2, <3>3 DEF Parted, Empty
  <2>8. it.this = t /\ it.other = o /\ it \in [type : {"RangeDiffIter"}, this : Slot, other : Span]
    BY <2>1, <2>3, <2>5
  <2>9. it \in RangeDiffIters
    BY <2>3, <2>4, <2>7, <2>8 DEF RangeDiffIters
  <2>10. DiffComing(it) = ValuesOf(x) \ ValuesOf(y)
    BY <2>1, <2>6, <2>8 DEF DiffComing
  <2> QED
    BY <2>9, <2>10 DEF it
<1>2. ASSUME NEW it \in RangeDiffIters
      PROVE  LET s == RangeDiffSeek(it, n)
             IN  /\ s.it \in RangeDiffIters
                 /\ SeekContract(DiffComing(it), n, s.out, DiffComing(s.it))
  <2> DEFINE p == RangeDiffNext(it)
             s == RangeDiffSeek(it, n)
             rest == p.it.this
             found == IF rest # None /\ rest.end >= n THEN rest ELSE None
             left == [p.it EXCEPT !.this = None]
  <2>1. /\ p.it \in RangeDiffIters /\ DiffComing(p.it) = Held(rest)
        /\ NextContract(DiffComing(it), p.out, DiffComing(p.it))
    BY DiffNextFacts
  <2>2. s = IF p.out = None \/ p.out.end >= n THEN p ELSE Yield(found, left)
    BY DEF RangeDiffSeek
  <2> HIDE DEF p, s
  <2>3. rest \in Slot
    BY <2>1 DEF RangeDiffIters
  <2>4. left \in RangeDiffIters /\ DiffComing(left) = {}
    BY <2>1, DiffSpent
  <2>5. p.out = None \/ (p.out \in Span /\ p.out.end \in Int)
    BY <2>1, Within DEF NextContract
  <2>6. CASE p.out = None \/ p.out.end >= n
    <3>1. p.out = None \/ n <= p.out.end
      BY <2>5, <2>6
    <3>2. SeekContract(DiffComing(it), n, p.out, DiffComing(p.it))
      BY <2>1, <3>1, SeekIsNext
    <3> QED
      BY <2>1, <2>2, <2>6, <3>2 DEF s
  <2>7. CASE ~(p.out = None \/ p.out.end >= n)
    <3>1. p.out # None /\ p.out.end < n
      BY <2>5, <2>7
    <3>2. s.out = found /\ s.it = left
      BY <2>2, <2>7 DEF Yield
    <3>3. SeekContract(Held(rest), n, found, {}) /\ Held(rest) \subseteq Int
      BY <2>3, TakeSlot, HeldInt
    <3> HIDE DEF rest, found, left
    <3>4. NextContract(DiffComing(it), p.out, Held(rest))
      BY <2>1
    <3>5. SeekContract(DiffComing(it), n, found, {})
      BY <3>1, <3>3, <3>4, SeekPastNext
    <3> QED
      BY <2>4, <3>2, <3>5 DEF s
  <2> QED
    BY <2>6, <2>7
<1> QED
  BY <1>1, <1>2, DiffNextFacts
-----------------------------------------------------------------------------
(* The prefixes of an interval that a fold over a sequence goes through. *)
LEMMA PrefixOf ==
  ASSUME NEW n \in Nat, NEW k \in 1 .. n
  PROVE  /\ k \in Nat \ {0} /\ k - 1 \in 0 .. n /\ k \in 0 .. n
         /\ 1 .. k \in SUBSET (1 .. n) /\ 1 .. k # {}
         /\ Max(1 .. k) = k /\ (1 .. k) \ {k} = 1 .. k - 1
<1>1. k \in Nat \ {0} /\ k - 1 \in 0 .. n /\ k \in 0 .. n
  OBVIOUS
<1>2. 1 .. k \in SUBSET (1 .. n) /\ 1 .. k # {}
  OBVIOUS
<1> QED
  BY <1>1, <1>2, MaxFacts

(* len, as the sequence of its additions. *)
LEMMA LenFold ==
  ASSUME NEW rs \in Seq(Span)
  PROVE  \E f : /\ f[0] = 0
                /\ \A k \in 1 .. Len(rs) : f[k] = f[k - 1] + (rs[k].end - rs[k].start)
                /\ RsLen(rs) = f[Len(rs)]
<1> DEFINE F == [p \in Int \X Span |-> p[1] + (p[2].end - p[2].start)]
           n == Len(rs)
           Unfold(g) == [T \in SUBSET (1 .. n) |->
                           IF T = {} THEN 0
                           ELSE g[T \ {Max(T)}] + (rs[Max(T)].end - rs[Max(T)].start)]
<1>1. n \in Nat /\ DOMAIN rs = 1 .. n /\ rs \in [1 .. n -> Span]
  OBVIOUS
<1>2. F \in [Int \X Span -> Int]
  BY DEF Span
<1>3. \E g : g = Unfold(g)
  <2>1. PICK g \in [SUBSET (1 .. n) -> Int] :
               /\ g[{}] = 0
               /\ \A T \in (SUBSET (1 .. n)) \ {{}} :
                    Max(T) \in T /\ g[T] = F[<<g[T \ {Max(T)}], rs[Max(T)]>>]
    <3>1. 0 \in Int
      OBVIOUS
    <3> HIDE DEF F, n
    <3>2. Folding(Int, F, 0, n, rs) # {}
      BY <1>1, <1>2, <3>1, FoldExists
    <3> QED
      BY <3>2 DEF Folding
  <2>2. ASSUME NEW T \in SUBSET (1 .. n), T # {}
        PROVE  g[T] = g[T \ {Max(T)}] + (rs[Max(T)].end - rs[Max(T)].start)
    <3>1. Max(T) \in T /\ g[T] = F[<<g[T \ {Max(T)}], rs[Max(T)]>>]
      BY <2>1, <2>2
    <3>2. T \ {Max(T)} \in SUBSET (1 .. n) /\ g[T \ {Max(T)}] \in Int /\ rs[Max(T)] \in Span
      BY <1>1, <2>1, <3>1
    <3> QED
      BY <3>1, <3>2
  <2>3. g = Unfold(g)
    BY <2>1, <2>2
  <2> QED
    BY <2>3
<1> DEFINE G == CHOOSE g : g = Unfold(g)
           f == [k \in 0 .. n |-> G[1 .. k]]
<1>4. G = Unfold(G)
  BY <1>3, Zenon
<1>5. RsLen(rs) = G[1 .. n]
  <2>1. RsLen(rs) =
          (CHOOSE g : g = [T \in SUBSET DOMAIN rs |->
             IF T = {} THEN 0
             ELSE g[T \ {Max(T)}] + (rs[Max(T)].end - rs[Max(T)].start)])[DOMAIN rs]
    BY Zenon DEF RsLen, FoldLeft, MapThenFoldSet
  <2> QED
    BY <1>1, <2>1, Zenon
<1> HIDE DEF G
<1>6. f[0] = 0
  BY <1>1, <1>4
<1>7. ASSUME NEW k \in 1 .. n PROVE f[k] = f[k - 1] + (rs[k].end - rs[k].start)
  <2>1. /\ k \in Nat \ {0} /\ k - 1 \in 0 .. n /\ k \in 0 .. n
        /\ 1 .. k \in SUBSET (1 .. n) /\ 1 .. k # {}
        /\ Max(1 .. k) = k /\ (1 .. k) \ {k} = 1 .. k - 1
    BY <1>1, PrefixOf
  <2>2. G[1 .. k] = G[(1 .. k) \ {Max(1 .. k)}]
                      + (rs[Max(1 .. k)].end - rs[Max(1 .. k)].start)
    BY <1>4, <2>1
  <2> QED
    BY <2>1, <2>2
<1>8. f[n] = G[1 .. n]
  BY <1>1
<1> HIDE DEF f
<1> QED
  BY <1>5, <1>6, <1>7, <1>8

(* How many integers a range holds. *)
LEMMA SizeOfRange ==
  ASSUME NEW r \in Span, r.start < r.end
  PROVE  IsFiniteSet(ValuesOf(r)) /\ Cardinality(ValuesOf(r)) = r.end - r.start
<1> DEFINE a == r.start
           b == r.end - 1
<1>1. a \in Int /\ b \in Int /\ ~(a > b) /\ b - a + 1 = r.end - r.start
  BY Within
<1> HIDE DEF a, b
<1>2. IsFiniteSet(a .. b) /\ Cardinality(a .. b) = b - a + 1
  BY <1>1, FS_Interval
<1>3. ValuesOf(r) = a .. b
  BY DEF ValuesOf, a, b
<1> QED
  BY <1>1, <1>2, <1>3

(* Two sets that are apart count together. *)
LEMMA SizeOfUnion ==
  ASSUME NEW S, NEW T, IsFiniteSet(S), IsFiniteSet(T), S \cap T = {}
  PROVE  IsFiniteSet(S \cup T) /\ Cardinality(S \cup T) = Cardinality(S) + Cardinality(T)
<1>1. /\ IsFiniteSet(S \cup T)
      /\ Cardinality(S \cup T) = Cardinality(S) + Cardinality(T) - Cardinality(S \cap T)
  BY FS_Union
<1>2. Cardinality(S \cap T) = 0 /\ Cardinality(S) \in Nat /\ Cardinality(T) \in Nat
  BY FS_EmptySet, FS_CardinalityType
<1> QED
  BY <1>1, <1>2

(* set.rs:217-231, 308, 387: min, end and max are those of the integers     *)
(* that a normal vector holds, and len is how many they are.                *)
THEOREM BoundsExact ==
  ASSUME NEW rs \in Seq(Span), Normal(rs)
  PROVE  /\ IsFiniteSet(Values(rs)) /\ RsLen(rs) = Cardinality(Values(rs))
         /\ Values(rs) = {} <=> rs = <<>>
         /\ rs # <<>> => /\ RsMin(rs) \in Values(rs) /\ RsMax(rs) \in Values(rs)
                         /\ \A v \in Values(rs) : RsMin(rs) <= v /\ v <= RsMax(rs)
                         /\ RsEnd(rs) = RsMax(rs) + 1
<1> DEFINE n == Len(rs)
           U(k) == UNION {ValuesOf(rs[j]) : j \in 1 .. k}
<1>1. Ordered(rs) /\ n \in Nat /\ DOMAIN rs = 1 .. n
  BY NormalIsOrdered
<1>2. \A k \in 1 .. n : rs[k] \in Span /\ rs[k].start \in Int /\ rs[k].end \in Int
  BY Spans
<1>3. /\ \A k \in 1 .. n : rs[k].start < rs[k].end
      /\ \A i, j \in 1 .. n : i < j => rs[i].end < rs[j].start
  BY <1>1 DEF Ordered
<1>4. IsFiniteSet(Values(rs)) /\ RsLen(rs) = Cardinality(Values(rs))
  <2>1. PICK f : /\ f[0] = 0
                 /\ \A k \in 1 .. n : f[k] = f[k - 1] + (rs[k].end - rs[k].start)
                 /\ RsLen(rs) = f[n]
    BY LenFold
  <2> DEFINE S == {k \in Nat : k <= n => IsFiniteSet(U(k)) /\ Cardinality(U(k)) = f[k]}
  <2>2. U(0) = {} /\ U(n) = Values(rs) /\ \A k \in Nat : U(k + 1) = U(k) \cup ValuesOf(rs[k + 1])
    BY ValuesUpTo
  <2>3. 0 \in S
    BY <2>1, <2>2, FS_EmptySet
  <2>4. ASSUME NEW k \in Nat, k \in S PROVE k + 1 \in S
    <3>1. SUFFICES ASSUME k + 1 <= n
                   PROVE  IsFiniteSet(U(k + 1)) /\ Cardinality(U(k + 1)) = f[k + 1]
      <4> HIDE DEF U
      <4> QED
        OBVIOUS
    <3> DEFINE r == rs[k + 1]
               V == ValuesOf(r)
    <3>2. k <= n /\ k + 1 \in 1 .. n /\ (k + 1) - 1 = k
      BY <1>1, <3>1
    <3>3. r.start \in Int /\ r.end \in Int /\ r.start < r.end
      BY <1>2, <1>3, <3>2
    <3>4. U(k) \cap V = {}
      <4>1. SUFFICES ASSUME NEW v \in U(k), v \in V PROVE FALSE
        OBVIOUS
      <4>2. PICK j \in 1 .. k : v \in ValuesOf(rs[j])
        BY <4>1
      <4>3. j \in 1 .. n /\ j < k + 1
        BY <3>2
      <4>4. rs[j].end < r.start /\ rs[j] \in Span /\ r \in Span
        BY <1>2, <1>3, <3>2, <4>3
      <4>5. v \in Int /\ v < rs[j].end /\ r.start <= v /\ rs[j].end \in Int
        BY <4>1, <4>2, <4>4, Within
      <4> QED
        BY <3>3, <4>4, <4>5
    <3>5. IsFiniteSet(V) /\ Cardinality(V) = r.end - r.start
      BY <1>2, <3>2, <3>3, SizeOfRange
    <3>6. f[k + 1] = f[k] + (r.end - r.start)
      BY <2>1, <3>2
    <3>7. U(k + 1) = U(k) \cup V
      BY <2>2
    <3> HIDE DEF V, U
    <3>8. IsFiniteSet(U(k)) /\ Cardinality(U(k)) = f[k]
      BY <2>4, <3>2
    <3>9. IsFiniteSet(U(k) \cup V) /\ Cardinality(U(k) \cup V) = Cardinality(U(k)) + Cardinality(V)
      BY <3>4, <3>5, <3>8, SizeOfUnion
    <3> QED
      BY <3>5, <3>6, <3>7, <3>8, <3>9
  <2> HIDE DEF S
  <2>5. n \in S
    BY <1>1, <2>3, <2>4, NatSet
  <2> HIDE DEF U
  <2>6. IsFiniteSet(U(n)) /\ Cardinality(U(n)) = f[n]
    BY <1>1, <2>5 DEF S
  <2> QED
    BY <2>1, <2>2, <2>6
<1> HIDE DEF U
<1>5. \A v : v \in Values(rs) <=> v \in Int /\ \E k \in 1 .. n : rs[k].start <= v /\ v < rs[k].end
  BY ValuesIn
<1>6. CASE rs = <<>>
  BY <1>4, <1>6, Nothing
<1>7. CASE rs # <<>>
  <2>1. 1 \in 1 .. n /\ n \in 1 .. n
    BY <1>1, <1>7
  <2>2. RsMin(rs) = rs[1].start /\ RsEnd(rs) = rs[n].end /\ RsMax(rs) = rs[n].end - 1
    BY <1>7 DEF RsMin, RsEnd, RsMax, Last
  <2> HIDE DEF n
  <2>3. \A k \in 1 .. n : rs[1].start <= rs[k].start /\ rs[k].end <= rs[n].end
    <3>1. SUFFICES ASSUME NEW k \in 1 .. n
                   PROVE  rs[1].start <= rs[k].start /\ rs[k].end <= rs[n].end
      OBVIOUS
    <3>2. (1 < k => rs[1].end < rs[k].start) /\ (k < n => rs[k].end < rs[n].start)
      BY <1>3, <2>1
    <3>3. /\ rs[1].start \in Int /\ rs[1].end \in Int /\ rs[1].start < rs[1].end
          /\ rs[k].start \in Int /\ rs[k].end \in Int
          /\ rs[n].start \in Int /\ rs[n].end \in Int /\ rs[n].start < rs[n].end
      BY <1>2, <1>3, <2>1
    <3>4. (k = 1 \/ 1 < k) /\ (k = n \/ k < n)
      BY <1>1
    <3> DEFINE a == rs[1]
               r == rs[k]
               z == rs[n]
    <3>5. k = 1 => r = a
      OBVIOUS
    <3>6. k = n => r = z
      OBVIOUS
    <3> HIDE DEF a, r, z
    <3>7. /\ a.start \in Int /\ a.end \in Int /\ a.start < a.end
          /\ r.start \in Int /\ r.end \in Int
          /\ z.start \in Int /\ z.end \in Int /\ z.start < z.end
      BY <3>3 DEF a, r, z
    <3>8. a.start <= r.start
      <4>1. CASE k = 1
        BY <3>5, <3>7, <4>1
      <4>2. CASE 1 < k
        <5>1. a.end < r.start
          BY <3>2, <4>2 DEF a, r
        <5> QED
          BY <3>7, <5>1
      <4> QED
        BY <3>4, <4>1, <4>2
    <3>9. r.end <= z.end
      <4>1. CASE k = n
        BY <3>6, <3>7, <4>1
      <4>2. CASE k < n
        <5>1. r.end < z.start
          BY <3>2, <4>2 DEF r, z
        <5> QED
          BY <3>7, <5>1
      <4> QED
        BY <3>4, <4>1, <4>2
    <3> QED
      BY <3>8, <3>9 DEF a, r, z
  <2>4. /\ rs[1].start \in Int /\ rs[1].end \in Int /\ rs[1].start < rs[1].end
        /\ rs[n].start \in Int /\ rs[n].end \in Int /\ rs[n].start < rs[n].end
    BY <1>2, <1>3, <2>1
  <2>5. RsMin(rs) \in Values(rs)
    BY <1>5, <2>1, <2>2, <2>4
  <2>6. RsMax(rs) \in Values(rs)
    <3>1. rs[n].end - 1 \in Int /\ rs[n].start <= rs[n].end - 1 /\ rs[n].end - 1 < rs[n].end
      BY <2>4
    <3> QED
      BY <1>5, <2>1, <2>2, <3>1
  <2>7. ASSUME NEW v \in Values(rs) PROVE RsMin(rs) <= v /\ v <= RsMax(rs)
    <3>1. PICK k \in 1 .. n : rs[k].start <= v /\ v < rs[k].end
      BY <1>5
    <3> DEFINE lo == rs[1].start
               hi == rs[n].end
               r == rs[k]
    <3>2. v \in Int /\ r.start \in Int /\ r.end \in Int /\ lo \in Int /\ hi \in Int
      BY <1>2, <1>5, <2>4
    <3>3. lo <= r.start /\ r.end <= hi /\ r.start <= v /\ v < r.end
      BY <2>3, <3>1
    <3> HIDE DEF lo, hi, r
    <3>4. lo <= v /\ v <= hi - 1
      BY <3>2, <3>3
    <3> QED
      BY <2>2, <3>4 DEF lo, hi
  <2>8. RsEnd(rs) = RsMax(rs) + 1
    BY <2>2, <2>4
  <2>9. Values(rs) # {}
    BY <2>5
  <2> QED
    BY <1>4, <1>7, <2>5, <2>6, <2>7, <2>8, <2>9, Zenon
<1> QED
  BY <1>6, <1>7, Zenon
-----------------------------------------------------------------------------
(* new_from_iter: the filter, as the sequence of its steps. *)
LEMMA KeepFold ==
  ASSUME NEW xs \in Seq(Span)
  PROVE  \E f : /\ f[0] = <<>>
                /\ \A k \in 1 .. Len(xs) : f[k] = Keep(f[k - 1], xs[k])
                /\ FoldLeft(Keep, <<>>, xs) = f[Len(xs)]
<1> DEFINE A == Seq(Span)
           F == [p \in A \X Span |-> Keep(p[1], p[2])]
           n == Len(xs)
           Unfold(g) == [T \in SUBSET (1 .. n) |->
                           IF T = {} THEN <<>> ELSE Keep(g[T \ {Max(T)}], xs[Max(T)])]
<1>1. n \in Nat /\ DOMAIN xs = 1 .. n /\ xs \in [1 .. n -> Span]
  OBVIOUS
<1>2. F \in [A \X Span -> A]
  <2>1. ASSUME NEW s \in Seq(Span), NEW r \in Span PROVE Keep(s, r) \in Seq(Span)
    BY DEF Keep
  <2> QED
    BY <2>1
<1>3. \E g : g = Unfold(g)
  <2>1. PICK g \in [SUBSET (1 .. n) -> A] :
               /\ g[{}] = <<>>
               /\ \A T \in (SUBSET (1 .. n)) \ {{}} :
                    Max(T) \in T /\ g[T] = F[<<g[T \ {Max(T)}], xs[Max(T)]>>]
    <3>1. <<>> \in A
      BY Nothing
    <3> HIDE DEF F, A, n
    <3>2. Folding(A, F, <<>>, n, xs) # {}
      BY <1>1, <1>2, <3>1, FoldExists
    <3> QED
      BY <3>2 DEF Folding
  <2>2. ASSUME NEW T \in SUBSET (1 .. n), T # {}
        PROVE  g[T] = Keep(g[T \ {Max(T)}], xs[Max(T)])
    <3>1. Max(T) \in T /\ g[T] = F[<<g[T \ {Max(T)}], xs[Max(T)]>>]
      BY <2>1, <2>2
    <3>2. T \ {Max(T)} \in SUBSET (1 .. n) /\ g[T \ {Max(T)}] \in A /\ xs[Max(T)] \in Span
      BY <1>1, <2>1, <3>1
    <3> QED
      BY <3>1, <3>2
  <2>3. g = Unfold(g)
    BY <2>1, <2>2
  <2> QED
    BY <2>3
<1> DEFINE G == CHOOSE g : g = Unfold(g)
           f == [k \in 0 .. n |-> G[1 .. k]]
<1>4. G = Unfold(G)
  BY <1>3, Zenon
<1>5. FoldLeft(Keep, <<>>, xs) = G[1 .. n]
  <2>1. FoldLeft(Keep, <<>>, xs) =
          (CHOOSE g : g = [T \in SUBSET DOMAIN xs |->
             IF T = {} THEN <<>> ELSE Keep(g[T \ {Max(T)}], xs[Max(T)])])[DOMAIN xs]
    BY Zenon DEF FoldLeft, MapThenFoldSet
  <2> QED
    BY <1>1, <2>1, Zenon
<1> HIDE DEF G
<1>6. f[0] = <<>>
  BY <1>1, <1>4
<1>7. ASSUME NEW k \in 1 .. n PROVE f[k] = Keep(f[k - 1], xs[k])
  <2>1. /\ k \in Nat \ {0} /\ k - 1 \in 0 .. n /\ k \in 0 .. n
        /\ 1 .. k \in SUBSET (1 .. n) /\ 1 .. k # {}
        /\ Max(1 .. k) = k /\ (1 .. k) \ {k} = 1 .. k - 1
    BY <1>1, PrefixOf
  <2>2. G[1 .. k] = Keep(G[(1 .. k) \ {Max(1 .. k)}], xs[Max(1 .. k)])
    BY <1>4, <2>1
  <2> QED
    BY <2>1, <2>2
<1>8. f[n] = G[1 .. n]
  BY <1>1
<1> HIDE DEF f
<1> QED
  BY <1>5, <1>6, <1>7, <1>8

(* A step of the filter. *)
LEMMA KeepFacts ==
  ASSUME NEW s \in Seq(Span), NonEmpties(s), NEW r \in Span
  PROVE  /\ Keep(s, r) \in Seq(Span) /\ NonEmpties(Keep(s, r))
         /\ Values(Keep(s, r)) = Values(s) \cup ValuesOf(r)
<1>1. CASE r.start < r.end
  BY <1>1, AppendFacts DEF Keep
<1>2. CASE ~(r.start < r.end)
  <2>1. ValuesOf(r) = {}
    BY <1>2, Within
  <2> QED
    BY <1>2, <2>1 DEF Keep
<1> QED
  BY <1>1, <1>2

(* set.rs:186: a RangeSet made of any ranges, in any order, overlapping,    *)
(* empty or reversed, is sorted, non-adjacent and without empty ranges, and *)
(* holds the integers of the ranges: what every RangeSet begins with.       *)
THEOREM NewFromIterExact ==
  ASSUME NEW xs \in Seq(Span)
  PROVE  /\ NewFromIter(xs) \in Seq(Span) /\ Normal(NewFromIter(xs))
         /\ Values(NewFromIter(xs)) = Values(xs)
<1> DEFINE n == Len(xs)
           U(k) == UNION {ValuesOf(xs[j]) : j \in 1 .. k}
           kept == FoldLeft(Keep, <<>>, xs)
<1>1. n \in Nat /\ \A k \in 1 .. n : xs[k] \in Span
  BY Spans
<1>2. PICK f : /\ f[0] = <<>>
               /\ \A k \in 1 .. n : f[k] = Keep(f[k - 1], xs[k])
               /\ kept = f[n]
  BY KeepFold
<1>3. U(0) = {} /\ U(n) = Values(xs) /\ \A k \in Nat : U(k + 1) = U(k) \cup ValuesOf(xs[k + 1])
  BY ValuesUpTo
<1> DEFINE S == {k \in Nat : k <= n =>
                   f[k] \in Seq(Span) /\ NonEmpties(f[k]) /\ Values(f[k]) = U(k)}
<1>4. 0 \in S
  <2>1. NonEmpties(<<>>)
    BY Nothing DEF NonEmpties
  <2> HIDE DEF U
  <2> QED
    BY <1>2, <1>3, <2>1, Nothing
<1>5. ASSUME NEW k \in Nat, k \in S PROVE k + 1 \in S
  <2>1. SUFFICES ASSUME k + 1 <= n
                 PROVE  /\ f[k + 1] \in Seq(Span) /\ NonEmpties(f[k + 1])
                        /\ Values(f[k + 1]) = U(k + 1)
    <3> HIDE DEF U
    <3> QED
      OBVIOUS
  <2>2. k <= n /\ k + 1 \in 1 .. n /\ (k + 1) - 1 = k
    BY <1>1, <2>1
  <2>3. f[k + 1] = Keep(f[k], xs[k + 1]) /\ xs[k + 1] \in Span
    BY <1>1, <1>2, <2>2
  <2> HIDE DEF U
  <2>4. f[k] \in Seq(Span) /\ NonEmpties(f[k]) /\ Values(f[k]) = U(k)
    BY <1>5, <2>2
  <2> HIDE DEF S
  <2>5. /\ Keep(f[k], xs[k + 1]) \in Seq(Span) /\ NonEmpties(Keep(f[k], xs[k + 1]))
        /\ Values(Keep(f[k], xs[k + 1])) = Values(f[k]) \cup ValuesOf(xs[k + 1])
    BY <2>3, <2>4, KeepFacts
  <2> QED
    BY <1>3, <2>3, <2>4, <2>5
<1> HIDE DEF U, S
<1>6. n \in S
  BY <1>1, <1>4, <1>5, NatSet
<1>7. kept \in Seq(Span) /\ NonEmpties(kept) /\ Values(kept) = Values(xs)
  BY <1>1, <1>2, <1>3, <1>6 DEF S
<1> HIDE DEF kept
<1>8. \A k \in 1 .. Len(kept) : kept[k].start < kept[k].end
  BY <1>7 DEF NonEmpties
<1>9. NewFromIter(xs) = SortMerge(kept)
  BY DEF NewFromIter, kept
<1> QED
  BY <1>7, <1>8, <1>9, SortMergeExact
-----------------------------------------------------------------------------
(* shift_left, shift_right. *)
LEMMA ShiftFacts ==
  ASSUME NEW rs \in Seq(Span), Normal(rs), NEW d \in Int
  PROVE  /\ Shift(rs, d) \in Seq(Span) /\ Normal(Shift(rs, d))
         /\ Values(Shift(rs, d)) = {v + d : v \in Values(rs)}
<1> DEFINE n == Len(rs)
           us == Shift(rs, d)
<1>1. Ordered(rs) /\ n \in Nat
  BY NormalIsOrdered
<1>2. /\ DOMAIN rs = 1 .. n
      /\ \A k \in 1 .. n : rs[k] \in Span /\ rs[k].start \in Int /\ rs[k].end \in Int
  BY Spans
<1>3. \A k \in 1 .. n : Rg(rs[k].start + d, rs[k].end + d) \in Span
  BY <1>2 DEF Rg, Span
<1>4. us = [k \in 1 .. n |-> Rg(rs[k].start + d, rs[k].end + d)]
  BY <1>2 DEF Shift
<1> HIDE DEF us
<1>5. us \in Seq(Span) /\ Len(us) = n
  BY <1>1, <1>3, <1>4
<1>6. \A k \in 1 .. n : us[k].start = rs[k].start + d /\ us[k].end = rs[k].end + d
  BY <1>4 DEF Rg
<1>7. Ordered(us)
  <2>1. \A k \in 1 .. n : us[k].start < us[k].end
    BY <1>1, <1>2, <1>6 DEF Ordered
  <2>2. \A i, j \in 1 .. n : i < j => us[i].end < us[j].start
    BY <1>1, <1>2, <1>6 DEF Ordered
  <2> QED
    BY <1>5, <2>1, <2>2 DEF Ordered
<1>8. \A v : v \in Values(us) <=> v \in Int /\ \E k \in 1 .. n : us[k].start <= v /\ v < us[k].end
  BY <1>5, ValuesIn
<1>9. \A v : v \in Values(rs) <=> v \in Int /\ \E k \in 1 .. n : rs[k].start <= v /\ v < rs[k].end
  BY ValuesIn
<1>10. ASSUME NEW v \in Values(us) PROVE v \in {w + d : w \in Values(rs)}
  <2>1. v \in Int
    BY <1>8
  <2>2. PICK k \in 1 .. n : us[k].start <= v /\ v < us[k].end
    BY <1>8
  <2>3. v - d \in Int /\ rs[k].start <= v - d /\ v - d < rs[k].end /\ v = (v - d) + d
    BY <1>2, <1>6, <2>1, <2>2
  <2>4. v - d \in Values(rs)
    BY <1>9, <2>3
  <2> QED
    BY <2>3, <2>4
<1>11. ASSUME NEW w \in Values(rs) PROVE w + d \in Values(us)
  <2>1. w \in Int
    BY <1>9
  <2>2. PICK k \in 1 .. n : rs[k].start <= w /\ w < rs[k].end
    BY <1>9
  <2>3. w + d \in Int /\ us[k].start <= w + d /\ w + d < us[k].end
    BY <1>2, <1>6, <2>1, <2>2
  <2> QED
    BY <1>8, <2>3
<1> QED
  BY <1>5, <1>7, <1>10, <1>11, NormalIsOrdered DEF us

(* set.rs:84: after any sequence of operations in place, whatever ranges    *)
(* their operands yield, the vector is sorted, non-adjacent and without     *)
(* empty ranges, and holds what the operations of sets make of it.  What an *)
(* iterator yields that replaces the vector has to be in order itself.      *)
THEOREM VectorSetInvariant == VectorSpec => []SetInvariant
<1> DEFINE IInv == ranges \in Seq(Span) /\ SetInvariant
<1>1. VectorInit => IInv
  <2>1. Normal(<<>>)
    BY Nothing, NormalIsOrdered
  <2> QED
    BY <2>1, Nothing DEF VectorInit, SetInvariant
<1>2. IInv /\ [VectorStep]_<<ranges, model>> => IInv'
  <2>1. SUFFICES ASSUME ranges \in Seq(Span), Normal(ranges), Values(ranges) = model,
                        [VectorStep]_<<ranges, model>>
                 PROVE  /\ ranges' \in Seq(Span)
                        /\ Normal(ranges') /\ Values(ranges') = model'
    BY DEF SetInvariant
  <2>2. ASSUME NEW xs \in Seq(Span), VectorUnion(xs, Values(xs))
        PROVE  ranges' \in Seq(Span) /\ Normal(ranges') /\ Values(ranges') = model'
    BY <2>1, <2>2, UnionExact DEF VectorUnion
  <2>3. ASSUME NEW xs \in Seq(Span), VectorDifference(xs, Values(xs))
        PROVE  ranges' \in Seq(Span) /\ Normal(ranges') /\ Values(ranges') = model'
    BY <2>1, <2>3, DifferenceExact DEF VectorDifference
  <2>4. ASSUME NEW xs \in Seq(Span), Normal(xs), VectorReplace(xs, Values(xs))
        PROVE  ranges' \in Seq(Span) /\ Normal(ranges') /\ Values(ranges') = model'
    BY <2>4 DEF VectorReplace
  <2>5. ASSUME NEW n \in Int, VectorKeepLeft(n)
        PROVE  ranges' \in Seq(Span) /\ Normal(ranges') /\ Values(ranges') = model'
    BY <2>1, <2>5, SplitOffExact DEF VectorKeepLeft
  <2>6. ASSUME NEW n \in Int, VectorKeepRight(n)
        PROVE  ranges' \in Seq(Span) /\ Normal(ranges') /\ Values(ranges') = model'
    BY <2>1, <2>6, SplitOffExact DEF VectorKeepRight
  <2>7. ASSUME NEW n \in Int, VectorShift(n)
        PROVE  ranges' \in Seq(Span) /\ Normal(ranges') /\ Values(ranges') = model'
    BY <2>1, <2>7, ShiftFacts DEF VectorShift
  <2>8. CASE VectorClear
    <3>1. Normal(<<>>)
      BY Nothing, NormalIsOrdered
    <3> QED
      BY <2>8, <3>1, Nothing DEF VectorClear
  <2>9. CASE UNCHANGED <<ranges, model>>
    BY <2>1, <2>9
  <2> QED
    BY <2>1, <2>2, <2>3, <2>4, <2>5, <2>6, <2>7, <2>8, <2>9 DEF VectorStep
<1>3. IInv => SetInvariant
  OBVIOUS
<1> QED
  BY <1>1, <1>2, <1>3, PTL DEF VectorSpec
=============================================================================
