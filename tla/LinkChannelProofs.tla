------------------------- MODULE LinkChannelProofs -------------------------
(***************************************************************************)
(* For every sequence space, window and network within MaxLead and MaxAge: *)
(* the ring holds back only what it must (RingHoldsBack), and the channel  *)
(* implements OrderedStream.                                               *)
(*                                                                         *)
(* The code compares sequence numbers modulo the sequence space; the       *)
(* properties speak of message indices.  The bridge is that every sequence *)
(* number is its index modulo the space, and that the environment keeps    *)
(* the indices the receiver can meet in a range in which the distance      *)
(* tells ahead from behind (lemmas DistanceAhead and DistanceBehind).      *)
(***************************************************************************)
EXTENDS LinkChannel, TLAPS, WellFoundedInduction, NaturalsInduction

-----------------------------------------------------------------------------
(* Arithmetic of the sequence space.                                       *)

\* The number of sequence numbers is a positive natural number.
LEMMA ModulusIsNat == Modulus \in Nat /\ Modulus > 0
BY SequenceSpace DEF Modulus

\* Division with remainder.
LEMMA Divides ==
  ASSUME NEW m \in Nat, m > 0, NEW a \in Nat
  PROVE \E q \in Nat : /\ a = m * q + (a % m)
                       /\ a % m \in 0..(m - 1)
<1>1. a \div m \in Nat /\ a = m * (a \div m) + (a % m) /\ a % m \in 0..(m - 1)
  OBVIOUS
<1>2. QED BY <1>1

\* The remainder is unique.
LEMMA RemainderUnique ==
  ASSUME NEW m \in Nat, m > 0, NEW q \in Int, NEW r \in 0..(m - 1),
         NEW x \in Int, x = m * q + r
  PROVE x % m = r
OBVIOUS

\* channel_sequence_distance of an index at or ahead of the base.
LEMMA DistanceAhead ==
  ASSUME NEW a \in Nat, NEW b \in Nat, a <= b, b < a + Modulus
  PROVE channel_sequence_distance(a % Modulus, b % Modulus) = b - a
<1> DEFINE m == Modulus
<1>0. m \in Nat /\ m > 0
  BY ModulusIsNat
<1> HIDE DEF m
<1>1. PICK p \in Nat : a = m * p + (a % m) /\ a % m \in 0..(m - 1)
  BY <1>0, Divides
<1>2. PICK q \in Nat : b = m * q + (b % m) /\ b % m \in 0..(m - 1)
  BY <1>0, Divides
<1> DEFINE k == p - q + 1
           x == (b % m) + m - (a % m)
           r == b - a
<1>3. k \in Int /\ x \in Int /\ x = m * k + r
  BY <1>0, <1>1, <1>2
<1>4. r \in 0..(m - 1)
  BY <1>0 DEF m
<1> HIDE DEF k, x, r
<1>5. x % m = r
  BY <1>0, <1>3, <1>4, RemainderUnique
<1>6. QED BY <1>5 DEF channel_sequence_distance, m, x, r

\* ... and of an index behind it.
LEMMA DistanceBehind ==
  ASSUME NEW a \in Nat, NEW b \in Nat, b < a, a <= b + HalfModulus
  PROVE channel_sequence_distance(a % Modulus, b % Modulus) = Modulus - (a - b)
<1> DEFINE m == Modulus
<1>0. m \in Nat /\ m > 0 /\ HalfModulus \in Nat /\ HalfModulus < m
  BY SequenceSpace, ModulusIsNat DEF Modulus
<1> HIDE DEF m
<1>1. PICK p \in Nat : a = m * p + (a % m) /\ a % m \in 0..(m - 1)
  BY <1>0, Divides
<1>2. PICK q \in Nat : b = m * q + (b % m) /\ b % m \in 0..(m - 1)
  BY <1>0, Divides
<1> DEFINE k == q - p
           x == (b % m) + m - (a % m)
           r == m - (a - b)
<1>3. k \in Int /\ x \in Int
  BY <1>0, <1>1, <1>2
<1>4. r \in 0..(m - 1)
  BY <1>0
<1>5. x = m * (0 - k) + r
  BY <1>0, <1>1, <1>2
<1> HIDE DEF x, r
<1>6. x % m = r
  <2>1. 0 - k \in Int
    BY <1>3
  <2>2. QED BY <1>0, <1>3, <1>4, <1>5, <2>1, RemainderUnique
<1>7. QED BY <1>6 DEF channel_sequence_distance, m, x, r

\* Comparing two offsets from the same origin compares what they measure.
LEMMA OffsetsCompare ==
  ASSUME NEW a \in Int, NEW b \in Int, NEW c \in Int, a - c < b - c
  PROVE  a < b
OBVIOUS

\* An index within the window of the expected one, and another at most a window
\* past it, are less than a turn of the sequence space apart.
LEMMA LessThanATurn ==
  ASSUME NEW a \in Nat, NEW e \in Nat, NEW w \in Nat, NEW m \in Nat, NEW i \in Nat,
         w < m, i <= w, e <= a, a < e + w
  PROVE  e + i \in Nat /\ a < (e + i) + m /\ e + i < a + m
OBVIOUS

\* Adding modulo the sequence space.
LEMMA ModAdd ==
  ASSUME NEW a \in Nat, NEW n \in Nat
  PROVE ((a % Modulus) + n) % Modulus = (a + n) % Modulus
<1> DEFINE m == Modulus
<1>0. m \in Nat /\ m > 0
  BY ModulusIsNat
<1> HIDE DEF m
<1>1. PICK p \in Nat : a = m * p + (a % m) /\ a % m \in 0..(m - 1)
  BY <1>0, Divides
<1> DEFINE s == (a % m) + n
<1>2. s \in Nat
  BY <1>1
<1>3. PICK q \in Nat : s = m * q + (s % m) /\ s % m \in 0..(m - 1)
  BY <1>0, <1>2, Divides
<1> DEFINE k == p + q
           x == a + n
           r == s % m
<1>4. k \in Int /\ x \in Int /\ r \in 0..(m - 1) /\ x = m * k + r
  BY <1>0, <1>1, <1>3
<1> HIDE DEF k, x, r
<1>5. x % m = r
  BY <1>0, <1>4, RemainderUnique
<1>6. QED BY <1>5 DEF m, x, r

\* A remainder modulo the sequence space is a sequence number.
LEMMA ModInSequences ==
  ASSUME NEW a \in Int
  PROVE a % Modulus \in Sequences
BY ModulusIsNat DEF Sequences

\* Two indices less than one lap apart with equal sequence numbers are equal.
LEMMA SameSequence ==
  ASSUME NEW a \in Nat, NEW b \in Nat, a < b + Modulus, b < a + Modulus,
         a % Modulus = b % Modulus
  PROVE a = b
<1>1. CASE a <= b
  <2>1. channel_sequence_distance(a % Modulus, b % Modulus) = b - a
    BY <1>1, DistanceAhead
  <2>2. channel_sequence_distance(a % Modulus, a % Modulus) = a - a
    BY DistanceAhead, ModulusIsNat
  <2>3. QED BY <2>1, <2>2
<1>2. CASE b < a
  <2>1. channel_sequence_distance(b % Modulus, a % Modulus) = a - b
    BY <1>2, DistanceAhead
  <2>2. channel_sequence_distance(b % Modulus, b % Modulus) = b - b
    BY DistanceAhead, ModulusIsNat
  <2>3. QED BY <2>1, <2>2
<1>3. QED BY <1>1, <1>2

\* First really is the least element.
LEMMA FirstIsLeast ==
  ASSUME NEW S, S \subseteq Nat, S # {}
  PROVE First(S) \in S /\ \A y \in S : First(S) <= y
<1> DEFINE R == OpToRel(<, Nat)
<1>1. IsWellFoundedOn(R, Nat)
  BY NatLessThanWellFounded
<1>2. PICK x \in S : \A y \in S : ~(<<y, x>> \in R)
  BY <1>1, WFMin
<1>3. \A y, z \in Nat : y < z => <<y, z>> \in R
  BY DEF OpToRel
<1> HIDE DEF R
<1>4. ASSUME NEW y \in S PROVE x <= y
  <2>1. x \in Nat /\ y \in Nat
    OBVIOUS
  <2>2. ~(y < x)
    BY <1>2, <1>3, <2>1
  <2>3. QED BY <2>1, <2>2
<1>5. QED BY <1>4 DEF First

-----------------------------------------------------------------------------
(* The receiver's invariant.  Core is what holds in the middle of the      *)
(* handler too, where the awaited message may sit in the ring.             *)

RxType == [next : Sequences,
           ring : Seq(Envelopes),
           stall : {"none", "running", "expired"},
           delivered : Seq(Nat)]

Genuine(e, n) ==
  e \in Envelopes /\ e.sequence = e.index % Modulus /\ e.index < n

LogOK(r, n) ==
  /\ Expected(r) <= n
  /\ Stream!Increasing(r.delivered)
  /\ \A k \in 1..Len(r.delivered) : r.delivered[k] < Expected(r)

RingOK(r, n) ==
  /\ \A k \in 1..Len(r.ring) :
       /\ Genuine(r.ring[k], n)
       /\ r.ring[k].index \in Expected(r)..(Expected(r) + Window - 1)
  /\ \A j, k \in 1..Len(r.ring) :
       j < k => r.ring[j].index < r.ring[k].index

Core(r, n) ==
  /\ r \in RxType
  /\ r.next = Expected(r) % Modulus
  /\ LogOK(r, n)
  /\ RingOK(r, n)

RxInv(r, n) ==
  /\ Core(r, n)
  /\ \A k \in 1..Len(r.ring) : r.ring[k].index # Expected(r)
  /\ r.stall = "none" <=> r.ring = <<>>

\* The log of q continues the log of r.
Continues(r, q) ==
  /\ Len(r.delivered) <= Len(q.delivered)
  /\ \A k \in 1..Len(r.delivered) : q.delivered[k] = r.delivered[k]
  /\ Expected(r) <= Expected(q)

\* The position of q is just past the last message of the batch, if any.
Advances(r, q, batch) ==
  /\ batch = <<>> => Expected(q) = Expected(r)
  /\ batch # <<>> => Expected(q) = batch[Len(batch)] + 1

\* The length of a sequence, and where its elements lie.
LEMMA SeqElements ==
  ASSUME NEW S, NEW s \in Seq(S)
  PROVE /\ Len(s) \in Nat
        /\ \A k \in 1..Len(s) : s[k] \in S
        /\ s # <<>> => Len(s) \in 1..Len(s)
        /\ s = <<>> <=> Len(s) = 0
OBVIOUS

\* What the fields of an envelope range over.
LEMMA EnvelopeFields ==
  ASSUME NEW e \in Envelopes
  PROVE e.index \in Nat /\ e.sequence \in Sequences
BY DEF Envelopes

\* A sequence number followed by its successor.
LEMMA NextSequence ==
  ASSUME NEW i \in Nat
  PROVE WrappingNext(i % Modulus) = (i + 1) % Modulus
BY ModAdd DEF WrappingNext

\* The index of the message expected next is a natural number.
LEMMA ExpectedIsNat ==
  ASSUME NEW r, r.delivered \in Seq(Nat)
  PROVE Expected(r) \in Nat
BY DEF Expected

\* Concatenation of increasing sequences, all of b above all of a.
LEMMA IncreasingConcat ==
  ASSUME NEW a \in Seq(Nat), NEW b \in Seq(Nat),
         Stream!Increasing(a), Stream!Increasing(b),
         \A j \in 1..Len(a), k \in 1..Len(b) : a[j] < b[k]
  PROVE Stream!Increasing(a \o b)
<1> DEFINE t == a \o b
<1>1. /\ Len(t) = Len(a) + Len(b) /\ Len(a) \in Nat /\ Len(b) \in Nat
      /\ \A k \in 1..Len(a) : t[k] = a[k]
      /\ \A k \in 1..Len(t) : k > Len(a) => /\ t[k] = b[k - Len(a)]
                                          /\ k - Len(a) \in 1..Len(b)
  OBVIOUS
<1> HIDE DEF t
<1>2. ASSUME NEW j \in 1..Len(t), NEW k \in 1..Len(t), j < k
      PROVE t[j] < t[k]
  <2>1. CASE k <= Len(a)
    BY <2>1, <1>1, <1>2 DEF Stream!Increasing
  <2>2. CASE j > Len(a)
    <3>1. /\ t[j] = b[j - Len(a)] /\ t[k] = b[k - Len(a)]
          /\ j - Len(a) \in 1..Len(b) /\ k - Len(a) \in 1..Len(b)
          /\ j - Len(a) < k - Len(a)
      BY <2>2, <1>1, <1>2
    <3>2. QED BY <3>1 DEF Stream!Increasing
  <2>3. CASE j <= Len(a) /\ k > Len(a)
    <3>1. /\ j \in 1..Len(a) /\ t[j] = a[j] /\ t[k] = b[k - Len(a)]
          /\ k - Len(a) \in 1..Len(b)
      BY <2>3, <1>1
    <3>2. QED BY <3>1
  <2>4. QED BY <2>1, <2>2, <2>3, <1>1
<1>3. QED BY <1>2 DEF Stream!Increasing, t

\* Appending an increasing batch of messages at or past the expected one.
LEMMA AppendBatch ==
  ASSUME NEW r, NEW q, NEW n \in Nat, NEW batch \in Seq(Nat),
         r.delivered \in Seq(Nat), LogOK(r, n),
         q.delivered = r.delivered \o batch,
         Stream!Increasing(batch),
         \A k \in 1..Len(batch) : batch[k] >= Expected(r) /\ batch[k] < n
  PROVE /\ q.delivered \in Seq(Nat)
        /\ LogOK(q, n)
        /\ Continues(r, q)
        /\ Advances(r, q, batch)
<1> DEFINE d == r.delivered
           t == q.delivered
<1>0. Expected(r) \in Nat
  BY ExpectedIsNat
<1>1. /\ d \in Seq(Nat) /\ t \in Seq(Nat) /\ Len(t) = Len(d) + Len(batch)
      /\ \A k \in 1..Len(d) : t[k] = d[k]
      /\ \A k \in 1..Len(batch) : t[Len(d) + k] = batch[k]
      /\ Len(d) \in Nat /\ Len(batch) \in Nat
  OBVIOUS
<1>2. Expected(q) = IF batch = <<>> THEN Expected(r) ELSE batch[Len(batch)] + 1
  <2>1. CASE batch = <<>>
    BY <2>1, <1>1 DEF Expected
  <2>2. CASE batch # <<>>
    <3>1. Len(batch) > 0 /\ t # <<>>
      BY <2>2, <1>1
    <3>2. t[Len(t)] = batch[Len(batch)]
      BY <3>1, <1>1
    <3>3. QED BY <3>1, <3>2, <2>2 DEF Expected
  <2>3. QED BY <2>1, <2>2
<1>3. Stream!Increasing(t)
  <2>1. ASSUME NEW j \in 1..Len(d), NEW k \in 1..Len(batch)
        PROVE d[j] < batch[k]
    <3>1. d[j] \in Nat /\ batch[k] \in Nat
      BY <1>1, SeqElements
    <3>2. d[j] < Expected(r)
      BY DEF LogOK
    <3>3. batch[k] >= Expected(r)
      OBVIOUS
    <3>4. QED BY <3>1, <3>2, <3>3, <1>0
  <2>2. Stream!Increasing(d)
    BY DEF LogOK
  <2>3. QED BY <2>1, <2>2, IncreasingConcat
<1> HIDE DEF d, t
<1>4. Expected(q) <= n /\ Expected(r) <= Expected(q) /\ Expected(q) \in Nat
  <2>1. CASE batch = <<>>
    BY <2>1, <1>0, <1>2 DEF LogOK
  <2>2. CASE batch # <<>>
    <3>1. Len(batch) \in 1..Len(batch) /\ batch[Len(batch)] \in Nat
      BY <2>2
    <3>2. QED BY <3>1, <2>2, <1>0, <1>2
  <2>3. QED BY <2>1, <2>2
<1>5. \A k \in 1..Len(t) : t[k] < Expected(q)
  <2>1. CASE t = <<>>
    BY <2>1
  <2>2. CASE t # <<>>
    <3>1. Expected(q) = t[Len(t)] + 1
      BY <2>2 DEF Expected, t
    <3>2. Len(t) \in 1..Len(t) /\ Len(t) \in Nat
      BY <2>2, <1>1, SeqElements
    <3>3. \A k \in 1..Len(t) : t[k] \in Nat
      BY <1>1, SeqElements
    <3>4. ASSUME NEW k \in 1..Len(t) PROVE t[k] <= t[Len(t)]
      <4>1. CASE k = Len(t)
        BY <4>1, <3>2, <3>3
      <4>2. CASE k < Len(t)
        <5>1. t[k] < t[Len(t)]
          BY <4>2, <3>2, <1>3 DEF Stream!Increasing
        <5>2. t[k] \in Nat /\ t[Len(t)] \in Nat
          BY <3>2, <3>3
        <5>3. QED BY <5>1, <5>2
      <4>3. QED BY <4>1, <4>2, <3>2
    <3>5. QED BY <3>1, <3>2, <3>3, <3>4
  <2>3. QED BY <2>1, <2>2
<1>6. LogOK(q, n)
  BY <1>3, <1>4, <1>5 DEF LogOK, t
<1>7. Continues(r, q)
  BY <1>1, <1>4 DEF Continues, d, t
<1>8. Advances(r, q, batch)
  BY <1>2 DEF Advances
<1>9. QED BY <1>1, <1>6, <1>7, <1>8 DEF t

\* The indices of a ring are an increasing sequence of naturals.
LEMMA RingIndices ==
  ASSUME NEW ring \in Seq(Envelopes),
         \A j, k \in 1..Len(ring) : j < k => ring[j].index < ring[k].index
  PROVE /\ Indices(ring) \in Seq(Nat)
        /\ Len(Indices(ring)) = Len(ring)
        /\ \A k \in 1..Len(ring) : Indices(ring)[k] = ring[k].index
        /\ Stream!Increasing(Indices(ring))
<1>0. Len(ring) \in Nat /\ \A k \in 1..Len(ring) : ring[k] \in Envelopes
  BY SeqElements
<1>1. Len(ring) \in Nat /\ \A k \in 1..Len(ring) : ring[k].index \in Nat
  BY <1>0, EnvelopeFields
<1>2. /\ Indices(ring) \in Seq(Nat)
      /\ Len(Indices(ring)) = Len(ring)
      /\ \A k \in 1..Len(ring) : Indices(ring)[k] = ring[k].index
  BY <1>1 DEF Indices
<1>3. QED BY <1>2 DEF Stream!Increasing

\* The flush keeps the core invariant, empties the ring and moves the position
\* past everything it delivered, by at most a window.
LEMMA FlushKeepsCore ==
  ASSUME NEW r, NEW n \in Nat, Core(r, n)
  PROVE LET q == flush_channel_rx_ring(r) IN
        /\ Core(q, n) /\ q.ring = <<>> /\ q.stall = "none"
        /\ Continues(r, q)
        /\ Expected(q) <= Expected(r) + Window
<1> DEFINE q == flush_channel_rx_ring(r)
           ring == r.ring
<1>0. /\ r \in RxType /\ ring \in Seq(Envelopes) /\ r.delivered \in Seq(Nat)
      /\ Expected(r) \in Nat /\ Window \in Nat /\ LogOK(r, n)
  BY ExpectedIsNat, SequenceSpace DEF Core, RxType
<1>1. CASE ring = <<>>
  <2>1. /\ q = [r EXCEPT !.stall = "none"] /\ q.ring = <<>> /\ q.next = r.next
        /\ q.delivered = r.delivered /\ q.stall = "none" /\ q \in RxType
    BY <1>1, <1>0 DEF flush_channel_rx_ring, RxType
  <2>2. Expected(q) = Expected(r)
    BY <2>1 DEF Expected
  <2>3. LogOK(q, n)
    BY <1>0, <2>1, <2>2 DEF LogOK
  <2>4. RingOK(q, n)
    BY <2>1 DEF RingOK
  <2>5. Continues(r, q)
    BY <1>0, <2>1, <2>2, SeqElements DEF Continues
  <2>6. QED BY <1>0, <2>1, <2>2, <2>3, <2>4, <2>5 DEF Core
<1>2. CASE ring # <<>>
  <2> DEFINE last == ring[Len(ring)]
             batch == Indices(ring)
  <2>1. /\ q = [next |-> WrappingNext(last.sequence), ring |-> <<>>,
                stall |-> "none", delivered |-> r.delivered \o batch]
    BY <1>2 DEF flush_channel_rx_ring
  <2>2. /\ q.next = WrappingNext(last.sequence) /\ q.ring = <<>>
        /\ q.stall = "none" /\ q.delivered = r.delivered \o batch
    <3> HIDE DEF q, last, batch
    <3>1. QED BY <2>1
  <2>3. Len(ring) \in 1..Len(ring) /\ Len(ring) \in Nat
    BY <1>0, <1>2, SeqElements
  <2>4. \A k \in 1..Len(ring) :
           /\ Genuine(ring[k], n)
           /\ ring[k].index \in Expected(r)..(Expected(r) + Window - 1)
    BY DEF Core, RingOK
  <2>5. \A k \in 1..Len(ring) :
           /\ ring[k].index \in Nat /\ ring[k].index >= Expected(r)
           /\ ring[k].index < n /\ ring[k].index < Expected(r) + Window
    BY <2>4, <1>0 DEF Genuine, Envelopes
  <2>6. /\ batch \in Seq(Nat) /\ Len(batch) = Len(ring)
        /\ \A k \in 1..Len(ring) : batch[k] = ring[k].index
        /\ Stream!Increasing(batch)
    BY <1>0, RingIndices DEF Core, RingOK
  <2>7. \A k \in 1..Len(batch) : batch[k] >= Expected(r) /\ batch[k] < n
    BY <2>5, <2>6
  <2>8. batch # <<>> /\ batch[Len(batch)] = last.index
    BY <2>3, <2>6
  <2> HIDE DEF q, last, batch
  <2>9. /\ q.delivered \in Seq(Nat) /\ LogOK(q, n) /\ Continues(r, q)
        /\ Expected(q) = last.index + 1
    <3>1. /\ q.delivered \in Seq(Nat) /\ LogOK(q, n) /\ Continues(r, q)
          /\ Advances(r, q, batch)
      BY <1>0, <2>2, <2>6, <2>7, AppendBatch
    <3>2. QED BY <3>1, <2>8 DEF Advances
  <2>10. last.sequence = last.index % Modulus /\ last.index \in Nat
         /\ last.index < Expected(r) + Window
    BY <2>3, <2>4, <2>5 DEF Genuine, last
  <2>11. q.next = Expected(q) % Modulus /\ q.next \in Sequences
    <3>1. q.next = (last.index + 1) % Modulus
      BY <2>2, <2>10, NextSequence
    <3>2. (last.index + 1) % Modulus \in Sequences
      BY <2>10, ModInSequences
    <3>3. QED BY <3>1, <3>2, <2>9
  <2>12. q \in RxType
    BY <2>1, <2>2, <2>9, <2>11 DEF RxType
  <2>13. RingOK(q, n)
    BY <2>2 DEF RingOK
  <2>14. Expected(q) <= Expected(r) + Window
    BY <2>9, <2>10, <1>0
  <2>15. QED BY <2>2, <2>9, <2>11, <2>12, <2>13, <2>14 DEF Core, q
<1>3. QED BY <1>1, <1>2

\* For a genuine envelope at or ahead of the expected index the code's
\* distance is the true one ...
LEMMA KnownDistance ==
  ASSUME NEW r, NEW n \in Nat, NEW e, Genuine(e, n),
         r.delivered \in Seq(Nat), r.next = Expected(r) % Modulus,
         Expected(r) <= e.index, e.index < Expected(r) + Modulus
  PROVE Distance(r, e) = e.index - Expected(r)
<1>1. e.index \in Nat /\ e.sequence = e.index % Modulus
  BY EnvelopeFields DEF Genuine
<1>2. Expected(r) \in Nat
  BY ExpectedIsNat
<1>3. QED BY <1>1, <1>2, DistanceAhead DEF Distance

\* ... and an envelope behind it, by at most half the space, counts as late.
LEMMA KnownLate ==
  ASSUME NEW r, NEW n \in Nat, NEW e, Genuine(e, n),
         r.delivered \in Seq(Nat), r.next = Expected(r) % Modulus,
         e.index < Expected(r), Expected(r) <= e.index + HalfModulus
  PROVE Late(r, e)
<1>1. e.index \in Nat /\ e.sequence = e.index % Modulus
  BY EnvelopeFields DEF Genuine
<1>2. Expected(r) \in Nat
  BY ExpectedIsNat
<1>3. Distance(r, e) = Modulus - (Expected(r) - e.index)
  BY <1>1, <1>2, DistanceBehind DEF Distance
<1>4. QED BY <1>1, <1>2, <1>3, SequenceSpace DEF Late, Modulus

\* Facts about the ring of a receiver that satisfies the core invariant.
LEMMA CoreFacts ==
  ASSUME NEW r, NEW n \in Nat, Core(r, n)
  PROVE /\ r \in RxType /\ r.ring \in Seq(Envelopes) /\ r.delivered \in Seq(Nat)
        /\ Len(r.ring) \in Nat /\ Expected(r) \in Nat
        /\ Window \in Nat \ {0} /\ Window < Modulus /\ Modulus \in Nat
        /\ r.next = Expected(r) % Modulus
        /\ LogOK(r, n)
        /\ \A k \in 1..Len(r.ring) :
             /\ r.ring[k] \in Envelopes
             /\ r.ring[k].index \in Nat
             /\ r.ring[k].index < n
             /\ r.ring[k].sequence = r.ring[k].index % Modulus
             /\ r.ring[k].index >= Expected(r)
             /\ r.ring[k].index < Expected(r) + Window
             /\ Distance(r, r.ring[k]) = r.ring[k].index - Expected(r)
        /\ \A j, k \in 1..Len(r.ring) :
             j < k => r.ring[j].index < r.ring[k].index
<1>1. r \in RxType /\ r.ring \in Seq(Envelopes) /\ r.delivered \in Seq(Nat)
  BY DEF Core, RxType
<1>2. Len(r.ring) \in Nat /\ Expected(r) \in Nat
  BY <1>1, SeqElements, ExpectedIsNat
<1>3. Window \in Nat \ {0} /\ Window < Modulus /\ Modulus \in Nat
  BY SequenceSpace DEF Modulus
<1>4. r.next = Expected(r) % Modulus /\ LogOK(r, n) /\ RingOK(r, n)
  BY DEF Core
<1>5. ASSUME NEW k \in 1..Len(r.ring)
      PROVE /\ r.ring[k] \in Envelopes
            /\ r.ring[k].index \in Nat
            /\ r.ring[k].index < n
            /\ r.ring[k].sequence = r.ring[k].index % Modulus
            /\ r.ring[k].index >= Expected(r)
            /\ r.ring[k].index < Expected(r) + Window
            /\ Distance(r, r.ring[k]) = r.ring[k].index - Expected(r)
  <2> DEFINE e == r.ring[k]
  <2>1. Genuine(e, n) /\ e.index \in Expected(r)..(Expected(r) + Window - 1)
    BY <1>4 DEF RingOK
  <2>2. e \in Envelopes /\ e.index < n /\ e.sequence = e.index % Modulus
    BY <2>1 DEF Genuine
  <2>3. e.index \in Nat
    BY <2>2, EnvelopeFields
  <2> HIDE DEF e
  <2>4. e.index >= Expected(r) /\ e.index < Expected(r) + Window
    BY <2>1, <2>3, <1>2, <1>3
  <2>5. e.index < Expected(r) + Modulus
    BY <2>4, <2>3, <1>2, <1>3
  <2>6. Distance(r, e) = e.index - Expected(r)
    BY <1>1, <1>4, <2>1, <2>4, <2>5, KnownDistance
  <2>7. QED BY <2>2, <2>3, <2>4, <2>6 DEF e
<1>6. QED BY <1>1, <1>2, <1>3, <1>4, <1>5 DEF RingOK

\* The insertion point splits the ring into smaller and greater indices.
LEMMA InsertionSplits ==
  ASSUME NEW r, NEW n \in Nat, Core(r, n), NEW e, Genuine(e, n),
         e.index \in Expected(r)..(Expected(r) + Window - 1), ~IsBuffered(r, e)
  PROVE LET p == InsertionPoint(r, e) IN
        /\ p \in 0..Len(r.ring)
        /\ \A k \in 1..p : r.ring[k].index < e.index
        /\ \A k \in (p + 1)..Len(r.ring) : e.index < r.ring[k].index
<1> DEFINE ring == r.ring
           S == {i \in 0..Len(ring) :
                   i < Len(ring) => Distance(r, ring[i + 1]) >= Distance(r, e)}
           p == InsertionPoint(r, e)
<1>0. /\ Len(ring) \in Nat /\ Expected(r) \in Nat /\ Window \in Nat
      /\ Window < Modulus /\ Modulus \in Nat
      /\ r.delivered \in Seq(Nat) /\ r.next = Expected(r) % Modulus
      /\ \A k \in 1..Len(ring) :
           /\ ring[k].index \in Nat
           /\ ring[k].sequence = ring[k].index % Modulus
           /\ ring[k].index < Expected(r) + Window
           /\ Distance(r, ring[k]) = ring[k].index - Expected(r)
      /\ \A j, k \in 1..Len(ring) : j < k => ring[j].index < ring[k].index
  BY CoreFacts
<1>1. /\ e.index \in Nat /\ e.sequence = e.index % Modulus
      /\ e.index >= Expected(r) /\ e.index < Expected(r) + Modulus
  BY <1>0, EnvelopeFields DEF Genuine
<1>2. Distance(r, e) = e.index - Expected(r)
  BY <1>0, <1>1, KnownDistance
<1>3. S \subseteq Nat /\ S # {}
  <2>1. Len(ring) \in S
    BY <1>0
  <2>2. 0..Len(ring) \subseteq Nat
    BY <1>0
  <2>3. S \subseteq 0..Len(ring)
    OBVIOUS
  <2>4. QED BY <2>1, <2>2, <2>3
<1>4. p \in S /\ \A y \in S : p <= y
  BY <1>3, FirstIsLeast DEF InsertionPoint
<1>5. p \in 0..Len(ring)
  BY <1>4
<1>6. p < Len(ring) => Distance(r, ring[p + 1]) >= Distance(r, e)
  BY <1>4
<1>7. \A i \in 0..Len(ring) : i < p => Distance(r, ring[i + 1]) < Distance(r, e)
  <2> SUFFICES ASSUME NEW i \in 0..Len(ring), i < p
               PROVE Distance(r, ring[i + 1]) < Distance(r, e)
    OBVIOUS
  <2>1. i \notin S
    BY <1>4, <1>5, <1>0
  <2>2. i < Len(ring) /\ ~(Distance(r, ring[i + 1]) >= Distance(r, e))
    BY <2>1, <1>5, <1>0
  <2>3. i + 1 \in 1..Len(ring)
    BY <2>2, <1>0
  <2>4. Distance(r, ring[i + 1]) \in Int /\ Distance(r, e) \in Int
    <3>1. /\ ring[i + 1].index \in Nat /\ Expected(r) \in Nat
          /\ Distance(r, ring[i + 1]) = ring[i + 1].index - Expected(r)
      BY <2>3, <1>0
    <3>2. QED BY <3>1, <1>1, <1>2
  <2>5. QED BY <2>2, <2>4
<1> HIDE DEF p, S
<1>8. ASSUME NEW k \in 1..p PROVE ring[k].index < e.index
  <2>1. k - 1 \in 0..Len(ring) /\ k - 1 < p /\ k \in 1..Len(ring)
    BY <1>0, <1>5
  <2>2. Distance(r, ring[(k - 1) + 1]) < Distance(r, e)
    BY <2>1, <1>7
  <2>3. (k - 1) + 1 = k
    BY <1>5
  <2>4. /\ ring[k].index \in Nat
        /\ Distance(r, ring[k]) = ring[k].index - Expected(r)
    BY <2>1, <1>0
  <2>5. ring[k].index - Expected(r) < e.index - Expected(r)
    BY <2>2, <2>3, <2>4, <1>2
  <2>6. ring[k].index \in Int /\ e.index \in Int /\ Expected(r) \in Int
    BY <2>4, <1>0, <1>1
  <2>7. QED BY <2>5, <2>6, OffsetsCompare
<1>9. ASSUME NEW k \in (p + 1)..Len(ring) PROVE e.index < ring[k].index
  <2>1. /\ k \in 1..Len(ring) /\ p + 1 \in 1..Len(ring) /\ p < Len(ring)
        /\ p \in Nat /\ k >= p + 1
    BY <1>0, <1>5
  <2>2. ring[p + 1].index >= e.index
    <3>1. /\ ring[p + 1].index \in Nat
          /\ Distance(r, ring[p + 1]) = ring[p + 1].index - Expected(r)
      BY <2>1, <1>0
    <3>2. ring[p + 1].index - Expected(r) >= e.index - Expected(r)
      BY <2>1, <3>1, <1>2, <1>6
    <3>3. Expected(r) \in Nat /\ e.index \in Nat
      BY <1>0, <1>1
    <3>4. QED BY <3>1, <3>2, <3>3
  <2>3. ring[p + 1].index # e.index
    <3>1. ring[p + 1].sequence # e.sequence
      BY <2>1 DEF IsBuffered, p
    <3>2. QED BY <3>1, <2>1, <1>0, <1>1
  <2>4. ring[k].index \in Nat /\ ring[p + 1].index \in Nat
    BY <2>1, <1>0
  <2>5. k = p + 1 \/ ring[p + 1].index < ring[k].index
    BY <2>1, <1>0
  <2>6. QED BY <2>2, <2>3, <2>4, <2>5, <1>1
<1>10. QED BY <1>5, <1>8, <1>9 DEF p

\* Inserting an envelope of the window into the ring keeps the core of the
\* invariant.
LEMMA InsertKeepsCore ==
  ASSUME NEW r, NEW n \in Nat, Core(r, n), NEW e, Genuine(e, n),
         e.index \in Expected(r)..(Expected(r) + Window - 1), ~IsBuffered(r, e)
  PROVE LET q == [r EXCEPT !.ring = RingInsert(r.ring, InsertionPoint(r, e), e)]
        IN  /\ Core(q, n)
            /\ q.delivered = r.delivered /\ q.stall = r.stall /\ q.ring # <<>>
<1> DEFINE p == InsertionPoint(r, e)
           ring == r.ring
           new == RingInsert(ring, p, e)
           q == [r EXCEPT !.ring = new]
<1>0. /\ p \in 0..Len(ring)
      /\ \A k \in 1..p : ring[k].index < e.index
      /\ \A k \in (p + 1)..Len(ring) : e.index < ring[k].index
  BY InsertionSplits
<1>1. /\ Len(ring) \in Nat /\ Expected(r) \in Nat /\ r \in RxType
      /\ r.next = Expected(r) % Modulus /\ LogOK(r, n)
      /\ \A k \in 1..Len(ring) : ring[k] \in Envelopes /\ ring[k].index \in Nat
      /\ \A j, k \in 1..Len(ring) : j < k => ring[j].index < ring[k].index
  BY CoreFacts
<1>2. e \in Envelopes /\ e.index \in Nat
  BY EnvelopeFields DEF Genuine
<1> HIDE DEF p
<1>3. /\ new \in Seq(Envelopes) /\ Len(new) = Len(ring) + 1
      /\ \A k \in 1..(Len(ring) + 1) :
           new[k] = IF k <= p THEN ring[k] ELSE IF k = p + 1 THEN e ELSE ring[k - 1]
  <2>1. ASSUME NEW k \in 1..(Len(ring) + 1)
        PROVE (IF k <= p THEN ring[k] ELSE IF k = p + 1 THEN e ELSE ring[k - 1])
                \in Envelopes
    <3>1. CASE k <= p
      BY <3>1, <1>0, <1>1
    <3>2. CASE k = p + 1
      BY <3>2, <1>0, <1>1, <1>2
    <3>3. CASE k > p + 1
      <4>1. k - 1 \in 1..Len(ring)
        BY <3>3, <1>0, <1>1
      <4>2. QED BY <4>1, <3>3, <1>0, <1>1
    <3>4. QED BY <3>1, <3>2, <3>3, <1>0, <1>1
  <2>2. QED BY <2>1, <1>1 DEF RingInsert
<1>4. /\ q.ring = new /\ q.next = r.next /\ q.stall = r.stall
      /\ q.delivered = r.delivered /\ q \in RxType
  BY <1>1, <1>3 DEF RxType
<1>5. Expected(q) = Expected(r)
  BY <1>4 DEF Expected
<1> HIDE DEF new, q
<1>6. ASSUME NEW k \in 1..Len(new)
      PROVE /\ Genuine(new[k], n)
            /\ new[k].index \in Expected(r)..(Expected(r) + Window - 1)
  <2>1. CASE k <= p
    <3>1. new[k] = ring[k] /\ k \in 1..Len(ring)
      BY <2>1, <1>0, <1>1, <1>3
    <3>2. QED BY <3>1 DEF Core, RingOK
  <2>2. CASE k = p + 1
    BY <2>2, <1>0, <1>1, <1>3
  <2>3. CASE k > p + 1
    <3>1. new[k] = ring[k - 1] /\ k - 1 \in 1..Len(ring)
      BY <2>3, <1>0, <1>1, <1>3
    <3>2. QED BY <3>1 DEF Core, RingOK
  <2>4. QED BY <2>1, <2>2, <2>3, <1>0, <1>1, <1>3
<1>7. ASSUME NEW j \in 1..Len(new), NEW k \in 1..Len(new), j < k
      PROVE new[j].index < new[k].index
  <2> DEFINE at(i) == IF i <= p THEN ring[i] ELSE IF i = p + 1 THEN e ELSE ring[i - 1]
  <2>1. new[j] = at(j) /\ new[k] = at(k)
    BY <1>1, <1>3
  <2>2. CASE k <= p
    <3>1. /\ j \in 1..Len(ring) /\ k \in 1..Len(ring)
          /\ new[j] = ring[j] /\ new[k] = ring[k]
      BY <2>1, <2>2, <1>0, <1>1, <1>3, <1>7
    <3>2. QED BY <3>1, <1>1, <1>7
  <2>3. CASE k = p + 1
    BY <2>1, <2>3, <1>0, <1>1, <1>3, <1>7
  <2>4. CASE k > p + 1
    <3>0. k - 1 \in (p + 1)..Len(ring) /\ k - 1 \in 1..Len(ring)
      BY <2>4, <1>0, <1>1, <1>3
    <3>1. CASE j <= p
      <4>1. j \in 1..p /\ j \in 1..Len(ring) /\ j < k - 1
        BY <3>1, <3>0, <1>0, <1>1, <1>3
      <4>2. QED BY <4>1, <3>0, <3>1, <2>1, <2>4, <1>0, <1>1
    <3>2. CASE j = p + 1
      BY <3>0, <3>2, <2>1, <2>4, <1>0, <1>1
    <3>3. CASE j > p + 1
      <4>1. j - 1 \in 1..Len(ring) /\ j - 1 < k - 1
        BY <3>3, <3>0, <1>0, <1>1, <1>3, <1>7
      <4>2. new[j] = ring[j - 1] /\ new[k] = ring[k - 1]
        BY <3>3, <2>1, <2>4, <1>0
      <4>3. QED BY <4>1, <4>2, <3>0, <1>1
    <3>4. QED BY <3>1, <3>2, <3>3, <1>0, <1>1, <1>3
  <2>5. QED BY <2>2, <2>3, <2>4, <1>0, <1>1, <1>3
<1>8. RingOK(q, n)
  BY <1>4, <1>5, <1>6, <1>7 DEF RingOK
<1>9. LogOK(q, n)
  BY <1>1, <1>4, <1>5 DEF LogOK
<1>10. Core(q, n) /\ q.ring # <<>>
  BY <1>1, <1>3, <1>4, <1>5, <1>8, <1>9 DEF Core
<1>11. QED BY <1>4, <1>10 DEF q, new, p

\* The run that deliver_contiguous_channel_rx delivers is the one that starts
\* at the expected index, and the ring goes on after a gap.
LEMMA RunIsContiguous ==
  ASSUME NEW r, NEW n \in Nat, Core(r, n)
  PROVE LET count == RunLength(r) IN
        /\ count \in 0..Len(r.ring)
        /\ \A k \in 1..count : r.ring[k].index = Expected(r) + k - 1
        /\ \A k \in (count + 1)..Len(r.ring) :
             r.ring[k].index > Expected(r) + count
<1> DEFINE ring == r.ring
           S == {i \in 0..Len(ring) :
                   i < Len(ring) => ring[i + 1].sequence # (r.next + i) % Modulus}
           count == RunLength(r)
<1>0. /\ Len(ring) \in Nat /\ Expected(r) \in Nat /\ Window \in Nat
      /\ Window < Modulus /\ Modulus \in Nat
      /\ r.next = Expected(r) % Modulus
  BY CoreFacts
<1>1. \A k \in 1..Len(ring) :
         /\ ring[k].index \in Nat
         /\ ring[k].sequence = ring[k].index % Modulus
         /\ ring[k].index >= Expected(r)
         /\ ring[k].index < Expected(r) + Window
  BY CoreFacts
<1>2. \A j, k \in 1..Len(ring) : j < k => ring[j].index < ring[k].index
  BY CoreFacts
<1>3. S \subseteq Nat /\ S # {}
  <2>1. Len(ring) \in S
    BY <1>0
  <2>2. 0..Len(ring) \subseteq Nat
    BY <1>0
  <2>3. S \subseteq 0..Len(ring)
    OBVIOUS
  <2>4. QED BY <2>1, <2>2, <2>3
<1>4. count \in S /\ \A y \in S : count <= y
  BY <1>3, FirstIsLeast DEF RunLength
<1>5. count \in 0..Len(ring)
  BY <1>4
<1>6. count < Len(ring) => ring[count + 1].sequence # (r.next + count) % Modulus
  BY <1>4
<1>7. \A i \in 0..Len(ring) :
         i < count => ring[i + 1].sequence = (r.next + i) % Modulus
  <2> SUFFICES ASSUME NEW i \in 0..Len(ring), i < count
               PROVE ring[i + 1].sequence = (r.next + i) % Modulus
    OBVIOUS
  <2>1. i \notin S
    BY <1>4, <1>5, <1>0
  <2>2. QED BY <2>1
<1> HIDE DEF S, count
\* A ring index and an index at most a window past the expected one agree when
\* their sequence numbers do.
<1>8. ASSUME NEW k \in 1..Len(ring), NEW i \in Nat, i <= Window,
             ring[k].sequence = (r.next + i) % Modulus
      PROVE ring[k].index = Expected(r) + i
  <2>1. /\ ring[k].index \in Nat
        /\ ring[k].sequence = ring[k].index % Modulus
        /\ ring[k].index >= Expected(r)
        /\ ring[k].index < Expected(r) + Window
    BY <1>1
  <2>2. (r.next + i) % Modulus = (Expected(r) + i) % Modulus
    <3>1. ((Expected(r) % Modulus) + i) % Modulus = (Expected(r) + i) % Modulus
      <4>1. Expected(r) \in Nat
        BY <1>0
      <4>2. QED BY <4>1, ModAdd
    <3>2. QED BY <3>1, <1>0
  <2>3. /\ Expected(r) + i \in Nat
        /\ ring[k].index < (Expected(r) + i) + Modulus
        /\ Expected(r) + i < ring[k].index + Modulus
    <3>1. i <= Window
      BY <1>8
    <3>2. /\ Expected(r) \in Nat /\ Window \in Nat /\ Modulus \in Nat
          /\ Window < Modulus
      BY <1>0
    <3>3. /\ ring[k].index \in Nat /\ ring[k].index >= Expected(r)
          /\ ring[k].index < Expected(r) + Window
      BY <2>1
    <3>4. QED BY <3>1, <3>2, <3>3, LessThanATurn
  <2>4. ring[k].index % Modulus = (Expected(r) + i) % Modulus
    BY <2>1, <2>2, <1>8
  <2>5. QED BY <2>1, <2>3, <2>4, SameSequence
<1>9. \A k \in 1..count : ring[k].index = Expected(r) + k - 1
  <2> DEFINE B == {k \in 1..count : ring[k].index # Expected(r) + k - 1}
  <2>1. SUFFICES ASSUME B # {} PROVE FALSE
    OBVIOUS
  <2>2. B \subseteq Nat
    BY <1>5
  <2> DEFINE k == First(B)
  <2>3. k \in B /\ \A y \in B : k <= y
    BY <2>1, <2>2, FirstIsLeast
  <2>4. k \in 1..count /\ ring[k].index # Expected(r) + k - 1
    BY <2>3
  <2>5. \A j \in 1..count : j < k => ring[j].index = Expected(r) + j - 1
    BY <2>3, <1>5
  <2> HIDE DEF k, B
  <2>6. /\ k \in 1..Len(ring) /\ k - 1 \in 0..Len(ring) /\ k - 1 < count
        /\ k - 1 \in Nat /\ (k - 1) + 1 = k
    BY <2>4, <1>0, <1>5
  <2>7. ring[k].sequence = (r.next + (k - 1)) % Modulus
    BY <2>6, <1>7
  <2>8. k - 1 <= Window
    <3>1. CASE k = 1
      BY <3>1, <1>0
    <3>2. CASE k # 1
      <4>1. k - 1 \in 1..count /\ k - 1 < k /\ k - 1 \in 1..Len(ring)
        BY <3>2, <2>4, <1>5
      <4>2. ring[k - 1].index = Expected(r) + (k - 1) - 1
        BY <4>1, <2>5
      <4>3. ring[k - 1].index < Expected(r) + Window
        BY <4>1, <1>1
      <4>4. QED BY <4>2, <4>3, <2>6, <1>0
    <3>3. QED BY <3>1, <3>2
  <2>9. ring[k].index = Expected(r) + (k - 1)
    BY <2>6, <2>7, <2>8, <1>8
  <2>10. Expected(r) + (k - 1) = Expected(r) + k - 1
    BY <2>6, <1>0
  <2>11. QED BY <2>4, <2>9, <2>10
<1>10. ASSUME count < Len(ring) PROVE ring[count + 1].index > Expected(r) + count
  <2>1. count + 1 \in 1..Len(ring) /\ count \in Nat
    BY <1>0, <1>5, <1>10
  <2>2. /\ ring[count + 1].index \in Nat /\ ring[count + 1].index >= Expected(r)
    BY <2>1, <1>1
  <2>3. CASE count = 0
    <3>1. r.next + count = r.next + 0
      BY <2>3
    <3>2. ring[count + 1].index # Expected(r) + 0
      <4>1. SUFFICES ASSUME ring[count + 1].index = Expected(r) PROVE FALSE
        BY <1>0
      <4>2. ring[count + 1].sequence = Expected(r) % Modulus
        BY <4>1, <2>1, <1>1
      <4>3. (r.next + 0) % Modulus = (Expected(r) + 0) % Modulus
        BY <1>0, ModAdd
      <4>4. Expected(r) + 0 = Expected(r)
        BY <1>0
      <4>5. QED BY <4>2, <4>3, <4>4, <3>1, <1>6, <1>10
    <3>3. QED BY <3>2, <2>2, <2>3, <1>0
  <2>4. CASE count # 0
    <3>1. count \in 1..count /\ count \in 1..Len(ring) /\ count < count + 1
      BY <2>1, <2>4, <1>5
    <3>2. ring[count].index = Expected(r) + count - 1
      BY <3>1, <1>9
    <3>3. ring[count].index < ring[count + 1].index
      BY <3>1, <2>1, <1>2
    <3>4. ring[count + 1].index >= Expected(r) + count
      BY <3>2, <3>3, <2>1, <2>2, <1>0
    <3>5. ring[count + 1].index # Expected(r) + count
      <4>1. SUFFICES ASSUME ring[count + 1].index = Expected(r) + count PROVE FALSE
        OBVIOUS
      <4>2. ring[count + 1].sequence = (Expected(r) + count) % Modulus
        BY <4>1, <2>1, <1>1
      <4>3. (r.next + count) % Modulus = (Expected(r) + count) % Modulus
        BY <2>1, <1>0, ModAdd
      <4>4. QED BY <4>2, <4>3, <1>6, <1>10
    <3>6. QED BY <3>4, <3>5, <2>1, <2>2, <1>0
  <2>5. QED BY <2>3, <2>4
<1>11. ASSUME NEW k \in (count + 1)..Len(ring)
       PROVE ring[k].index > Expected(r) + count
  <2>1. /\ count < Len(ring) /\ k \in 1..Len(ring) /\ count + 1 \in 1..Len(ring)
        /\ k = count + 1 \/ count + 1 < k
    BY <1>0, <1>5
  <2>2. ring[count + 1].index > Expected(r) + count
    BY <2>1, <1>10
  <2>3. k = count + 1 \/ ring[count + 1].index < ring[k].index
    BY <2>1, <1>2
  <2>4. ring[k].index \in Nat /\ ring[count + 1].index \in Nat /\ count \in Nat
    BY <2>1, <1>1, <1>5
  <2>5. QED BY <2>2, <2>3, <2>4, <1>0
<1>12. QED BY <1>5, <1>9, <1>11 DEF count

\* Delivering the contiguous run keeps the core invariant and leaves a ring
\* whose head is missing.
LEMMA DeliverKeepsCore ==
  ASSUME NEW r, NEW n \in Nat, Core(r, n)
  PROVE LET q == deliver_contiguous_channel_rx(r) IN
        /\ Core(q, n) /\ Continues(r, q) /\ q.stall = r.stall
        /\ \A k \in 1..Len(q.ring) : q.ring[k].index # Expected(q)
<1> DEFINE q == deliver_contiguous_channel_rx(r)
           ring == r.ring
           count == RunLength(r)
           run == SubSeq(ring, 1, count)
           rest == SubSeq(ring, count + 1, Len(ring))
           batch == Indices(run)
<1>0. /\ Len(ring) \in Nat /\ Expected(r) \in Nat /\ Window \in Nat
      /\ r \in RxType /\ ring \in Seq(Envelopes) /\ r.delivered \in Seq(Nat)
      /\ r.next = Expected(r) % Modulus /\ LogOK(r, n)
  BY CoreFacts
<1>1. \A k \in 1..Len(ring) :
         /\ ring[k] \in Envelopes
         /\ ring[k].index \in Nat
         /\ ring[k].index < n
         /\ ring[k].index >= Expected(r)
         /\ ring[k].index < Expected(r) + Window
  BY CoreFacts
<1>2. \A j, k \in 1..Len(ring) : j < k => ring[j].index < ring[k].index
  BY CoreFacts
<1>3. /\ count \in 0..Len(ring)
      /\ \A k \in 1..count : ring[k].index = Expected(r) + k - 1
      /\ \A k \in (count + 1)..Len(ring) : ring[k].index > Expected(r) + count
  BY RunIsContiguous
<1> HIDE DEF count
<1>4. /\ run \in Seq(Envelopes) /\ Len(run) = count
      /\ \A k \in 1..count : run[k] = ring[k]
  BY <1>0, <1>1, <1>3
<1>5. /\ rest \in Seq(Envelopes) /\ Len(rest) = Len(ring) - count
      /\ \A k \in 1..Len(rest) : rest[k] = ring[count + k]
  BY <1>0, <1>1, <1>3
<1>6. /\ q.next = (r.next + count) % Modulus /\ q.ring = rest
      /\ q.stall = r.stall /\ q.delivered = r.delivered \o batch
      /\ q = [r EXCEPT !.next = q.next, !.ring = q.ring, !.delivered = q.delivered]
  BY <1>0 DEF deliver_contiguous_channel_rx, RxType, count
<1> HIDE DEF q, run, rest
<1>7. /\ batch \in Seq(Nat) /\ Len(batch) = count
      /\ \A k \in 1..count : batch[k] = ring[k].index
      /\ Stream!Increasing(batch)
  <2>1. ASSUME NEW j \in 1..Len(run), NEW k \in 1..Len(run), j < k
        PROVE run[j].index < run[k].index
    <3>1. /\ j \in 1..Len(ring) /\ k \in 1..Len(ring)
          /\ run[j] = ring[j] /\ run[k] = ring[k]
      <4>1. j \in 1..count /\ k \in 1..count
        BY <1>4
      <4>2. j \in 1..Len(ring) /\ k \in 1..Len(ring)
        BY <4>1, <1>0, <1>3
      <4>3. QED BY <4>1, <4>2, <1>4
    <3>2. QED BY <2>1, <3>1, <1>2
  <2>2. /\ Indices(run) \in Seq(Nat) /\ Len(Indices(run)) = Len(run)
        /\ \A k \in 1..Len(run) : Indices(run)[k] = run[k].index
        /\ Stream!Increasing(Indices(run))
    BY <2>1, <1>4, RingIndices
  <2>3. QED BY <2>2, <1>4
<1> HIDE DEF batch
<1>8. \A k \in 1..Len(batch) : batch[k] >= Expected(r) /\ batch[k] < n
  <2> SUFFICES ASSUME NEW k \in 1..Len(batch)
               PROVE batch[k] >= Expected(r) /\ batch[k] < n
    OBVIOUS
  <2>1. k \in 1..count /\ k \in 1..Len(ring)
    BY <1>0, <1>3, <1>7
  <2>2. QED BY <2>1, <1>1, <1>7
<1>9. /\ q.delivered \in Seq(Nat) /\ LogOK(q, n) /\ Continues(r, q)
      /\ Advances(r, q, batch)
  <2>1. q.delivered = r.delivered \o batch
    BY <1>6
  <2>2. batch \in Seq(Nat) /\ Stream!Increasing(batch)
    BY <1>7
  <2>3. r.delivered \in Seq(Nat) /\ LogOK(r, n)
    BY <1>0
  <2>4. QED BY <2>1, <2>2, <2>3, <1>8, AppendBatch
<1>10. Expected(q) = Expected(r) + count
  <2>1. CASE count = 0
    <3>1. batch = <<>>
      BY <2>1, <1>7, SeqElements
    <3>2. QED BY <3>1, <2>1, <1>0, <1>9 DEF Advances
  <2>2. CASE count # 0
    <3>1. batch # <<>> /\ count \in 1..count /\ count \in Nat
      BY <2>2, <1>0, <1>3, <1>7, SeqElements
    <3>2. batch[Len(batch)] = Expected(r) + count - 1
      BY <3>1, <1>3, <1>7
    <3>3. Expected(q) = (Expected(r) + count - 1) + 1
      BY <3>1, <3>2, <1>9 DEF Advances
    <3>4. QED BY <3>1, <3>3, <1>0
  <2>3. QED BY <2>1, <2>2
<1>11. q.next = Expected(q) % Modulus /\ q.next \in Sequences
  <2>1. count \in Nat
    BY <1>0, <1>3
  <2>2. (r.next + count) % Modulus = (Expected(r) + count) % Modulus
    BY <2>1, <1>0, ModAdd
  <2>3. (Expected(r) + count) % Modulus \in Sequences
    BY <2>1, <1>0, ModInSequences
  <2>4. QED BY <2>2, <2>3, <1>6, <1>10
<1>12. ASSUME NEW k \in 1..Len(rest)
       PROVE /\ Genuine(rest[k], n)
             /\ rest[k].index \in Expected(q)..(Expected(q) + Window - 1)
             /\ rest[k].index # Expected(q)
  <2>1. /\ count + k \in (count + 1)..Len(ring) /\ count + k \in 1..Len(ring)
        /\ rest[k] = ring[count + k] /\ count \in Nat
    BY <1>0, <1>3, <1>5
  <2>2. /\ Genuine(rest[k], n)
    BY <2>1 DEF Core, RingOK
  <2>3. /\ rest[k].index > Expected(r) + count
        /\ rest[k].index \in Nat /\ rest[k].index < Expected(r) + Window
    BY <2>1, <1>1, <1>3
  <2>4. QED BY <2>1, <2>2, <2>3, <1>0, <1>10
<1>13. ASSUME NEW j \in 1..Len(rest), NEW k \in 1..Len(rest), j < k
       PROVE rest[j].index < rest[k].index
  <2>1. /\ count + j \in 1..Len(ring) /\ count + k \in 1..Len(ring)
        /\ count + j < count + k
        /\ rest[j] = ring[count + j] /\ rest[k] = ring[count + k]
    <3>1. rest[j] = ring[count + j] /\ rest[k] = ring[count + k]
      BY <1>5
    <3>2. count \in Nat /\ count <= Len(ring) /\ Len(rest) = Len(ring) - count
      BY <1>0, <1>3, <1>5
    <3>3. ASSUME NEW c \in Nat, NEW long \in Nat, NEW short \in Nat, short = long - c,
                 NEW i \in 1..short
          PROVE  c + i \in 1..long
      BY <3>3
    <3>4. Len(rest) \in Nat /\ Len(ring) \in Nat
      BY <3>2, <1>0
    <3> HIDE DEF count, rest, ring
    <3>5. count + j \in 1..Len(ring) /\ count + k \in 1..Len(ring)
      BY <3>2, <3>3, <3>4
    <3>6. count + j < count + k
      BY <3>2, <3>4, <1>13
    <3>7. QED BY <3>1, <3>5, <3>6
  <2>2. QED BY <2>1, <1>2
<1>14. RingOK(q, n)
  BY <1>6, <1>12, <1>13 DEF RingOK
<1>15. q \in RxType
  BY <1>0, <1>5, <1>6, <1>9, <1>11 DEF RxType
<1>16. Core(q, n)
  BY <1>9, <1>11, <1>14, <1>15 DEF Core
<1>17. QED BY <1>6, <1>9, <1>12, <1>16 DEF q

\* A log that continues one that continues a third continues the third.
LEMMA ContinuesTransitive ==
  ASSUME NEW a, NEW b, NEW c,
         a.delivered \in Seq(Nat), b.delivered \in Seq(Nat), c.delivered \in Seq(Nat),
         Continues(a, b), Continues(b, c)
  PROVE Continues(a, c)
<1>1. /\ Len(a.delivered) \in Nat /\ Len(b.delivered) \in Nat
      /\ Len(c.delivered) \in Nat
      /\ Expected(a) \in Nat /\ Expected(b) \in Nat /\ Expected(c) \in Nat
  BY SeqElements, ExpectedIsNat
<1>2. /\ Len(a.delivered) <= Len(c.delivered) /\ Expected(a) <= Expected(c)
      /\ Len(a.delivered) <= Len(b.delivered)
  BY <1>1 DEF Continues
<1>3. ASSUME NEW k \in 1..Len(a.delivered)
      PROVE c.delivered[k] = a.delivered[k]
  <2>1. k \in 1..Len(b.delivered)
    BY <1>1, <1>2
  <2>2. QED BY <2>1 DEF Continues
<1>4. QED BY <1>2, <1>3 DEF Continues

\* A log continues itself.
LEMMA ContinuesItself ==
  ASSUME NEW r, r.delivered \in Seq(Nat)
  PROVE Continues(r, r)
<1>1. Len(r.delivered) \in Nat /\ Expected(r) \in Nat
  BY SeqElements, ExpectedIsNat
<1>2. QED BY <1>1 DEF Continues

\* The tail of the handler establishes the invariant.
LEMMA BufferAndDeliverKeepsInv ==
  ASSUME NEW r, NEW n \in Nat, Core(r, n), r.stall = "none" <=> r.ring = <<>>,
         NEW e, Genuine(e, n),
         e.index \in Expected(r)..(Expected(r) + Window - 1), ~IsBuffered(r, e)
  PROVE RxInv(BufferAndDeliver(r, e), n) /\ Continues(r, BufferAndDeliver(r, e))
<1> DEFINE ins == [r EXCEPT !.ring = RingInsert(r.ring, InsertionPoint(r, e), e)]
           after == deliver_contiguous_channel_rx(ins)
           q == [after EXCEPT !.stall = StallClock(r, after)]
<1>1. /\ Core(ins, n) /\ ins.delivered = r.delivered /\ ins.stall = r.stall
  BY InsertKeepsCore
<1> HIDE DEF ins
<1>2. /\ Core(after, n) /\ Continues(ins, after) /\ after.stall = r.stall
      /\ \A k \in 1..Len(after.ring) : after.ring[k].index # Expected(after)
  BY <1>1, DeliverKeepsCore
<1> HIDE DEF after
<1>3. /\ r.stall \in {"none", "running", "expired"} /\ after \in RxType
      /\ r.delivered \in Seq(Nat) /\ r \in RxType
  BY <1>2, CoreFacts DEF RxType, Core
<1>4. StallClock(r, after) \in {"none", "running", "expired"}
  BY <1>3 DEF StallClock
<1>5. StallClock(r, after) = "none" <=> after.ring = <<>>
  BY <1>3 DEF StallClock
<1>6. /\ q \in RxType /\ q.ring = after.ring /\ q.next = after.next
      /\ q.delivered = after.delivered /\ q.stall = StallClock(r, after)
  BY <1>3, <1>4 DEF RxType
<1> HIDE DEF q
<1>7. Expected(q) = Expected(after) /\ Expected(ins) = Expected(r)
  BY <1>1, <1>6 DEF Expected
<1>8. LogOK(q, n)
  BY <1>2, <1>6, <1>7 DEF Core, LogOK
<1>9. RingOK(q, n)
  BY <1>2, <1>6, <1>7 DEF Core, RingOK
<1>10. Core(q, n)
  BY <1>2, <1>6, <1>7, <1>8, <1>9 DEF Core
<1>11. RxInv(q, n)
  BY <1>2, <1>5, <1>6, <1>7, <1>10 DEF RxInv
<1>12. Continues(r, q)
  BY <1>1, <1>2, <1>6, <1>7 DEF Continues
<1>13. QED BY <1>11, <1>12 DEF BufferAndDeliver, q, after, ins

\* Skipping to a later envelope, the ring being empty, keeps the receiver's
\* invariant and what was delivered.
LEMMA ResynchroniseKeepsInv ==
  ASSUME NEW r, NEW n \in Nat, Core(r, n), r.stall = "none", r.ring = <<>>,
         NEW e, Genuine(e, n), e.index >= Expected(r)
  PROVE RxInv(Resynchronise(r, e), n) /\ Continues(r, Resynchronise(r, e))
<1> DEFINE q == Resynchronise(r, e)
           batch == <<e.index>>
<1>0. /\ r \in RxType /\ r.delivered \in Seq(Nat) /\ LogOK(r, n)
      /\ Expected(r) \in Nat
  BY CoreFacts
<1>1. e.index \in Nat /\ e.index < n /\ e.sequence = e.index % Modulus
  BY EnvelopeFields DEF Genuine
<1>2. /\ q.next = WrappingNext(e.sequence) /\ q.ring = <<>> /\ q.stall = "none"
      /\ q.delivered = r.delivered \o batch
      /\ q = [r EXCEPT !.next = q.next, !.delivered = q.delivered]
  BY <1>0 DEF Resynchronise, RxType
<1> HIDE DEF q
<1>3. /\ batch \in Seq(Nat) /\ batch # <<>> /\ Len(batch) = 1
      /\ batch[Len(batch)] = e.index
      /\ \A k \in 1..Len(batch) : batch[k] >= Expected(r) /\ batch[k] < n
  BY <1>1
<1>4. Stream!Increasing(batch)
  BY <1>3 DEF Stream!Increasing
<1> HIDE DEF batch
<1>5. q.delivered = r.delivered \o batch
  BY <1>2
<1>6. /\ q.delivered \in Seq(Nat) /\ LogOK(q, n) /\ Continues(r, q)
      /\ Advances(r, q, batch)
  BY <1>0, <1>3, <1>4, <1>5, AppendBatch
<1>7. Expected(q) = e.index + 1
  BY <1>3, <1>6 DEF Advances
<1>8. q.next = Expected(q) % Modulus /\ q.next \in Sequences
  <2>1. q.next = (e.index + 1) % Modulus
    BY <1>1, <1>2, NextSequence
  <2>2. (e.index + 1) % Modulus \in Sequences
    BY <1>1, ModInSequences
  <2>3. QED BY <2>1, <2>2, <1>7
<1>9. q \in RxType
  BY <1>0, <1>2, <1>6, <1>8 DEF RxType
<1>10. RingOK(q, n)
  BY <1>2 DEF RingOK
<1>11. QED BY <1>2, <1>6, <1>8, <1>9, <1>10 DEF RxInv, Core, q

\* The whole handler: any genuine envelope the environment can deliver leaves
\* the receiver in its invariant, and the log only grows.
LEMMA HandlerKeepsInv ==
  ASSUME NEW r, NEW n \in Nat, RxInv(r, n), NEW e, Genuine(e, n),
         Expected(r) <= e.index + HalfModulus, e.index < Expected(r) + Modulus
  PROVE LET q == handle_channel_envelope(r, e) IN
        RxInv(q, n) /\ Continues(r, q)
<1> DEFINE f == Recovered(r, e)
           q == handle_channel_envelope(r, e)
<1>0. /\ Core(r, n) /\ r.delivered \in Seq(Nat) /\ Expected(r) \in Nat
      /\ r.next = Expected(r) % Modulus /\ (r.stall = "none" <=> r.ring = <<>>)
  BY CoreFacts DEF RxInv
<1>1. e.index \in Nat
  BY EnvelopeFields DEF Genuine
<1>2. /\ Window \in Nat \ {0} /\ HalfModulus \in Nat /\ Window <= HalfModulus
      /\ Modulus = 2 * HalfModulus
  BY SequenceSpace DEF Modulus
<1>3. CASE Late(r, e)
  <2>1. q = r
    BY <1>3 DEF handle_channel_envelope
  <2>2. QED BY <2>1, <1>0, ContinuesItself
<1>4. CASE ~Late(r, e)
  <2>1. e.index >= Expected(r)
    BY <1>0, <1>1, <1>4, KnownLate
  <2>2. /\ RxInv(f, n) /\ Continues(r, f) /\ Expected(f) <= Expected(r) + Window
    <3>1. CASE RecoveryDue(r, e)
      <4>1. f = flush_channel_rx_ring(r)
        BY <3>1 DEF Recovered
      <4>2. /\ Core(f, n) /\ f.ring = <<>> /\ f.stall = "none"
            /\ Continues(r, f) /\ Expected(f) <= Expected(r) + Window
        BY <4>1, <1>0, FlushKeepsCore
      <4>3. RxInv(f, n)
        BY <4>2 DEF RxInv
      <4>4. QED BY <4>2, <4>3
    <3>2. CASE ~RecoveryDue(r, e)
      <4>1. f = r
        BY <3>2 DEF Recovered
      <4>2. QED BY <4>1, <1>0, <1>2, ContinuesItself
    <3>3. QED BY <3>1, <3>2
  <2> HIDE DEF f
  <2>3. /\ Core(f, n) /\ f.delivered \in Seq(Nat) /\ Expected(f) \in Nat
        /\ f.next = Expected(f) % Modulus /\ (f.stall = "none" <=> f.ring = <<>>)
    BY <2>2, CoreFacts DEF RxInv
  <2>4. CASE Late(f, e)
    <3>1. q = f
      BY <1>4, <2>4 DEF handle_channel_envelope, f
    <3>2. QED BY <3>1, <2>2
  <2>5. CASE ~Late(f, e)
    <3>1. e.index >= Expected(f)
      <4>1. Expected(f) <= e.index + HalfModulus
        BY <2>1, <2>2, <2>3, <1>0, <1>1, <1>2
      <4>2. QED BY <4>1, <2>3, <2>5, <1>1, KnownLate
    <3>2. Distance(f, e) = e.index - Expected(f)
      <4>1. e.index < Expected(f) + Modulus
        <5>1. Expected(r) <= Expected(f)
          BY <2>2 DEF Continues
        <5>2. QED BY <5>1, <2>3, <1>0, <1>1, <1>2
      <4>2. QED BY <4>1, <3>1, <2>3, KnownDistance
    <3>3. CASE Distance(f, e) >= Window
      <4>1. CASE f.ring = <<>>
        <5>1. q = Resynchronise(f, e)
          BY <1>4, <2>5, <3>3, <4>1 DEF handle_channel_envelope, f
        <5>2. RxInv(q, n) /\ Continues(f, q)
          BY <5>1, <4>1, <3>1, <2>3, ResynchroniseKeepsInv
        <5>3. q.delivered \in Seq(Nat)
          BY <5>2, CoreFacts DEF RxInv
        <5>4. QED BY <5>2, <5>3, <2>2, <2>3, <1>0, ContinuesTransitive
      <4>2. CASE f.ring # <<>>
        <5>1. q = f
          BY <1>4, <2>5, <3>3, <4>2 DEF handle_channel_envelope, f
        <5>2. QED BY <5>1, <2>2
      <4>3. QED BY <4>1, <4>2
    <3>4. CASE ~(Distance(f, e) >= Window)
      <4>1. e.index \in Expected(f)..(Expected(f) + Window - 1)
        BY <3>1, <3>2, <3>4, <2>3, <1>1, <1>2
      <4>2. CASE IsBuffered(f, e)
        <5>1. q = f
          BY <1>4, <2>5, <3>4, <4>2 DEF handle_channel_envelope, f
        <5>2. QED BY <5>1, <2>2
      <4>3. CASE ~IsBuffered(f, e)
        <5>1. q = BufferAndDeliver(f, e)
          BY <1>4, <2>5, <3>4, <4>3 DEF handle_channel_envelope, f
        <5>2. RxInv(q, n) /\ Continues(f, q)
          BY <5>1, <4>1, <4>3, <2>3, BufferAndDeliverKeepsInv
        <5>3. q.delivered \in Seq(Nat)
          BY <5>2, CoreFacts DEF RxInv
        <5>4. QED BY <5>2, <5>3, <2>2, <2>3, <1>0, ContinuesTransitive
      <4>4. QED BY <4>2, <4>3
    <3>5. QED BY <3>3, <3>4
  <2>6. QED BY <2>4, <2>5
<1>5. QED BY <1>3, <1>4
-----------------------------------------------------------------------------
(* The specification.  RingHoldsBack is not inductive: that the ring stays *)
(* ahead of the log rests on the distances being unambiguous, which rests  *)
(* on where the sender, the packets in flight and the receiver can be      *)
(* relative to one another.                                                *)

NetworkOK ==
  \A e \in network : Genuine(e, sent) /\ sent <= e.index + MaxAge

IInv ==
  /\ sent \in Nat
  /\ next_channel_sequence = sent % Modulus
  /\ NetworkOK
  /\ RxInv(rx, sent)
  /\ sent <= Expected(rx) + MaxLead

\* The inductive invariant holds initially.
LEMMA InitIInv == Init => IInv
<1> SUFFICES ASSUME Init PROVE IInv
  OBVIOUS
<1>1. /\ rx.next = 0 /\ rx.ring = <<>> /\ rx.stall = "none" /\ rx.delivered = <<>>
      /\ sent = 0 /\ next_channel_sequence = 0 /\ network = {}
      /\ rx = RxInit
  BY DEF Init, RxInit
<1>2. Expected(rx) = 0
  BY <1>1 DEF Expected
<1>3. 0 % Modulus = 0 /\ 0 \in Sequences
  BY ModulusIsNat DEF Sequences
<1>4. rx \in RxType
  BY <1>1, <1>3 DEF RxInit, RxType
<1>5. LogOK(rx, sent)
  BY <1>1, <1>2 DEF LogOK, Stream!Increasing
<1>6. RingOK(rx, sent)
  BY <1>1 DEF RingOK
<1>7. RxInv(rx, sent)
  BY <1>1, <1>2, <1>3, <1>4, <1>5, <1>6 DEF RxInv, Core
<1>8. QED BY <1>1, <1>2, <1>3, <1>7, SequenceSpace DEF IInv, NetworkOK

\* More messages sent leave the receiver's invariant as it was.
LEMMA RxInvGrows ==
  ASSUME NEW r, NEW n \in Nat, RxInv(r, n)
  PROVE RxInv(r, n + 1)
<1>1. Core(r, n) /\ Expected(r) \in Nat
  BY CoreFacts DEF RxInv
<1>2. LogOK(r, n + 1)
  BY <1>1 DEF Core, LogOK
<1>3. RingOK(r, n + 1)
  <2>1. ASSUME NEW k \in 1..Len(r.ring) PROVE Genuine(r.ring[k], n + 1)
    <3>1. r.ring[k].index \in Nat /\ r.ring[k].index < n
      BY <1>1, CoreFacts
    <3>2. Genuine(r.ring[k], n)
      BY <1>1 DEF Core, RingOK
    <3>3. r.ring[k].index < n + 1
      BY <3>1
    <3>4. QED BY <3>2, <3>3 DEF Genuine
  <2>2. QED BY <2>1, <1>1 DEF Core, RingOK
<1>4. QED BY <1>1, <1>2, <1>3 DEF RxInv, Core

\* What is still in the network was there, and is not older than MaxAge.
LEMMA YoungMember ==
  ASSUME NEW S, NEW count, NEW e \in Young(S, count)
  PROVE  e \in S /\ count - e.index <= MaxAge
BY Zenon DEF Young

\* Both forms of channel_raw_packet, up to what they put into the network.
LEMMA TakeSequenceKeepsIInv ==
  ASSUME IInv, MaySend, TakeSequence, UNCHANGED rx,
         network' \subseteq Young(network \cup {[sequence |-> next_channel_sequence,
                                                index |-> sent]}, sent + 1)
  PROVE IInv'
<1>1. sent \in Nat /\ sent' = sent + 1 /\ rx' = rx
  BY DEF IInv, TakeSequence
<1>2. Expected(rx) \in Nat /\ MaxLead \in Nat /\ MaxAge \in Nat /\ MaxAge >= 1
  BY CoreFacts, SequenceSpace DEF IInv, RxInv
<1>3. next_channel_sequence' = sent' % Modulus
  BY <1>1, NextSequence DEF IInv, TakeSequence
<1>4. RxInv(rx', sent')
  BY <1>1, RxInvGrows DEF IInv
<1>5. sent' <= Expected(rx') + MaxLead
  BY <1>1, <1>2 DEF MaySend
<1>6. NetworkOK'
  <2> SUFFICES ASSUME NEW e \in network'
               PROVE Genuine(e, sent') /\ sent' <= e.index + MaxAge
    BY DEF NetworkOK
  <2>1. /\ (sent + 1) - e.index <= MaxAge
        /\ e \in network \/ e = [sequence |-> next_channel_sequence, index |-> sent]
    <3> DEFINE last == [sequence |-> next_channel_sequence, index |-> sent]
    <3>1. e \in Young(network \cup {last}, sent + 1)
      OBVIOUS
    <3> HIDE DEF last
    <3>2. e \in network \cup {last} /\ (sent + 1) - e.index <= MaxAge
      BY <3>1, YoungMember, Zenon
    <3>3. e \in network \/ e = last
      BY <3>2
    <3>4. QED BY <3>2, <3>3, Zenon DEF last
  <2>2. e \in Envelopes /\ e.sequence = e.index % Modulus /\ e.index < sent + 1
    <3>1. CASE e \in network
      <4>1. Genuine(e, sent)
        BY <3>1 DEF IInv, NetworkOK
      <4>2. e \in Envelopes /\ e.sequence = e.index % Modulus /\ e.index < sent
        BY <4>1 DEF Genuine
      <4>3. e.index \in Nat
        BY <4>2, EnvelopeFields
      <4>4. QED BY <4>2, <4>3, <1>1
    <3>2. CASE e = [sequence |-> next_channel_sequence, index |-> sent]
      <4>1. next_channel_sequence \in Sequences
        BY <1>1, ModInSequences DEF IInv
      <4>2. QED BY <3>2, <4>1, <1>1 DEF IInv, Envelopes
    <3>3. QED BY <2>1, <3>1, <3>2
  <2>3. e.index \in Nat
    BY <2>2, EnvelopeFields
  <2>4. QED BY <2>1, <2>2, <2>3, <1>1, <1>2 DEF Genuine
<1>7. QED BY <1>1, <1>3, <1>4, <1>5, <1>6 DEF IInv

\* Receiving a channel packet preserves the inductive invariant and only extends
\* the log.
LEMMA ReceiveKeepsIInv ==
  ASSUME IInv, NEW e \in network, Receive(e)
  PROVE IInv' /\ Continues(rx, rx')
<1>1. /\ rx' = handle_channel_envelope(rx, e) /\ network' \subseteq network
      /\ sent' = sent /\ next_channel_sequence' = next_channel_sequence
  BY DEF Receive
<1>2. sent \in Nat /\ RxInv(rx, sent) /\ Genuine(e, sent)
      /\ sent <= e.index + MaxAge /\ sent <= Expected(rx) + MaxLead
  BY DEF IInv, NetworkOK
<1>3. Expected(rx) \in Nat /\ Expected(rx) <= sent /\ rx.delivered \in Seq(Nat)
  BY <1>2, CoreFacts DEF RxInv, LogOK
<1>4. e.index \in Nat /\ e.index < sent
  BY <1>2, EnvelopeFields DEF Genuine
<1>5. Expected(rx) <= e.index + HalfModulus /\ e.index < Expected(rx) + Modulus
  BY <1>2, <1>3, <1>4, SequenceSpace DEF Modulus
<1>6. RxInv(rx', sent) /\ Continues(rx, rx')
  BY <1>1, <1>2, <1>5, HandlerKeepsInv
<1>7. Expected(rx') \in Nat /\ Expected(rx) <= Expected(rx')
  BY <1>2, <1>6, CoreFacts DEF RxInv, Continues
<1>8. sent <= Expected(rx') + MaxLead
  BY <1>2, <1>3, <1>7, SequenceSpace
<1>9. NetworkOK'
  BY <1>1 DEF NetworkOK, IInv
<1>10. QED BY <1>1, <1>2, <1>6, <1>8, <1>9 DEF IInv

\* Every step preserves the inductive invariant.
LEMMA NextKeepsIInv == IInv /\ [Next]_vars => IInv'
<1> SUFFICES ASSUME IInv, [Next]_vars PROVE IInv'
  OBVIOUS
<1>1. CASE channel_raw_packet
  BY <1>1, TakeSequenceKeepsIInv DEF channel_raw_packet
<1>2. CASE channel_raw_packet_refused
  <2>1. network' \subseteq Young(network \cup {[sequence |-> next_channel_sequence,
                                                index |-> sent]}, sent + 1)
    BY <1>2 DEF channel_raw_packet_refused, Young
  <2>2. QED BY <1>2, <2>1, TakeSequenceKeepsIInv DEF channel_raw_packet_refused
<1>3. ASSUME NEW e \in network, Receive(e) PROVE IInv'
  BY <1>3, ReceiveKeepsIInv
<1>4. ASSUME NEW e \in network, Lose(e) PROVE IInv'
  BY <1>4 DEF Lose, IInv, NetworkOK
<1>5. CASE StallExpires
  <2>1. /\ rx' = [rx EXCEPT !.stall = "expired"] /\ rx.stall = "running"
        /\ UNCHANGED <<next_channel_sequence, sent, network>>
    BY <1>5 DEF StallExpires
  <2>2. rx \in RxType /\ Core(rx, sent) /\ sent \in Nat
    BY DEF IInv, RxInv, Core
  <2>3. /\ rx'.ring = rx.ring /\ rx'.next = rx.next /\ rx'.stall = "expired"
        /\ rx'.delivered = rx.delivered /\ rx' \in RxType
    BY <2>1, <2>2 DEF RxType
  <2>4. Expected(rx') = Expected(rx)
    BY <2>3 DEF Expected
  <2>5. LogOK(rx', sent) /\ RingOK(rx', sent)
    BY <2>2, <2>3, <2>4 DEF Core, LogOK, RingOK
  <2>6. Core(rx', sent)
    BY <2>2, <2>3, <2>4, <2>5 DEF Core
  <2>7. rx.ring # <<>>
    BY <2>1 DEF IInv, RxInv
  <2>8. RxInv(rx', sent)
    BY <2>3, <2>4, <2>6, <2>7 DEF IInv, RxInv
  <2>9. QED BY <2>1, <2>4, <2>8 DEF IInv, NetworkOK
<1>6. CASE UNCHANGED vars
  BY <1>6 DEF vars, IInv, NetworkOK
<1>7. QED BY <1>1, <1>2, <1>3, <1>4, <1>5, <1>6 DEF Next

\* The invariant that everything below follows from.
THEOREM Invariance == Spec => []IInv
BY InitIInv, NextKeepsIInv, PTL DEF Spec

\* Link's channel fields keep their types, for every sequence space.
THEOREM TypeCorrect == Spec => []TypeOK
<1>1. IInv => TypeOK
  <2> SUFFICES ASSUME IInv PROVE TypeOK
    OBVIOUS
  <2>1. sent \in Nat /\ next_channel_sequence \in Sequences
    BY ModInSequences DEF IInv
  <2>2. network \subseteq Envelopes
    BY DEF IInv, NetworkOK, Genuine
  <2>3. QED BY <2>1, <2>2 DEF IInv, RxInv, Core, RxType, TypeOK
<1>2. QED BY <1>1, Invariance, PTL

\* Link::handle_channel_envelope holds back only what it must, and its stall
\* clock runs exactly while it does, for every sequence space and window.
THEOREM RingSafe == Spec => []RingHoldsBack
<1>1. IInv => RingHoldsBack
  <2> SUFFICES ASSUME IInv PROVE RingHoldsBack
    OBVIOUS
  <2>1. sent \in Nat /\ RxInv(rx, sent) /\ Core(rx, sent)
    BY DEF IInv, RxInv
  <2>2. \A k \in 1..Len(rx.ring) :
           rx.ring[k].index \in (Expected(rx) + 1)..(Expected(rx) + Window - 1)
    <3> SUFFICES ASSUME NEW k \in 1..Len(rx.ring)
                 PROVE rx.ring[k].index \in
                         (Expected(rx) + 1)..(Expected(rx) + Window - 1)
      OBVIOUS
    <3>1. /\ rx.ring[k].index \in Nat /\ rx.ring[k].index >= Expected(rx)
          /\ rx.ring[k].index < Expected(rx) + Window
          /\ Expected(rx) \in Nat /\ Window \in Nat
      BY <2>1, CoreFacts
    <3>2. rx.ring[k].index # Expected(rx)
      BY <2>1 DEF RxInv
    <3>3. QED BY <3>1, <3>2
  <2>3. QED BY <2>1, <2>2 DEF RxInv, Core, RingOK, RingHoldsBack
<1>2. QED BY <1>1, Invariance, PTL

\* The Channel events of a link implement OrderedStream: an increasing
\* selection of the sent messages, for every sequence space and window, and
\* whatever the network does within MaxLead and MaxAge.
THEOREM ChannelImplementsStream == Spec => StreamSpec
<1>1. Init => Stream!Init
  BY DEF Init, RxInit, Stream!Init
<1>2. IInv /\ IInv' /\ [Next]_vars => [Stream!Next]_(Stream!vars)
  <2> SUFFICES ASSUME IInv, IInv', [Next]_vars
               PROVE [Stream!Next]_(Stream!vars)
    OBVIOUS
  <2>1. CASE channel_raw_packet \/ channel_raw_packet_refused
    BY <2>1 DEF channel_raw_packet, channel_raw_packet_refused, TakeSequence,
                Stream!Next, Stream!Send
  <2>2. ASSUME NEW e \in network, Receive(e) PROVE Stream!Next
    <3>1. sent' = sent /\ Continues(rx, rx')
      BY <2>2, ReceiveKeepsIInv DEF Receive
    <3>2. /\ sent' \in Nat /\ LogOK(rx', sent') /\ rx'.delivered \in Seq(Nat)
          /\ Expected(rx') \in Nat
      <4>1. Core(rx', sent') /\ sent' \in Nat
        BY DEF IInv, RxInv
      <4>2. QED BY <4>1, CoreFacts
    <3>3. \A k \in 1..Len(rx'.delivered) : rx'.delivered[k] \in 0..(sent - 1)
      <4> SUFFICES ASSUME NEW k \in 1..Len(rx'.delivered)
                   PROVE rx'.delivered[k] \in 0..(sent - 1)
        OBVIOUS
      <4>1. rx'.delivered[k] \in Nat
        BY <3>2, SeqElements
      <4>2. rx'.delivered[k] < Expected(rx') /\ Expected(rx') <= sent
        BY <3>1, <3>2 DEF LogOK
      <4>3. QED BY <4>1, <4>2, <3>1, <3>2
    <3>4. QED BY <3>1, <3>2, <3>3
              DEF Continues, LogOK, Stream!Next, Stream!Deliver
  <2>3. ASSUME NEW e \in network, Lose(e) PROVE UNCHANGED Stream!vars
    BY <2>3 DEF Lose, Stream!vars
  <2>4. CASE StallExpires
    <3>1. rx'.delivered = rx.delivered /\ sent' = sent
      BY <2>4 DEF StallExpires, IInv, RxInv, Core, RxType
    <3>2. QED BY <3>1 DEF Stream!vars
  <2>5. CASE UNCHANGED vars
    BY <2>5 DEF vars, Stream!vars
  <2>6. QED BY <2>1, <2>2, <2>3, <2>4, <2>5 DEF Next
<1>3. QED BY <1>1, <1>2, Invariance, PTL DEF Spec, StreamSpec, Stream!Spec

-----------------------------------------------------------------------------
(* What becomes of the messages that the receiver has and gets.            *)

\* What is appended to the log is delivered.
LEMMA DeliveredConcat ==
  ASSUME NEW r, NEW q, NEW batch \in Seq(Nat), r.delivered \in Seq(Nat),
         q.delivered = r.delivered \o batch
  PROVE /\ Delivered(r) \subseteq Delivered(q)
        /\ \A k \in 1..Len(batch) : batch[k] \in Delivered(q)
<1> DEFINE d == r.delivered
           t == d \o batch
<1>1. /\ Len(t) = Len(d) + Len(batch) /\ Len(d) \in Nat /\ Len(batch) \in Nat
      /\ \A k \in 1..Len(d) : t[k] = d[k] /\ k \in 1..Len(t)
      /\ \A k \in 1..Len(batch) : t[Len(d) + k] = batch[k] /\ Len(d) + k \in 1..Len(t)
  OBVIOUS
<1>2. q.delivered = t
  OBVIOUS
<1> HIDE DEF t
<1>3. Delivered(r) \subseteq Delivered(q)
  BY <1>1, <1>2 DEF Delivered
<1>4. \A k \in 1..Len(batch) : batch[k] \in Delivered(q)
  BY <1>1, <1>2 DEF Delivered
<1>5. QED BY <1>3, <1>4

\* A flush delivers the whole ring.
LEMMA FlushDelivers ==
  ASSUME NEW r, NEW n \in Nat, Core(r, n), r.ring # <<>>
  PROVE Held(r) \subseteq Delivered(flush_channel_rx_ring(r))
<1> DEFINE q == flush_channel_rx_ring(r)
           ring == r.ring
           batch == Indices(ring)
<1>1. ring \in Seq(Envelopes) /\ r.delivered \in Seq(Nat)
  BY CoreFacts
<1>2. /\ batch \in Seq(Nat) /\ Len(batch) = Len(ring)
      /\ \A k \in 1..Len(ring) : batch[k] = ring[k].index
  BY <1>1, RingIndices DEF Core, RingOK
<1>3. q.delivered = r.delivered \o batch
  BY DEF flush_channel_rx_ring
<1> HIDE DEF q, batch
<1>4. \A k \in 1..Len(batch) : batch[k] \in Delivered(q)
  BY <1>1, <1>2, <1>3, DeliveredConcat
<1>5. QED BY <1>2, <1>4 DEF Held, q

\* An insertion keeps the ring and adds the envelope.
LEMMA InsertHolds ==
  ASSUME NEW r, NEW n \in Nat, Core(r, n), NEW e, Genuine(e, n),
         e.index \in Expected(r)..(Expected(r) + Window - 1), ~IsBuffered(r, e)
  PROVE LET q == [r EXCEPT !.ring = RingInsert(r.ring, InsertionPoint(r, e), e)]
        IN  Held(r) \cup {e.index} \subseteq Held(q)
<1> DEFINE p == InsertionPoint(r, e)
           ring == r.ring
           new == RingInsert(ring, p, e)
           q == [r EXCEPT !.ring = new]
<1>1. p \in 0..Len(ring)
  BY InsertionSplits
<1>2. Len(ring) \in Nat /\ r \in RxType
  BY CoreFacts
<1> HIDE DEF p
<1>3. /\ Len(new) = Len(ring) + 1
      /\ \A k \in 1..(Len(ring) + 1) :
           new[k] = IF k <= p THEN ring[k] ELSE IF k = p + 1 THEN e ELSE ring[k - 1]
  BY <1>2 DEF RingInsert
<1>4. q.ring = new
  BY <1>2 DEF RxType
<1> HIDE DEF new, q
<1>5. e.index \in Held(q)
  <2>1. p + 1 \in 1..Len(new) /\ new[p + 1] = e
    BY <1>1, <1>2, <1>3
  <2>2. QED BY <2>1, <1>4 DEF Held
<1>6. ASSUME NEW k \in 1..Len(ring) PROVE ring[k].index \in Held(q)
  <2>1. CASE k <= p
    <3>1. k \in 1..Len(new) /\ new[k] = ring[k]
      BY <2>1, <1>2, <1>3
    <3>2. QED BY <3>1, <1>4 DEF Held
  <2>2. CASE k > p
    <3>1. /\ k + 1 \in 1..Len(new) /\ ~(k + 1 <= p) /\ k + 1 # p + 1
          /\ (k + 1) - 1 = k
      BY <2>2, <1>1, <1>2, <1>3
    <3>2. new[k + 1] = ring[k]
      BY <3>1, <1>3
    <3>3. QED BY <3>1, <3>2, <1>4 DEF Held
  <2>3. QED BY <2>1, <2>2, <1>1, <1>2
<1>7. QED BY <1>5, <1>6 DEF Held, q, new, p

\* What leaves the ring in deliver_contiguous_channel_rx is delivered.
LEMMA DeliverAccounts ==
  ASSUME NEW r, NEW n \in Nat, Core(r, n)
  PROVE LET q == deliver_contiguous_channel_rx(r)
        IN  Held(r) \subseteq Held(q) \cup Delivered(q)
<1> DEFINE q == deliver_contiguous_channel_rx(r)
           ring == r.ring
           count == RunLength(r)
           run == SubSeq(ring, 1, count)
           rest == SubSeq(ring, count + 1, Len(ring))
           batch == Indices(run)
<1>1. /\ Len(ring) \in Nat /\ r \in RxType /\ ring \in Seq(Envelopes)
      /\ r.delivered \in Seq(Nat)
      /\ \A k \in 1..Len(ring) : ring[k] \in Envelopes
      /\ \A j, k \in 1..Len(ring) : j < k => ring[j].index < ring[k].index
  BY CoreFacts
<1>2. count \in 0..Len(ring)
  BY RunIsContiguous
<1> HIDE DEF count
<1>3. /\ run \in Seq(Envelopes) /\ Len(run) = count
      /\ \A k \in 1..count : run[k] = ring[k]
  BY <1>1, <1>2
<1>4. /\ Len(rest) = Len(ring) - count
      /\ \A k \in 1..Len(rest) : rest[k] = ring[count + k]
  BY <1>1, <1>2
<1>5. q.ring = rest /\ q.delivered = r.delivered \o batch
  BY <1>1 DEF deliver_contiguous_channel_rx, RxType, count
<1> HIDE DEF q, run, rest
<1>6. /\ batch \in Seq(Nat) /\ Len(batch) = count
      /\ \A k \in 1..count : batch[k] = ring[k].index
  <2>1. \A j, k \in 1..Len(run) : j < k => run[j].index < run[k].index
    BY <1>1, <1>2, <1>3
  <2>2. QED BY <2>1, <1>3, RingIndices
<1> HIDE DEF batch
<1>7. \A k \in 1..count : ring[k].index \in Delivered(q)
  <2>1. \A k \in 1..Len(batch) : batch[k] \in Delivered(q)
    BY <1>1, <1>5, <1>6, DeliveredConcat
  <2>2. QED BY <2>1, <1>6
<1>8. ASSUME NEW k \in 1..Len(ring), k > count PROVE ring[k].index \in Held(q)
  <2>1. k - count \in 1..Len(rest) /\ count + (k - count) = k
    BY <1>1, <1>2, <1>4, <1>8
  <2>2. rest[k - count] = ring[k]
    BY <2>1, <1>4
  <2>3. QED BY <2>1, <2>2, <1>5 DEF Held
<1>9. ASSUME NEW k \in 1..Len(ring) PROVE ring[k].index \in Held(q) \cup Delivered(q)
  BY <1>1, <1>2, <1>7, <1>8
<1>10. QED BY <1>9 DEF Held, q

\* The tail of the handler keeps or delivers both the ring and the arrival.
LEMMA BufferAndDeliverAccounts ==
  ASSUME NEW r, NEW n \in Nat, Core(r, n), NEW e, Genuine(e, n),
         e.index \in Expected(r)..(Expected(r) + Window - 1), ~IsBuffered(r, e)
  PROVE LET q == BufferAndDeliver(r, e)
        IN  Held(r) \cup {e.index} \subseteq Held(q) \cup Delivered(q)
<1> DEFINE ins == [r EXCEPT !.ring = RingInsert(r.ring, InsertionPoint(r, e), e)]
           after == deliver_contiguous_channel_rx(ins)
           q == [after EXCEPT !.stall = StallClock(r, after)]
<1>1. Core(ins, n) /\ Held(r) \cup {e.index} \subseteq Held(ins)
  BY InsertKeepsCore, InsertHolds
<1> HIDE DEF ins
<1>2. Core(after, n) /\ Held(ins) \subseteq Held(after) \cup Delivered(after)
  BY <1>1, DeliverKeepsCore, DeliverAccounts
<1> HIDE DEF after
<1>3. q.ring = after.ring /\ q.delivered = after.delivered
  BY <1>2 DEF Core, RxType
<1>4. Held(q) = Held(after) /\ Delivered(q) = Delivered(after)
  BY <1>3 DEF Held, Delivered
<1> HIDE DEF q
<1>5. QED BY <1>1, <1>2, <1>4 DEF BufferAndDeliver, q, after, ins

\* An arrival taken for a duplicate is one: the same message is in the ring.
LEMMA BufferedIsHeld ==
  ASSUME NEW r, NEW n \in Nat, Core(r, n), NEW e, Genuine(e, n),
         e.index \in Expected(r)..(Expected(r) + Window - 1), IsBuffered(r, e)
  PROVE e.index \in Held(r)
<1> DEFINE p == InsertionPoint(r, e)
           S == {i \in 0..Len(r.ring) :
                   i < Len(r.ring) => Distance(r, r.ring[i + 1]) >= Distance(r, e)}
<1>1. Len(r.ring) \in Nat /\ Expected(r) \in Nat /\ Window \in Nat
      /\ Window < Modulus /\ Modulus \in Nat
  BY CoreFacts
<1>2. p \in 0..Len(r.ring)
  <2>1. Len(r.ring) \in S /\ S \subseteq Nat
    BY <1>1
  <2>2. p = First(S)
    BY DEF InsertionPoint
  <2> HIDE DEF S
  <2>3. p \in S
    BY <2>1, <2>2, FirstIsLeast
  <2>4. QED BY <2>3 DEF S
<1>3. p < Len(r.ring) /\ r.ring[p + 1].sequence = e.sequence
  BY DEF IsBuffered
<1> HIDE DEF p
<1>4. p + 1 \in 1..Len(r.ring)
  BY <1>1, <1>2, <1>3
<1> DEFINE o == r.ring[p + 1]
<1>5. /\ o.index \in Nat /\ o.sequence = o.index % Modulus
      /\ o.index >= Expected(r) /\ o.index < Expected(r) + Window
  BY <1>4, CoreFacts
<1>6. e.index \in Nat /\ e.sequence = e.index % Modulus
  BY EnvelopeFields DEF Genuine
<1>7. o.sequence = e.sequence
  BY <1>3
<1>8. o.index \in Held(r)
  BY <1>4 DEF Held
<1> HIDE DEF o
<1>9. o.index < e.index + Modulus /\ e.index < o.index + Modulus
  BY <1>1, <1>5, <1>6
<1>10. o.index = e.index
  BY <1>5, <1>6, <1>7, <1>9, SameSequence
<1>11. QED BY <1>8, <1>10

\* ... and what was delivered before stays so.
LEMMA BufferAndDeliverContinues ==
  ASSUME NEW r, NEW n \in Nat, Core(r, n), NEW e, Genuine(e, n),
         e.index \in Expected(r)..(Expected(r) + Window - 1), ~IsBuffered(r, e)
  PROVE Delivered(r) \subseteq Delivered(BufferAndDeliver(r, e))
<1> DEFINE ins == [r EXCEPT !.ring = RingInsert(r.ring, InsertionPoint(r, e), e)]
           after == deliver_contiguous_channel_rx(ins)
           q == [after EXCEPT !.stall = StallClock(r, after)]
<1>1. Core(ins, n) /\ ins.delivered = r.delivered
  BY InsertKeepsCore
<1> HIDE DEF ins
<1>2. Core(after, n) /\ Continues(ins, after)
  BY <1>1, DeliverKeepsCore
<1> HIDE DEF after
<1>3. q.delivered = after.delivered
  BY <1>2 DEF Core, RxType
<1>4. /\ r.delivered \in Seq(Nat) /\ after.delivered \in Seq(Nat)
      /\ Len(r.delivered) \in Nat /\ Len(after.delivered) \in Nat
  BY <1>2, CoreFacts, SeqElements
<1>5. /\ Len(r.delivered) <= Len(after.delivered)
      /\ \A k \in 1..Len(r.delivered) : after.delivered[k] = r.delivered[k]
  BY <1>1, <1>2 DEF Continues
<1> HIDE DEF q
<1>6. Delivered(r) \subseteq Delivered(q)
  <2> SUFFICES ASSUME NEW k \in 1..Len(r.delivered)
               PROVE r.delivered[k] \in Delivered(q)
    BY DEF Delivered
  <2>1. k \in 1..Len(q.delivered) /\ q.delivered[k] = r.delivered[k]
    BY <1>3, <1>4, <1>5
  <2>2. QED BY <2>1 DEF Delivered
<1>7. QED BY <1>6 DEF BufferAndDeliver, q, after, ins

\* The whole handler: what was held is held or delivered afterwards, and an
\* arrival within half the space is too, unless the ring was given up for it.
LEMMA HandlerAccounts ==
  ASSUME NEW r, NEW n \in Nat, RxInv(r, n), NEW e, Genuine(e, n),
         Expected(r) <= e.index + HalfModulus, e.index < Expected(r) + Modulus
  PROVE LET q == handle_channel_envelope(r, e)
        IN  /\ Held(r) \subseteq Held(q) \cup Delivered(q)
            /\ e.index \in Expected(r)..(Expected(r) + HalfModulus - 1)
               => \/ e.index \in Held(q) \cup Delivered(q)
                  \/ e.index < Expected(q) /\ Held(r) \subseteq Delivered(q)
<1> DEFINE f == Recovered(r, e)
           q == handle_channel_envelope(r, e)
           Near == e.index \in Expected(r)..(Expected(r) + HalfModulus - 1)
<1>0. /\ Core(r, n) /\ r.delivered \in Seq(Nat) /\ Expected(r) \in Nat
      /\ r.next = Expected(r) % Modulus
  BY CoreFacts DEF RxInv
<1>1. e.index \in Nat
  BY EnvelopeFields DEF Genuine
<1>2. /\ Window \in Nat \ {0} /\ HalfModulus \in Nat /\ Window <= HalfModulus
      /\ Modulus = 2 * HalfModulus
  BY SequenceSpace DEF Modulus
<1>3. CASE Late(r, e)
  <2>1. q = r
    BY <1>3 DEF handle_channel_envelope
  <2>2. ASSUME Near PROVE FALSE
    <3>1. e.index >= Expected(r) /\ e.index < Expected(r) + HalfModulus
      BY <2>2, <1>0, <1>1, <1>2
    <3>2. Distance(r, e) = e.index - Expected(r)
      BY <3>1, <1>0, KnownDistance
    <3>3. QED BY <3>1, <3>2, <1>0, <1>1, <1>2, <1>3 DEF Late
  <2>3. QED BY <2>1, <2>2
<1>4. CASE ~Late(r, e)
  <2>1. e.index >= Expected(r)
    BY <1>0, <1>1, <1>4, KnownLate
  <2>2. /\ Core(f, n) /\ Expected(r) <= Expected(f)
        /\ Expected(f) <= Expected(r) + Window
        /\ \/ f = r /\ ~RecoveryDue(r, e)
           \/ f.ring = <<>> /\ Held(r) \subseteq Delivered(f)
    <3>1. CASE RecoveryDue(r, e)
      <4>1. f = flush_channel_rx_ring(r) /\ r.ring # <<>>
        BY <3>1 DEF Recovered, RecoveryDue
      <4>2. /\ Core(f, n) /\ f.ring = <<>> /\ Continues(r, f)
            /\ Expected(f) <= Expected(r) + Window
        BY <4>1, <1>0, FlushKeepsCore
      <4>3. Held(r) \subseteq Delivered(f)
        BY <4>1, <1>0, FlushDelivers
      <4>4. QED BY <4>2, <4>3 DEF Continues
    <3>2. CASE ~RecoveryDue(r, e)
      <4>1. f = r
        BY <3>2 DEF Recovered
      <4>2. QED BY <4>1, <3>2, <1>0, <1>2
    <3>3. QED BY <3>1, <3>2
  <2> HIDE DEF f
  <2>3. /\ f.delivered \in Seq(Nat) /\ Expected(f) \in Nat
        /\ f.next = Expected(f) % Modulus
    BY <2>2, CoreFacts
  <2>4. Held(r) \subseteq Held(f) \cup Delivered(f)
    BY <2>2
  <2>5. CASE Late(f, e)
    <3>1. q = f
      BY <1>4, <2>5 DEF handle_channel_envelope, f
    <3>2. Held(r) \subseteq Delivered(f)
      BY <2>2, <2>5, <1>4
    <3>3. ASSUME Near PROVE e.index < Expected(f)
      <4> SUFFICES ASSUME Expected(f) <= e.index PROVE FALSE
        BY <2>3, <1>1
      <4>1. e.index < Expected(f) + HalfModulus /\ e.index < Expected(f) + Modulus
        BY <3>3, <2>2, <2>3, <1>0, <1>1, <1>2
      <4>2. Distance(f, e) = e.index - Expected(f)
        BY <4>1, <2>3, KnownDistance
      <4>3. QED BY <4>1, <4>2, <2>3, <2>5, <1>1, <1>2 DEF Late
    <3>4. QED BY <3>1, <3>2, <3>3
  <2>6. CASE ~Late(f, e)
    <3>1. e.index >= Expected(f)
      <4>1. Expected(f) <= e.index + HalfModulus
        BY <2>1, <2>2, <2>3, <1>0, <1>1, <1>2
      <4>2. QED BY <4>1, <2>3, <2>6, <1>1, KnownLate
    <3>2. Distance(f, e) = e.index - Expected(f)
      <4>1. e.index < Expected(f) + Modulus
        BY <2>2, <2>3, <1>0, <1>1, <1>2
      <4>2. QED BY <4>1, <3>1, <2>3, KnownDistance
    <3>3. CASE Distance(f, e) >= Window
      <4>1. f.ring = <<>>
        BY <3>3, <2>2 DEF RecoveryDue
      <4>2. q = Resynchronise(f, e)
        BY <1>4, <2>6, <3>3, <4>1 DEF handle_channel_envelope, f
      <4>3. q.delivered = f.delivered \o <<e.index>>
        BY <4>2, <2>2 DEF Resynchronise, Core, RxType
      <4> DEFINE batch == <<e.index>>
      <4>4. batch \in Seq(Nat) /\ 1 \in 1..Len(batch) /\ batch[1] = e.index
        BY <1>1
      <4> HIDE DEF batch, q
      <4>5. q.delivered = f.delivered \o batch
        BY <4>3 DEF batch
      <4>6. /\ Delivered(f) \subseteq Delivered(q)
            /\ \A k \in 1..Len(batch) : batch[k] \in Delivered(q)
        BY <4>4, <4>5, <2>3, DeliveredConcat
      <4>7. Held(f) = {}
        BY <4>1 DEF Held
      <4>8. e.index \in Delivered(q) /\ Held(r) \subseteq Delivered(q)
        BY <4>4, <4>6, <4>7, <2>4
      <4>9. QED BY <4>8 DEF q
    <3>4. CASE ~(Distance(f, e) >= Window)
      <4>1. e.index \in Expected(f)..(Expected(f) + Window - 1)
        BY <3>1, <3>2, <3>4, <2>3, <1>1, <1>2
      <4>2. CASE IsBuffered(f, e)
        <5>1. q = f
          BY <1>4, <2>6, <3>4, <4>2 DEF handle_channel_envelope, f
        <5>2. e.index \in Held(f)
          BY <4>1, <4>2, <2>2, BufferedIsHeld
        <5>3. QED BY <5>1, <5>2, <2>4
      <4>3. CASE ~IsBuffered(f, e)
        <5>1. q = BufferAndDeliver(f, e)
          BY <1>4, <2>6, <3>4, <4>3 DEF handle_channel_envelope, f
        <5>2. Held(f) \cup {e.index} \subseteq Held(q) \cup Delivered(q)
          BY <5>1, <4>1, <4>3, <2>2, BufferAndDeliverAccounts
        <5>3. Delivered(f) \subseteq Delivered(q)
          BY <5>1, <4>1, <4>3, <2>2, BufferAndDeliverContinues
        <5> HIDE DEF q
        <5>4. e.index \in Held(q) \cup Delivered(q)
              /\ Held(r) \subseteq Held(q) \cup Delivered(q)
          BY <5>2, <5>3, <2>4
        <5>5. QED BY <5>4 DEF q
      <4>4. QED BY <4>2, <4>3
    <3>5. QED BY <3>3, <3>4
  <2>7. QED BY <2>5, <2>6
<1>5. QED BY <1>3, <1>4

\* Link::handle_channel_envelope loses nothing it could still deliver in order,
\* for every sequence space and window: what the ring holds leaves it only by
\* being delivered, and an arrival is dropped only if the handler delivered
\* something later in the same call.
THEOREM NothingDropped == Spec => KeepsWhatItAccepts
<1> DEFINE Part == Held(rx) \subseteq Held(rx') \cup Delivered(rx')
           Takes(e) == \/ e.index \in Held(rx') \cup Delivered(rx')
                       \/ e.index < Expected(rx') /\ Held(rx) \subseteq Delivered(rx')
           Near(e) == e.index \in Expected(rx)..(Expected(rx) + HalfModulus - 1)
<1>1. IInv /\ [Next]_vars =>
        [ /\ Held(rx) \subseteq Held(rx') \cup Delivered(rx')
          /\ \A e \in network :
               (/\ rx' = handle_channel_envelope(rx, e)
                /\ e.index \in Expected(rx)..(Expected(rx) + HalfModulus - 1))
               => \/ e.index \in Held(rx') \cup Delivered(rx')
                  \/ e.index < Expected(rx') /\ Held(rx) \subseteq Delivered(rx')
        ]_vars
  <2> SUFFICES ASSUME IInv, [Next]_vars
               PROVE Part /\ \A e \in network :
                       (rx' = handle_channel_envelope(rx, e) /\ Near(e)) => Takes(e)
    OBVIOUS
  <2>1. ASSUME NEW e \in network, rx' = handle_channel_envelope(rx, e)
        PROVE Part /\ (Near(e) => Takes(e))
    <3>1. sent \in Nat /\ RxInv(rx, sent) /\ Genuine(e, sent)
          /\ sent <= e.index + MaxAge /\ sent <= Expected(rx) + MaxLead
      BY DEF IInv, NetworkOK
    <3>2. Expected(rx) \in Nat /\ Expected(rx) <= sent
      BY <3>1, CoreFacts DEF RxInv, LogOK
    <3>3. e.index \in Nat /\ e.index < sent
      BY <3>1, EnvelopeFields DEF Genuine
    <3>4. Expected(rx) <= e.index + HalfModulus /\ e.index < Expected(rx) + Modulus
      BY <3>1, <3>2, <3>3, SequenceSpace DEF Modulus
    <3>5. QED BY <2>1, <3>1, <3>4, HandlerAccounts
  <2>2. ASSUME NEW e \in network, Receive(e) PROVE Part
    BY <2>1, <2>2 DEF Receive
  <2>3. ASSUME rx'.ring = rx.ring PROVE Part
    BY <2>3 DEF Held
  <2>4. CASE StallExpires
    <3>1. rx'.ring = rx.ring
      BY <2>4 DEF StallExpires, IInv, RxInv, Core, RxType
    <3>2. QED BY <3>1, <2>1, <2>3
  <2>5. CASE \/ channel_raw_packet \/ channel_raw_packet_refused \/ UNCHANGED vars
             \/ \E e \in network : Lose(e)
    <3>1. rx' = rx
      BY <2>5 DEF channel_raw_packet, channel_raw_packet_refused, Lose, vars
    <3>2. QED BY <3>1, <2>1, <2>3
  <2>6. QED BY <2>1, <2>2, <2>4, <2>5 DEF Next
<1>2. QED BY <1>1, Invariance, PTL DEF Spec, KeepsWhatItAccepts
=============================================================================
