---------------------------- MODULE LinkChannel ----------------------------
(***************************************************************************)
(* The built-in channel of a link (src/src/destination/link.rs): the       *)
(* sender stamps every channel message with a wrapping sequence number,    *)
(* the receiver keeps early messages in a reorder ring and posts a         *)
(* Channel event for each message it delivers.  Nothing is retransmitted:  *)
(* a message that stays missing is given up when the reorder timeout has   *)
(* passed or the ring's window is exceeded.                                *)
(*                                                                         *)
(* One direction of one link is modelled, over a network that loses,       *)
(* duplicates, reorders and delays packets.  A message is identified by    *)
(* its index (0 for the first message, 1 for the second ...), which the    *)
(* code does not know; the code sees only the sequence number.             *)
(***************************************************************************)
EXTENDS Integers, Sequences

CONSTANTS
  HalfModulus,  \* half of CHANNEL_SEQUENCE_MODULUS (32768 in the code)
  Window,       \* CHANNEL_WINDOW_MAX (16384 in the code)
  MaxLead,      \* environment: how far the sender may be ahead of the receiver
  MaxAge        \* environment: a packet is gone once MaxAge more were sent

ASSUME SequenceSpace ==
  /\ HalfModulus \in Nat \ {0}
  /\ Window \in 1..HalfModulus
  /\ MaxLead \in 1..(2 * HalfModulus)
  /\ MaxAge \in 1..HalfModulus

VARIABLES
  next_channel_sequence,  \* sender: sequence number of the next message
  sent,                   \* how many messages took a sequence number
  network,                \* the envelopes in flight
  rx                      \* receiver: its four fields, see RxInit

vars == <<next_channel_sequence, sent, network, rx>>

Modulus == 2 * HalfModulus

Sequences == 0..(Modulus - 1)

Envelopes == [sequence : Sequences, index : Nat]

\* u16::wrapping_add(1) on a sequence number.
WrappingNext(sequence) == (sequence + 1) % Modulus

\* How far sequence lies ahead of base, modulo the sequence space.
channel_sequence_distance(base, sequence) == (sequence + Modulus - base) % Modulus

-----------------------------------------------------------------------------
(* The receiver.  next is next_rx_channel_sequence, ring is                *)
(* channel_rx_ring, stall stands for channel_rx_stall_since: None, set, or *)
(* set more than CHANNEL_REORDER_TIMEOUT ago.  delivered is the log of the *)
(* Channel events posted, as message indices.                              *)

RxInit == [next |-> 0, ring |-> <<>>, stall |-> "none", delivered |-> <<>>]

\* The index that the receiver waits for: the one after the last delivered.
Expected(r) ==
  IF r.delivered = <<>> THEN 0 ELSE r.delivered[Len(r.delivered)] + 1

Distance(r, e) == channel_sequence_distance(r.next, e.sequence)

\* Mutant of Late: the boundary of the half space counts as ahead.
LateExclusive(r, e) == Distance(r, e) > HalfModulus

Late(r, e) == Distance(r, e) >= HalfModulus

Indices(envelopes) == [k \in 1..Len(envelopes) |-> envelopes[k].index]

\* The least element of a set of natural numbers.
First(S) == CHOOSE x \in S : \A y \in S : x <= y

\* Everything buffered is delivered in ring order, gaps are skipped.
flush_channel_rx_ring(r) ==
  IF r.ring = <<>> THEN [r EXCEPT !.stall = "none"]
  ELSE [next |-> WrappingNext(r.ring[Len(r.ring)].sequence),
        ring |-> <<>>,
        stall |-> "none",
        delivered |-> r.delivered \o Indices(r.ring)]

\* The length of the run of buffered envelopes that starts at r.next.
RunLength(r) ==
  First({n \in 0..Len(r.ring) :
           n < Len(r.ring) => r.ring[n + 1].sequence # (r.next + n) % Modulus})

\* Deliver that run; the stall clock is the caller's business.
deliver_contiguous_channel_rx(r) ==
  LET count == RunLength(r) IN
  [r EXCEPT !.next = (r.next + count) % Modulus,
            !.ring = SubSeq(r.ring, count + 1, Len(r.ring)),
            !.delivered = r.delivered \o Indices(SubSeq(r.ring, 1, count))]

\* partition_point: how many buffered envelopes precede e.
InsertionPoint(r, e) ==
  First({p \in 0..Len(r.ring) :
           p < Len(r.ring) => Distance(r, r.ring[p + 1]) >= Distance(r, e)})

IsBuffered(r, e) ==
  LET pos == InsertionPoint(r, e) IN
  pos < Len(r.ring) /\ r.ring[pos + 1].sequence = e.sequence

RingInsert(ring, pos, e) ==
  [k \in 1..(Len(ring) + 1) |->
     IF k <= pos THEN ring[k] ELSE IF k = pos + 1 THEN e ELSE ring[k - 1]]

\* Mutant of StallClock: the clock is not stopped when the ring empties.
StallClockKept(before, after) ==
  IF after.delivered # before.delivered \/ before.stall = "none"
  THEN "running" ELSE before.stall

\* The stall clock after the insertion into `before` led to `after`.
StallClock(before, after) ==
  IF after.ring = <<>> THEN "none"
  ELSE IF after.delivered # before.delivered \/ before.stall = "none"
       THEN "running"
       ELSE before.stall

\* The tail of the handler: e is within the window, buffer it and deliver
\* what has become contiguous.
BufferAndDeliver(r, e) ==
  LET inserted == [r EXCEPT !.ring = RingInsert(r.ring, InsertionPoint(r, e), e)]
      after == deliver_contiguous_channel_rx(inserted)
  IN  [after EXCEPT !.stall = StallClock(r, after)]

\* The stream jumped past the window and nothing is buffered: e is delivered
\* at once and becomes the new position.
Resynchronise(r, e) ==
  [r EXCEPT !.next = WrappingNext(e.sequence),
            !.delivered = r.delivered \o <<e.index>>]

\* Mutant of RecoveryDue: an arrival past the window does not flush the ring.
RecoveryDueOnTimeout(r, e) == r.ring # <<>> /\ r.stall = "expired"

\* Loss recovery is due: something is buffered, and its head has been missing
\* for too long or e does not fit in the window.
RecoveryDue(r, e) ==
  /\ r.ring # <<>>
  /\ r.stall = "expired" \/ Distance(r, e) >= Window

Recovered(r, e) == IF RecoveryDue(r, e) THEN flush_channel_rx_ring(r) ELSE r

\* The receiver after the whole handler ran for envelope e.
handle_channel_envelope(r, e) ==
  LET q == Recovered(r, e) IN
  IF Late(r, e) THEN r
  ELSE IF Late(q, e) THEN q
  ELSE IF Distance(q, e) >= Window
       THEN IF q.ring = <<>> THEN Resynchronise(q, e) ELSE q
  ELSE IF IsBuffered(q, e) THEN q
  ELSE BufferAndDeliver(q, e)

-----------------------------------------------------------------------------
Init ==
  /\ next_channel_sequence = 0
  /\ sent = 0
  /\ network = {}
  /\ rx = RxInit

\* The environment lets the sender take another sequence number only while
\* the receiver is less than MaxLead behind.
MaySend == sent < Expected(rx) + MaxLead

TakeSequence ==
  /\ next_channel_sequence' = WrappingNext(next_channel_sequence)
  /\ sent' = sent + 1

\* Packets older than MaxAge messages have left the network.
Young(envelopes, count) == {e \in envelopes : count - e.index <= MaxAge}

\* channel_raw_packet on a link that is Active or Stale.
channel_raw_packet ==
  /\ MaySend
  /\ TakeSequence
  /\ network' = Young(network \cup {[sequence |-> next_channel_sequence,
                                     index |-> sent]}, sent + 1)
  /\ UNCHANGED rx

\* channel_raw_packet when encrypted_data_packet refuses (the link is neither
\* Active nor Stale, or encryption failed): the sequence number is spent, no
\* packet exists.
channel_raw_packet_refused ==
  /\ MaySend
  /\ TakeSequence
  /\ network' = Young(network, sent + 1)
  /\ UNCHANGED rx

\* A channel packet arrives; its last copy may or may not be used up.
Receive(e) ==
  /\ rx' = handle_channel_envelope(rx, e)
  /\ network' \in {network, network \ {e}}
  /\ UNCHANGED <<next_channel_sequence, sent>>

Lose(e) ==
  /\ network' = network \ {e}
  /\ UNCHANGED <<next_channel_sequence, sent, rx>>

\* CHANNEL_REORDER_TIMEOUT passes while the receiver waits for the head.
StallExpires ==
  /\ rx.stall = "running"
  /\ rx' = [rx EXCEPT !.stall = "expired"]
  /\ UNCHANGED <<next_channel_sequence, sent, network>>

Next ==
  \/ channel_raw_packet
  \/ channel_raw_packet_refused
  \/ \E e \in network : Receive(e) \/ Lose(e)
  \/ StallExpires

Spec == Init /\ [][Next]_vars

\* The reorder clock always runs out, and a packet that stays in flight
\* arrives.  Nothing obliges the application to send again.
FairSpec ==
  /\ Spec
  /\ WF_vars(StallExpires)
  /\ WF_vars(\E e \in network : Receive(e))

-----------------------------------------------------------------------------
TypeOK ==
  /\ next_channel_sequence \in Sequences
  /\ sent \in Nat
  /\ network \subseteq Envelopes
  /\ rx \in [next : Sequences,
             ring : Seq(Envelopes),
             stall : {"none", "running", "expired"},
             delivered : Seq(Nat)]

\* The reorder ring of Link::handle_channel_envelope holds back only what it
\* must: its envelopes lie ahead of everything delivered and inside the
\* window, in message order and without duplicates; the message they wait for
\* is not among them; and the stall clock that will free them is set exactly
\* while something is held back.
RingHoldsBack ==
  /\ \A k \in 1..Len(rx.ring) :
       rx.ring[k].index \in (Expected(rx) + 1)..(Expected(rx) + Window - 1)
  /\ \A j, k \in 1..Len(rx.ring) :
       j < k => rx.ring[j].index < rx.ring[k].index
  /\ rx.stall = "none" <=> rx.ring = <<>>

Stream == INSTANCE OrderedStream WITH delivered <- rx.delivered

\* The Channel events a link posts are an increasing selection of the messages
\* sent: no duplicate, no reordering and nothing invented, whatever the
\* network does within MaxLead and MaxAge, and across sequence wrap-around.
StreamSpec == Stream!Spec

Held(r) == {r.ring[k].index : k \in 1..Len(r.ring)}

Delivered(r) == {r.delivered[k] : k \in 1..Len(r.delivered)}

\* The receiver loses nothing it could still deliver in order: what the ring
\* holds stays there until it is delivered, and an arriving message at or past
\* the expected one, by less than half the sequence space, is buffered or
\* delivered by the handler, unless the same handler call gave up waiting for
\* it and delivered a later message.
KeepsWhatItAccepts ==
  [][ /\ Held(rx) \subseteq Held(rx') \cup Delivered(rx')
      /\ \A e \in network :
           (/\ rx' = handle_channel_envelope(rx, e)
            /\ e.index \in Expected(rx)..(Expected(rx) + HalfModulus - 1))
           => \/ e.index \in Held(rx') \cup Delivered(rx')
              \/ e.index < Expected(rx') /\ Held(rx) \subseteq Delivered(rx')
    ]_vars

=============================================================================
