----------------------- MODULE ResourceTransferProofs -----------------------
(***************************************************************************)
(* The transfer of a resource, for every length and every assignment of    *)
(* map hashes that the collision guard lets through, every initial window  *)
(* and every number of faults.  All but the first theorem are about        *)
(* resources without a map hash of four zero bytes, and say so.            *)
(*                                                                         *)
(* WindowOrdered is inductive once it is known that the receiver keeps the *)
(* fields that hold the window and that they are integers: what the        *)
(* packets carry decides whether the window moves, never how far.          *)
(*                                                                         *)
(* The other theorems rest on TransferInv, which relates the two ends      *)
(* through the packets under way.  A request for more hashmap carries a    *)
(* hash, not a height, so the invariant says that there are heights hs, in *)
(* order, at which the requests under way were built, and a height H that  *)
(* the sender has answered up to; then every hash is looked up in a        *)
(* stretch no longer than the collision guard, and means one part there.   *)
(***************************************************************************)
EXTENDS ResourceTransfer, FiniteSetTheorems, WellFoundedInduction, TLAPS

\* A record with at least the fields that hold the window.
Shape(r) == {"window", "window_min", "window_max"} \subseteq DOMAIN r

\* The limits of a receiver's window, in order.
Ordered(r) ==
  /\ r.window \in Int /\ r.window_min \in Int /\ r.window_max \in Int
  /\ 1 <= r.window_min
  /\ r.window_min <= r.window
  /\ r.window <= r.window_max
  /\ r.window_max <= WindowMaxSlow

\* What every resource operation of the receiver preserves.
Sound(r) == Shape(r) /\ Ordered(r)

-----------------------------------------------------------------------------
\* apply_hashmap fills in hashes and leaves the window alone.
LEMMA HashmapSound ==
  ASSUME NEW r, Sound(r), NEW s
  PROVE  Sound(apply_hashmap(r, s))
  BY DEF Sound, Shape, Ordered, apply_hashmap

\* build_request counts what it asks for and leaves the window alone.
LEMMA RequestSound ==
  ASSUME NEW r, Sound(r)
  PROVE  Sound(AfterRequest(r))
  BY DEF Sound, Shape, Ordered, AfterRequest

\* The status is set in assemble, start_receive and check_timeout.
LEMMA StatusSound ==
  ASSUME NEW r, Sound(r), NEW status
  PROVE  Sound([r EXCEPT !.status = status])
  BY DEF Sound, Shape, Ordered

\* Storing a part moves the heights and counters only.
LEMMA StoredSound ==
  ASSUME NEW r, Sound(r), NEW i, NEW index
  PROVE  Sound(Stored(r, i, index))
  BY DEF Sound, Shape, Ordered, Stored

\* The window grows below its limit only, and drags its floor along.
LEMMA GrownSound ==
  ASSUME NEW r, Sound(r)
  PROVE  Sound(Grown(r))
  BY ResourceAssumption DEF Sound, Shape, Ordered, Grown

\* A timeout shrinks the window down to its floor, and its limit no further
\* than the window: the two branches of check_timeout that lower window_max.
LEMMA RetriedSound ==
  ASSUME NEW r, Sound(r)
  PROVE  Sound(Retried(r))
  BY ResourceAssumption DEF Sound, Shape, Ordered, Retried, Shrunk

\* receive_part: the part is refused, or stored with the window growing.
LEMMA ReceivePartSound ==
  ASSUME NEW r, Sound(r), NEW index
  PROVE  Sound(receive_part(r, index))
<1> DEFINE alive == [r EXCEPT !.retries = MaxRetries]
           place == Min(Matching(r, index))
<1>1. Sound(alive)
  BY DEF Sound, Shape, Ordered
<1>2. Sound(Grown(Stored(alive, place, index)))
  <2>1. Sound(Stored(alive, place, index))
    BY <1>1, StoredSound
  <2> QED BY <2>1, GrownSound
<1> QED BY <1>1, <1>2 DEF receive_part

-----------------------------------------------------------------------------
\* A new receiver has the window that the constants give it.
LEMMA InitSound == Init => Sound(receiver)
  BY ResourceAssumption DEF Init, NewReceiver, Sound, Shape, Ordered

\* Asking for parts, whatever operation came before.
LEMMA AsksSound ==
  ASSUME NEW r, Sound(r), Asks(r)
  PROVE  Sound(receiver')
<1>1. CASE PastEnd(r)
  <2>1. Sound([r EXCEPT !.status = "Panicked"])
    BY StatusSound
  <2> QED BY <1>1, <2>1 DEF Asks
<1>2. CASE ~PastEnd(r)
  <2>1. Sound(AfterRequest(r))
    BY RequestSound
  <2> QED BY <1>2, <2>1 DEF Asks
<1> QED BY <1>1, <1>2

\* What the application does after a part keeps the window in order.
LEMMA AfterPartSound ==
  ASSUME NEW r, Sound(r), AfterPart(r)
  PROVE  Sound(receiver')
<1>1. CASE receiver' = assemble(r)
  BY <1>1, StatusSound DEF assemble
<1>2. CASE Asks(r)
  BY <1>2, AsksSound
<1>3. CASE receiver' = r
  BY <1>3
<1> QED BY <1>1, <1>2, <1>3 DEF AfterPart

\* No step takes the window out of its limits.
LEMMA NextSound ==
  ASSUME Sound(receiver), [Next]_vars
  PROVE  Sound(receiver')
<1>1. CASE UNCHANGED receiver
  BY <1>1
<1>2. CASE start_receive
  <2>1. Sound([receiver EXCEPT !.status = "Transferring"])
    BY StatusSound
  <2>2. Sound(apply_hashmap([receiver EXCEPT !.status = "Transferring"], 0))
    BY <2>1, HashmapSound
  <2> QED BY <1>2, <2>2, AsksSound DEF start_receive
<1>3. CASE hashmap_update
  <2>1. Sound(apply_hashmap(receiver, Head(toReceiver).segment))
    BY HashmapSound
  <2> QED BY <1>3, <2>1, AsksSound DEF hashmap_update
<1>4. CASE part_arrives
  <2>1. Sound(receive_part(receiver, Head(toReceiver).index))
    BY ReceivePartSound
  <2> QED BY <1>4, <2>1, AfterPartSound DEF part_arrives
<1>5. CASE check_timeout_receiver
  <2>1. Sound(Retried(receiver))
    BY RetriedSound
  <2>2. Sound([receiver EXCEPT !.status = "Failed"])
    BY StatusSound
  <2> QED BY <1>5, <2>1, <2>2, AsksSound DEF check_timeout_receiver
<1>6. CASE Advertise \/ handle_request \/ validate_proof \/ Lose
            \/ check_timeout_advertised \/ check_timeout_proof \/ check_timeout_sender
  BY <1>6, <1>1 DEF Advertise, handle_request, validate_proof, Lose,
       check_timeout_advertised, check_timeout_proof, check_timeout_sender
<1> QED BY <1>1, <1>2, <1>3, <1>4, <1>5, <1>6 DEF Next, vars

\* The window of a transfer (receive_part, check_timeout) stays between its
\* floor and its limit, so none of the unsigned subtractions between them
\* wraps, whatever parts, hashmap segments and timeouts come and in whichever
\* order.
THEOREM WindowSafe == Spec => []WindowOrdered
<1>1. Sound(receiver) => WindowOrdered
  BY DEF Sound, Ordered, WindowOrdered
<1>2. Init => Sound(receiver)
  BY InitSound
<1>3. Sound(receiver) /\ [Next]_vars => Sound(receiver)'
  BY NextSound DEF Sound, Shape, Ordered
<1> QED BY <1>1, <1>2, <1>3, PTL DEF Spec
-----------------------------------------------------------------------------
(* The transfer in order. *)

\* A height that ends a hashmap segment.
Aligned(h) == \E q \in Nat : h = q * HashmapMaxLen

\* The fields of the receiver that the transfer's bookkeeping uses.
Kept(r) ==
  {"status", "hashmap", "height", "received", "count", "outstanding", "completed",
   "waiting", "retries"} \subseteq DOMAIN r

\* CountersAgree of one receiver.
Counted(r) ==
  /\ \A i \in Parts : i <= r.completed => r.received[i] # Missing
  /\ r.completed + 1 \in Parts => r.received[r.completed + 1] = Missing
  /\ r.count = Cardinality({i \in Parts : r.received[i] # Missing})
  /\ \A i \in Parts : r.hashmap[i] = (IF i < r.height THEN MapHash[i] ELSE Unknown)

\* A receiver whose counters agree, with every part in its place and a
\* hashmap that ends with a segment or with the resource; of a resource none
\* of whose hashes passes for unknown.
Good(r) ==
  /\ HashesNamed
  /\ Kept(r)
  /\ r.received \in [Parts -> Parts \cup {Missing}]
  /\ r.height \in 0..TotalParts
  /\ Aligned(r.height) \/ r.height = TotalParts
  /\ r.completed \in -1..(TotalParts - 1)
  /\ r.status # "None" => r.height > 0
  /\ Counted(r)
  /\ \A i \in Parts : r.received[i] \in {Missing, i}

Requests ==
  [type : {"request"}, exhausted : BOOLEAN, last : Nat, hashes : SUBSET Nat, seen : Nat]
    \cup [type : {"proof"}]

Answers ==
  [type : {"advertisement"}] \cup [type : {"hashmap"}, segment : Nat]
    \cup [type : {"part"}, index : Parts]

\* The first part that a hashmap segment names.
Start(m) == m.segment * HashmapMaxLen

\* A request for more hashmap, built when the hashmap had height h: it names
\* the last hash known, and the window had reached beyond it.
Names(m, h, r) ==
  m.type = "request" /\ m.exhausted =>
    /\ m.last = MapHash[h - 1]
    /\ Aligned(h)
    /\ h < TotalParts
    /\ h <= r.completed + 1 + WindowMax

\* The sender's view of the receiver: H is the height that the last request
\* for more hashmap had.
Follows(s, H, r) ==
  /\ {"status", "min_height"} \subseteq DOMAIN s
  /\ Aligned(H)
  /\ s.min_height = NextMinHeight(H)
  /\ s.min_height <= r.completed + 1
  /\ H <= r.height
  /\ r.height <= H + HashmapMaxLen

\* The requests under way were built at heights hs, in order.
Asked(q, hs, H, r) ==
  /\ q \in Seq(Requests)
  /\ hs \in Seq(Nat)
  /\ Len(hs) = Len(q)
  /\ \A k \in 1..Len(q) : 0 < hs[k] /\ H <= hs[k] /\ hs[k] <= r.height
  /\ \A k, l \in 1..Len(q) : k <= l => hs[k] <= hs[l]
  /\ \A k \in 1..Len(q) : Names(q[k], hs[k], r)

\* No part under way is so old or so new that the receiver could take it for
\* another one, not even after the hashmap segments before it in the queue.
Told(q, H, r) ==
  /\ q \in Seq(Answers)
  /\ \A k \in 1..Len(q) : q[k].type = "hashmap" => Start(q[k]) <= H
  /\ \A k \in 1..Len(q) : q[k].type = "part" =>
       /\ 0 < r.height
       /\ r.height <= q[k].index + CollisionGuard + 1
       /\ q[k].index <= r.completed + CollisionGuard
  /\ \A j, k \in 1..Len(q) : j < k /\ q[j].type = "hashmap" /\ q[k].type = "part" =>
       Start(q[j]) + HashmapMaxLen <= q[k].index + CollisionGuard + 1

\* The bookkeeping of sender s and receiver r agrees, across the packets up to
\* the sender and down to the receiver.
Whole(s, r, up, down) ==
  /\ Sound(r)
  /\ Good(r)
  /\ \E H \in Nat, hs \in Seq(Nat) :
       /\ Follows(s, H, r)
       /\ Asked(up, hs, H, r)
       /\ Told(down, H, r)

TransferInv == Whole(sender, receiver, toSender, toReceiver)

-----------------------------------------------------------------------------
\* A set of numbers that is not empty has a least one, and Min is it.
LEMMA MinIsLeast ==
  ASSUME NEW S, S \subseteq Nat, S # {}
  PROVE  /\ Min(S) \in S
         /\ \A y \in S : Min(S) <= y
<1>1. PICK x \in S : \A y \in S : ~(<<y, x>> \in OpToRel(<, Nat))
  BY NatLessThanWellFounded, WFMin
<1>2. \A y \in S : ~(y < x)
  BY <1>1 DEF OpToRel
<1>3. \A y \in S : x <= y
  BY <1>2
<1> QED
  BY <1>3 DEF Min

\* The only place of the window that an arriving part fits is its own, if the
\* parts around it that the window could reach have other hashes.
LEMMA MatchesItself ==
  ASSUME NEW r, Good(r), NEW index \in Parts,
         r.height <= index + CollisionGuard + 1,
         index <= r.completed + CollisionGuard
  PROVE  Matching(r, index) \subseteq {index}
<1> SUFFICES ASSUME NEW i \in Matching(r, index)
             PROVE  i = index
  OBVIOUS
<1>1. i \in Parts /\ r.completed + 1 <= i /\ r.hashmap[i] = MapHash[index]
  BY DEF Matching, Searched
<1>2. MapHash[index] # Unknown
  BY DEF Good, HashesNamed
<1>3. i < r.height /\ MapHash[i] = MapHash[index]
  BY <1>1, <1>2 DEF Good, Counted
<1>4. CollisionGuard \in Nat /\ i \in Nat /\ index \in Nat /\ r.height \in Nat
      /\ r.completed \in Int
  BY <1>1, ResourceAssumption DEF CollisionGuard, Parts, Good
<1>5. i - index <= CollisionGuard /\ index - i <= CollisionGuard
  BY <1>1, <1>3, <1>4
<1> QED
  BY <1>1, <1>3, <1>4, <1>5, HashesGuarded

\* Storing a part at its own place keeps the counters right.
LEMMA StoredGood ==
  ASSUME NEW r, Good(r), NEW i \in Parts, r.completed + 1 <= i, r.received[i] = Missing
  PROVE  /\ Good(Stored(r, i, i))
         /\ Stored(r, i, i).height = r.height
         /\ Stored(r, i, i).completed >= r.completed
<1> DEFINE n == Stored(r, i, i)
           received == [r.received EXCEPT ![i] = i]
           J == {j \in (r.completed + 1)..TotalParts :
                   j \in Parts => received[j] = Missing}
           A == {j \in Parts : r.received[j] # Missing}
           B == {j \in Parts : received[j] # Missing}
<1>1. TotalParts \in Nat \ {0} /\ Parts = 0..(TotalParts - 1) /\ Missing = -1
  BY ResourceAssumption DEF Parts, Missing
<1>2. r.completed \in -1..(TotalParts - 1)
  BY DEF Good
<1>3. /\ received \in [Parts -> Parts \cup {Missing}]
      /\ \A j \in Parts : received[j] \in {Missing, j}
      /\ \A j \in Parts \ {i} : received[j] = r.received[j]
      /\ received[i] = i
  BY DEF Good
<1>4. J \subseteq Nat /\ TotalParts \in J
  BY <1>1, <1>2
<1>5. Min(J) \in J /\ \A j \in J : Min(J) <= j
  BY <1>4, MinIsLeast
<1> DEFINE m == Min(J)
<1>6. /\ n.received = received
      /\ n.count = r.count + 1
      /\ n.completed = m - 1
      /\ n.height = r.height
      /\ n.hashmap = r.hashmap
      /\ n.status = r.status
      /\ DOMAIN n = DOMAIN r
  BY DEF Stored, Good, Kept
<1>7. m \in Nat /\ r.completed + 1 <= m /\ m <= TotalParts /\ (m \in Parts => received[m] = Missing)
  BY <1>5, <1>4
<1>8. ASSUME NEW j \in Parts, j <= m - 1
      PROVE  received[j] # Missing
  <2>1. CASE j <= r.completed
    BY <2>1, <1>3, <1>1 DEF Good, Counted
  <2>2. CASE j > r.completed
    <3>1. j \notin J
      BY <1>5, <1>7, <1>8, <1>1
    <3> QED
      BY <3>1, <2>2, <1>1, <1>2, <1>8
  <2> QED
    BY <2>1, <2>2, <1>1, <1>2
<1>9. Cardinality(B) = Cardinality(A) + 1
  <2>1. IsFiniteSet(Parts)
    BY <1>1, FS_Interval
  <2>2. IsFiniteSet(A)
    BY <2>1, FS_Subset
  <2>3. B = A \cup {i} /\ i \notin A
    BY <1>3, <1>1
  <2> QED
    BY <2>2, <2>3, FS_AddElement
<1> HIDE DEF m, J, received, A, n
<1>10. Counted(n)
  <2>1. n.count = Cardinality({j \in Parts : n.received[j] # Missing})
    BY <1>6, <1>9 DEF Good, Counted, A
  <2>2. \A j \in Parts : n.hashmap[j] = (IF j < n.height THEN MapHash[j] ELSE Unknown)
    BY <1>6 DEF Good, Counted
  <2>3. n.completed + 1 = m
    BY <1>6, <1>7
  <2> QED
    BY <2>1, <2>2, <2>3, <1>6, <1>7, <1>8 DEF Counted
<1>11. n.completed \in -1..(TotalParts - 1) /\ n.completed >= r.completed
  BY <1>6, <1>7, <1>1, <1>2
<1> QED
  BY <1>10, <1>11, <1>6, <1>3 DEF Good, Kept, n

\* Setting the status alone, in assemble, start_receive and check_timeout.
LEMMA StatusGood ==
  ASSUME NEW r, Good(r), NEW status, status # "None" => r.height > 0
  PROVE  /\ Good([r EXCEPT !.status = status])
         /\ [r EXCEPT !.status = status].height = r.height
         /\ [r EXCEPT !.status = status].completed = r.completed
  BY DEF Good, Kept, Counted

\* A hashmap segment that begins no later than the hashmap ends extends it to
\* the end of the segment, or to the end of the resource, or not at all.
LEMMA HashmapGood ==
  ASSUME NEW r, Good(r) \/ Good([r EXCEPT !.status = "None"]), Kept(r),
         NEW s \in Nat, s * HashmapMaxLen <= r.height
  PROVE  LET n == apply_hashmap(r, s) IN
         /\ Good(n)
         /\ n.height > 0
         /\ n.height >= r.height
         /\ n.height <= r.height \/ n.height <= s * HashmapMaxLen + HashmapMaxLen
         /\ n.completed = r.completed
<1> DEFINE n == apply_hashmap(r, s)
           start == s * HashmapMaxLen
           end == start + HashmapMaxLen
           top == IF end <= TotalParts THEN end ELSE TotalParts
           fresh == {i \in Segment(s) : r.hashmap[i] = Unknown}
<1>1. /\ TotalParts \in Nat \ {0} /\ Parts = 0..(TotalParts - 1)
      /\ HashmapMaxLen \in Nat \ {0}
      /\ \A i \in Parts : MapHash[i] # Unknown
  BY ResourceAssumption DEF Parts, Good, HashesNamed
<1>2. start \in Nat /\ Aligned(end)
  <2>1. start \in Nat /\ end = (s + 1) * HashmapMaxLen
    BY <1>1
  <2> QED
    BY <2>1 DEF Aligned
<1>3. /\ r.received \in [Parts -> Parts \cup {Missing}]
      /\ r.height \in 0..TotalParts
      /\ Aligned(r.height) \/ r.height = TotalParts
      /\ r.completed \in -1..(TotalParts - 1)
      /\ Counted(r)
      /\ \A i \in Parts : r.received[i] \in {Missing, i}
  BY DEF Good, Kept, Counted
<1>4. /\ n.hashmap = [i \in Parts |-> IF i \in Segment(s) THEN MapHash[i] ELSE r.hashmap[i]]
      /\ n.height = r.height + Cardinality(fresh)
      /\ n.received = r.received
      /\ n.count = r.count
      /\ n.completed = r.completed
      /\ DOMAIN n = DOMAIN r
  BY DEF apply_hashmap, Kept
<1> HIDE DEF n, start
<1>5. start <= r.height
  BY DEF start
<1>6. \A i \in Parts : i \in Segment(s) <=> start <= i /\ i < end
  BY DEF Segment, start
<1>7. n.height = IF r.height < top THEN top ELSE r.height
  <2>1. fresh = r.height..(top - 1)
    <3>1. \A i \in fresh : i \in Parts /\ r.height <= i /\ i < end
      <4> SUFFICES ASSUME NEW i \in fresh PROVE i \in Parts /\ r.height <= i /\ i < end
        OBVIOUS
      <4>1. i \in Parts /\ i \in Segment(s) /\ r.hashmap[i] = Unknown
        BY DEF Segment
      <4>2. ~(i < r.height)
        BY <4>1, <1>1, <1>3 DEF Counted
      <4> QED
        BY <4>1, <4>2, <1>1, <1>3, <1>6
    <3>2. \A i \in r.height..(top - 1) : i \in Parts /\ start <= i /\ i < end /\ r.height <= i
      BY <1>1, <1>2, <1>3, <1>5
    <3>3. \A i \in r.height..(top - 1) : i \in Segment(s) /\ r.hashmap[i] = Unknown
      BY <3>2, <1>6, <1>3, <1>1 DEF Counted
    <3> QED
      BY <3>1, <3>3, <1>1, <1>2, <1>3
  <2>2. top \in Nat /\ r.height \in Nat
    BY <1>1, <1>2, <1>3
  <2> HIDE DEF top, fresh
  <2>3. Cardinality(fresh) = IF r.height > top - 1 THEN 0 ELSE top - 1 - r.height + 1
    BY <2>1, <2>2, FS_Interval
  <2> QED
    BY <2>2, <2>3, <1>4
<1>8. \A i \in Parts : n.hashmap[i] = (IF i < n.height THEN MapHash[i] ELSE Unknown)
  <2> SUFFICES ASSUME NEW i \in Parts
               PROVE  n.hashmap[i] = (IF i < n.height THEN MapHash[i] ELSE Unknown)
    OBVIOUS
  <2>1. r.hashmap[i] = (IF i < r.height THEN MapHash[i] ELSE Unknown)
    BY <1>3 DEF Counted
  <2>2. CASE i \in Segment(s)
    <3>1. i < n.height
      BY <2>2, <1>6, <1>7, <1>1, <1>2, <1>3
    <3> QED
      BY <2>2, <3>1, <1>4
  <2>3. CASE i \notin Segment(s)
    <3>1. i < n.height <=> i < r.height
      BY <2>3, <1>5, <1>6, <1>7, <1>1, <1>2, <1>3
    <3> QED
      BY <2>3, <3>1, <2>1, <1>4
  <2> QED
    BY <2>2, <2>3
<1>9. n.height \in 0..TotalParts /\ n.height > 0 /\ n.height >= r.height
      /\ (n.height <= r.height \/ n.height <= end)
      /\ (Aligned(n.height) \/ n.height = TotalParts)
  BY <1>1, <1>2, <1>3, <1>7
<1>10. Counted(n)
  BY <1>3, <1>4, <1>8 DEF Counted
<1>11. Good(n)
  BY <1>3, <1>4, <1>9, <1>10 DEF Good, Kept
<1> QED
  BY <1>9, <1>11, <1>4 DEF n, start

\* What operations other than apply_hashmap do to the heights.
Onward(r, n) == n.height = r.height /\ n.completed \in Int /\ n.completed >= r.completed

\* Counting what is asked for leaves hashmap and parts alone.
LEMMA RequestGood ==
  ASSUME NEW r, Good(r)
  PROVE  Good(AfterRequest(r)) /\ Onward(r, AfterRequest(r))
  BY DEF Good, Kept, Counted, AfterRequest, Onward

\* So does moving the window.
LEMMA GrownGood ==
  ASSUME NEW r, Good(r)
  PROVE  Good(Grown(r)) /\ Onward(r, Grown(r))
  BY DEF Good, Kept, Counted, Grown, Onward

LEMMA RetriedGood ==
  ASSUME NEW r, Good(r)
  PROVE  Good(Retried(r)) /\ Onward(r, Retried(r))
<1>1. Good(Shrunk(r)) /\ Onward(r, Shrunk(r))
  BY DEF Good, Kept, Counted, Shrunk, Onward
<1> QED
  BY <1>1 DEF Good, Kept, Counted, Retried, Onward

\* receive_part stores a part at its own place or not at all.
LEMMA ReceivePartGood ==
  ASSUME NEW r, Good(r), NEW index \in Parts,
         r.height <= index + CollisionGuard + 1,
         index <= r.completed + CollisionGuard
  PROVE  Good(receive_part(r, index)) /\ Onward(r, receive_part(r, index))
<1> DEFINE alive == [r EXCEPT !.retries = MaxRetries]
<1>1. /\ Good(alive)
      /\ alive.height = r.height /\ alive.completed = r.completed
      /\ alive.received = r.received
  BY DEF Good, Kept, Counted
<1>2. CASE Matching(r, index) = {}
  BY <1>1, <1>2 DEF receive_part, Onward, Good
<1>3. CASE Matching(r, index) # {}
  <2>1. Matching(r, index) = {index}
    BY <1>3, MatchesItself
  <2>2. index \in Matching(r, index)
    BY <2>1
  <2>3. r.completed + 1 <= index /\ r.received[index] = Missing
    BY <2>2 DEF Matching, Searched
  <2>4. Min(Matching(r, index)) = index
    <3>1. {index} \subseteq Nat /\ {index} # {}
      BY ResourceAssumption DEF Parts
    <3> QED
      BY <2>1, <3>1, MinIsLeast
  <2> HIDE DEF alive
  <2> DEFINE n == Stored(alive, index, index)
  <2>5. Good(n) /\ n.height = alive.height /\ n.completed >= alive.completed
    BY <1>1, <2>3, StoredGood
  <2> HIDE DEF n
  <2>6. Good(Grown(n)) /\ Onward(n, Grown(n))
    BY <2>5, GrownGood
  <2>7. receive_part(r, index) = Grown(n)
    BY <1>3, <2>4 DEF receive_part, n, alive
  <2> QED
    BY <2>5, <2>6, <2>7, <1>1 DEF Onward, Good
<1> QED
  BY <1>2, <1>3

-----------------------------------------------------------------------------
\* A request for more hashmap names the last hash known, and the window that
\* it was built for ends beyond it.
LEMMA RequestNames ==
  ASSUME NEW r, Sound(r), Good(r), 0 < r.height
  PROVE  build_request(r) \in Requests /\ Names(build_request(r), r.height, r)
<1> DEFINE m == build_request(r)
<1>1. /\ TotalParts \in Nat \ {0} /\ Parts = 0..(TotalParts - 1)
      /\ MapHash \in [Parts -> Nat] /\ Unknown = 0
      /\ WindowMax \in Nat /\ WindowMaxSlow \in Nat /\ WindowMaxSlow <= WindowMax
  BY ResourceAssumption DEF Parts, Unknown
<1>2. /\ r.height \in 1..TotalParts
      /\ \A i \in Parts : r.hashmap[i] = (IF i < r.height THEN MapHash[i] ELSE Unknown)
      /\ r.completed \in Int
  BY DEF Good, Counted
<1>3. \A i \in Parts : r.hashmap[i] \in Nat
  BY <1>1, <1>2
<1>4. r.height - 1 \in Parts /\ r.hashmap[r.height - 1] = MapHash[r.height - 1]
  BY <1>1, <1>2
<1>5. Exhausted(r) => /\ r.height < TotalParts
                      /\ r.height <= r.completed + 1 + WindowMax
  <2> SUFFICES ASSUME Exhausted(r)
               PROVE  r.height < TotalParts /\ r.height <= r.completed + 1 + WindowMax
    OBVIOUS
  <2>1. PICK u \in Parts : /\ u < r.completed + 1 + r.window
                           /\ r.hashmap[u] = Unknown
    BY DEF Exhausted, Unnamed, Searched
  <2>2. ~(u < r.height)
    BY <2>1, <1>2 DEF Good, HashesNamed
  <2>3. r.window \in Int /\ r.window <= WindowMaxSlow
    BY <1>1 DEF Sound, Ordered
  <2>4. u \in Int /\ u < TotalParts /\ r.height <= u
    BY <2>2, <1>1, <1>2
  <2>5. r.height \in Int /\ r.completed \in Int /\ TotalParts \in Int
    BY <1>1, <1>2
  <2>6. r.height < TotalParts
    BY <2>4, <2>5
  <2>7. r.window <= WindowMax
    BY <2>3, <1>1
  <2>8. u < r.completed + 1 + r.window
    BY <2>1
  <2>9. r.height <= r.completed + 1 + WindowMax
    BY <2>3, <2>4, <2>5, <2>7, <2>8, <1>1
  <2> QED
    BY <2>6, <2>9
<1>6. /\ m.type = "request"
      /\ m.exhausted = Exhausted(r)
      /\ m.exhausted => m.last = MapHash[r.height - 1]
  BY <1>2, <1>4 DEF build_request, Request
<1>7. m \in Requests
  <2>1. {r.hashmap[i] : i \in Requested(r)} \subseteq Nat
    BY <1>3 DEF Requested, Searched
  <2>2. (IF Exhausted(r) /\ r.height > 0 THEN r.hashmap[r.height - 1] ELSE Unknown) \in Nat
    BY <1>1, <1>3, <1>4
  <2>3. Exhausted(r) \in BOOLEAN
    BY DEF Exhausted
  <2> QED
    BY <2>1, <2>2, <2>3 DEF build_request, Request, Requests
<1> QED
  BY <1>5, <1>6, <1>7 DEF Names, Good

\* What a receiver has learned since does not spoil its earlier requests.
LEMMA AskedLater ==
  ASSUME NEW q, NEW hs, NEW H \in Nat, NEW r, NEW n, Asked(q, hs, H, r), Good(r),
         n.height \in Int, n.height >= r.height, n.completed \in Int, n.completed >= r.completed
  PROVE  Asked(q, hs, H, n)
<1>1. r.height \in Int /\ r.completed \in Int /\ WindowMax \in Int
  BY ResourceAssumption DEF Good
<1>2. \A k \in 1..Len(q) : hs[k] \in Nat
  BY DEF Asked
<1>3. \A k \in 1..Len(q) : hs[k] <= n.height
  BY <1>1, <1>2 DEF Asked
<1>4. ASSUME NEW k \in 1..Len(q)
      PROVE  Names(q[k], hs[k], n)
  <2>1. Names(q[k], hs[k], r)
    BY DEF Asked
  <2>2. hs[k] \in Int
    BY <1>2
  <2>3. hs[k] <= r.completed + 1 + WindowMax => hs[k] <= n.completed + 1 + WindowMax
    BY <2>2, <1>1
  <2> QED
    BY <2>1, <2>3 DEF Names
<1> QED
  BY <1>3, <1>4 DEF Asked

\* A new request is the last one and was built at the height of today.
LEMMA AskedMore ==
  ASSUME NEW q, NEW hs, NEW H \in Nat, NEW r, Asked(q, hs, H, r),
         r.height \in Nat, 0 < r.height, H <= r.height,
         NEW m \in Requests, Names(m, r.height, r)
  PROVE  Asked(Append(q, m), Append(hs, r.height), H, r)
<1> DEFINE q2 == Append(q, m)
           h2 == Append(hs, r.height)
           n == Len(q)
<1>1. /\ q2 \in Seq(Requests) /\ h2 \in Seq(Nat) /\ n \in Nat
      /\ Len(q2) = n + 1 /\ Len(h2) = n + 1
  BY DEF Asked
<1>2. \A k \in 1..n : q2[k] = q[k] /\ h2[k] = hs[k]
  BY DEF Asked
<1>3. q2[n + 1] = m /\ h2[n + 1] = r.height
  BY DEF Asked
<1>4. \A k \in 1..n : 0 < hs[k] /\ H <= hs[k] /\ hs[k] <= r.height /\ Names(q[k], hs[k], r)
  BY DEF Asked
<1>5. \A k, l \in 1..n : k <= l => hs[k] <= hs[l]
  BY DEF Asked
<1> HIDE DEF q2, h2, n
<1>6. \A k \in 1..(n + 1) : k \in 1..n \/ k = n + 1
  BY <1>1
<1>7. \A k, l \in 1..(n + 1) : k <= l => h2[k] <= h2[l]
  BY <1>1, <1>2, <1>3, <1>4, <1>5, <1>6
<1>8. \A k \in 1..(n + 1) : /\ 0 < h2[k] /\ H <= h2[k] /\ h2[k] <= r.height
                            /\ Names(q2[k], h2[k], r)
  BY <1>1, <1>2, <1>3, <1>4, <1>6
<1>9. Asked(q2, h2, H, r)
  BY <1>1, <1>7, <1>8 DEF Asked
<1> QED
  BY <1>9 DEF q2, h2

\* Taking the first request off leaves the others as they were.
LEMMA AskedTail ==
  ASSUME NEW q, NEW hs, NEW H \in Nat, NEW r, Asked(q, hs, H, r), q # <<>>
  PROVE  Asked(Tail(q), Tail(hs), H, r)
<1> DEFINE q2 == Tail(q)
           h2 == Tail(hs)
           n == Len(q) - 1
<1>1. /\ q2 \in Seq(Requests) /\ h2 \in Seq(Nat) /\ n \in Nat /\ Len(q) = n + 1
      /\ Len(q2) = n /\ Len(h2) = n
  BY DEF Asked
<1>2. \A k \in 1..n : q2[k] = q[k + 1] /\ h2[k] = hs[k + 1]
  BY DEF Asked
<1>3. \A k \in 1..n : k + 1 \in 1..(n + 1)
  BY <1>1
<1> HIDE DEF q2, h2, n
<1>4. Asked(q2, h2, H, r)
  BY <1>1, <1>2, <1>3 DEF Asked
<1> QED
  BY <1>4 DEF q2, h2

\* Recording a packet hash changes what a request is known as, not what it asks.
SameRequests(q, p) ==
  /\ p \in Seq(Requests)
  /\ Len(p) = Len(q)
  /\ \A k \in 1..Len(q) :
       /\ p[k].type = q[k].type
       /\ q[k].type = "request" => p[k].exhausted = q[k].exhausted /\ p[k].last = q[k].last

LEMMA AgedSame ==
  ASSUME NEW q \in Seq(Requests)
  PROVE  SameRequests(q, Aged(q))
<1>1. \A k \in 1..Len(q) : q[k].type = "request" =>
        q[k] \in [type : {"request"}, exhausted : BOOLEAN, last : Nat,
                  hashes : SUBSET Nat, seen : Nat]
  BY DEF Requests
<1>2. ASSUME NEW k \in 1..Len(q)
      PROVE  /\ Aged(q)[k] \in Requests
             /\ Aged(q)[k].type = q[k].type
             /\ q[k].type = "request" => /\ Aged(q)[k].exhausted = q[k].exhausted
                                         /\ Aged(q)[k].last = q[k].last
  <2>1. q[k] \in Requests
    OBVIOUS
  <2>2. CASE q[k].type = "request" /\ q[k].seen > 0
    <3>1. Aged(q)[k] = [q[k] EXCEPT !.seen = @ + 1]
      BY <2>2 DEF Aged
    <3>2. q[k] \in [type : {"request"}, exhausted : BOOLEAN, last : Nat,
                    hashes : SUBSET Nat, seen : Nat]
      BY <2>2, <1>1
    <3>3. /\ Aged(q)[k].type = q[k].type
          /\ Aged(q)[k].exhausted = q[k].exhausted
          /\ Aged(q)[k].last = q[k].last
      BY <3>1, <3>2
    <3>4. Aged(q)[k] \in [type : {"request"}, exhausted : BOOLEAN, last : Nat,
                          hashes : SUBSET Nat, seen : Nat]
      BY <3>1, <3>2
    <3>5. Aged(q)[k] \in Requests
      BY <3>4 DEF Requests
    <3> QED
      BY <3>3, <3>5
  <2>3. CASE ~(q[k].type = "request" /\ q[k].seen > 0)
    BY <2>1, <2>3 DEF Aged
  <2> QED
    BY <2>2, <2>3
<1>3. Aged(q) \in Seq(Requests) /\ Len(Aged(q)) = Len(q)
  <2>1. Aged(q) \in [1..Len(q) -> Requests]
    BY <1>2 DEF Aged
  <2> QED
    BY <2>1
<1> QED
  BY <1>2, <1>3 DEF SameRequests

LEMMA MarkedSame ==
  ASSUME NEW q \in Seq(Requests), NEW p, SameRequests(q, p), q # <<>>, q[1].type = "request"
  PROVE  SameRequests(q, [p EXCEPT ![1].seen = 1])
<1> DEFINE p2 == [p EXCEPT ![1].seen = 1]
<1>1. 1 \in 1..Len(q) /\ Len(q) \in Nat
  OBVIOUS
<1>2. p[1] \in [type : {"request"}, exhausted : BOOLEAN, last : Nat,
                hashes : SUBSET Nat, seen : Nat]
  BY <1>1 DEF SameRequests, Requests
<1>3. p2 = [p EXCEPT ![1] = [p[1] EXCEPT !.seen = 1]]
  OBVIOUS
<1>4. [p[1] EXCEPT !.seen = 1] \in Requests
  BY <1>2 DEF Requests
<1>5. p \in Seq(Requests) /\ Len(p) = Len(q)
  BY DEF SameRequests
<1>6. p2 \in Seq(Requests) /\ Len(p2) = Len(q)
  BY <1>3, <1>4, <1>5, <1>1
<1>7. /\ \A k \in 2..Len(q) : p2[k] = p[k]
      /\ p2[1] = [p[1] EXCEPT !.seen = 1]
  BY <1>3, <1>5, <1>1
<1>8. /\ p2[1].type = p[1].type /\ p2[1].exhausted = p[1].exhausted
      /\ p2[1].last = p[1].last
  BY <1>2, <1>7
<1> HIDE DEF p2
<1>9. \A k \in 1..Len(q) : k = 1 \/ k \in 2..Len(q)
  BY <1>1
<1>10. SameRequests(q, p2)
  BY <1>6, <1>7, <1>8, <1>9 DEF SameRequests
<1> QED
  BY <1>10 DEF p2

LEMMA AskedSame ==
  ASSUME NEW q, NEW p, NEW hs, NEW H \in Nat, NEW r, Asked(q, hs, H, r), SameRequests(q, p)
  PROVE  Asked(p, hs, H, r)
<1>1. \A k \in 1..Len(q) : Names(p[k], hs[k], r)
  BY DEF Asked, SameRequests, Names
<1> QED
  BY <1>1 DEF Asked, SameRequests

\* Once a request for more hashmap has been answered, none that is still under
\* way is older.
LEMMA AskedAnswered ==
  ASSUME NEW q, NEW hs, NEW H \in Nat, NEW r, Asked(q, hs, H, r), q # <<>>
  PROVE  /\ hs[1] \in Nat
         /\ Asked(q, hs, hs[1], r)
<1>1. 1 \in 1..Len(q) /\ hs[1] \in Nat
  BY DEF Asked
<1>2. \A k \in 1..Len(q) : hs[1] <= hs[k]
  BY <1>1 DEF Asked
<1> QED
  BY <1>1, <1>2 DEF Asked

-----------------------------------------------------------------------------
\* A place that ends a segment is divided by the length of the segments.
LEMMA AlignedDivides ==
  ASSUME NEW h \in Nat, Aligned(h)
  PROVE  /\ h % HashmapMaxLen = 0
         /\ h \div HashmapMaxLen \in Nat
         /\ (h \div HashmapMaxLen) * HashmapMaxLen = h
<1>1. HashmapMaxLen \in Nat /\ HashmapMaxLen > 0
  BY ResourceAssumption
<1>2. PICK q \in Nat : h = q * HashmapMaxLen
  BY DEF Aligned
<1>3. /\ h \div HashmapMaxLen \in Int /\ h % HashmapMaxLen \in Int
      /\ h % HashmapMaxLen >= 0 /\ h % HashmapMaxLen < HashmapMaxLen
      /\ h = HashmapMaxLen * (h \div HashmapMaxLen) + (h % HashmapMaxLen)
  BY <1>1
<1> QED
  BY <1>1, <1>2, <1>3

\* The sender finds the end of the receiver's hashmap: the hash that a request
\* names is that of one part only among those that are searched.
LEMMA PartIndexFound ==
  ASSUME NEW s, NEW H \in Nat, NEW r, Follows(s, H, r), Good(r),
         NEW m, m.type = "request", m.exhausted, NEW h \in Nat, Names(m, h, r),
         0 < h, H <= h, h <= r.height
  PROVE  PartIndex(s, m) = h
<1> DEFINE known == {i \in Offered(s) : MapHash[i] = m.last}
<1>1. /\ TotalParts \in Nat \ {0} /\ Parts = 0..(TotalParts - 1)
      /\ WindowMax \in Nat /\ WindowMax >= 1 /\ HashmapMaxLen \in Nat
      /\ CollisionGuard = 2 * WindowMax + HashmapMaxLen
  BY ResourceAssumption DEF Parts, CollisionGuard
<1>2. /\ m.last = MapHash[h - 1] /\ h < TotalParts
  BY DEF Names
<1>3. r.height \in Int /\ h <= H + HashmapMaxLen
  BY <1>1 DEF Good, Follows
<1>4. s.min_height = IF H > 1 + WindowMax THEN H - (1 + WindowMax) ELSE 0
  BY DEF Follows, NextMinHeight
<1>5. s.min_height <= h - 1 /\ h - 1 < s.min_height + CollisionGuard /\ s.min_height \in Nat
  BY <1>1, <1>3, <1>4
<1>6. h - 1 \in Parts
  BY <1>1, <1>2
<1>7. h - 1 \in known
  BY <1>2, <1>5, <1>6 DEF Offered
<1>8. ASSUME NEW i \in known
      PROVE  i = h - 1
  <2>1. i \in Parts /\ MapHash[i] = MapHash[h - 1] /\ s.min_height <= i
        /\ i < s.min_height + CollisionGuard
    BY <1>2 DEF Offered
  <2>2. i \in Int /\ i - (h - 1) <= CollisionGuard /\ (h - 1) - i <= CollisionGuard
    BY <2>1, <1>1, <1>5
  <2> QED
    BY <2>1, <2>2, <1>6, HashesGuarded
<1>9. known = {h - 1}
  BY <1>7, <1>8
<1> HIDE DEF known
<1>10. known \subseteq Nat /\ known # {}
  <2>1. h - 1 \in Nat
    BY <1>6, <1>1
  <2> QED
    BY <2>1, <1>9
<1>11. Min(known) = h - 1
  BY <1>9, <1>10, MinIsLeast
<1> QED
  BY <1>10, <1>11, <1>6 DEF PartIndex, known

-----------------------------------------------------------------------------
\* A segment's number and a part's index are numbers.
LEMMA AnswerFields ==
  ASSUME NEW q \in Seq(Answers), NEW k \in 1..Len(q)
  PROVE  /\ q[k].type = "hashmap" => q[k].segment \in Nat /\ Start(q[k]) \in Nat
         /\ q[k].type = "part" => q[k].index \in Parts /\ q[k].index \in Nat
<1>1. HashmapMaxLen \in Nat /\ Parts \subseteq Nat
  BY ResourceAssumption DEF Parts
<1>2. q[k] \in Answers
  OBVIOUS
<1>3. /\ q[k].type = "hashmap" => q[k].segment \in Nat
      /\ q[k].type = "part" => q[k].index \in Parts
  BY <1>2 DEF Answers
<1>4. \A a, b \in Nat : a * b \in Nat
  OBVIOUS
<1>5. q[k].segment \in Nat => Start(q[k]) \in Nat
  BY <1>1, <1>4 DEF Start
<1> QED
  BY <1>1, <1>3, <1>5

\* Packets under way stay harmless while parts come in.
LEMMA ToldLater ==
  ASSUME NEW q, NEW H \in Nat, NEW r, NEW n, Told(q, H, r), Good(r), Onward(r, n)
  PROVE  Told(q, H, n)
<1>1. r.completed \in Int /\ CollisionGuard \in Int
  BY ResourceAssumption DEF Good, CollisionGuard
<1>2. q \in Seq(Answers)
  BY DEF Told
<1>3. \A k \in 1..Len(q) : q[k].type = "part" =>
        /\ 0 < n.height
        /\ n.height <= q[k].index + CollisionGuard + 1
        /\ q[k].index <= n.completed + CollisionGuard
  BY <1>1, <1>2, AnswerFields DEF Told, Onward
<1> QED
  BY <1>3 DEF Told

\* So they do when the hashmap segment at the head of the queue is applied.
LEMMA ToldHashmap ==
  ASSUME NEW q, NEW H \in Nat, NEW r, NEW n, Told(q, H, r), Good(r),
         q # <<>>, q[1].type = "hashmap",
         n.height \in Nat, n.height > 0, n.completed = r.completed,
         n.height <= r.height \/ n.height <= Start(q[1]) + HashmapMaxLen
  PROVE  Told(q, H, n)
<1>1. /\ r.completed \in Int /\ r.height \in Int
      /\ CollisionGuard \in Int /\ HashmapMaxLen \in Int
  BY ResourceAssumption DEF Good, CollisionGuard
<1>2. q \in Seq(Answers) /\ 1 \in 1..Len(q)
  BY DEF Told
<1>3. Start(q[1]) \in Nat
  BY <1>2, AnswerFields
<1>4. ASSUME NEW k \in 1..Len(q), q[k].type = "part"
      PROVE  /\ 0 < n.height
             /\ n.height <= q[k].index + CollisionGuard + 1
             /\ q[k].index <= n.completed + CollisionGuard
  <2>1. q[k].index \in Nat
    BY <1>2, <1>4, AnswerFields
  <2>2. k # 1
    BY <1>4
  <2>3. 1 < k
    BY <2>2, <1>2
  <2>4. Start(q[1]) + HashmapMaxLen <= q[k].index + CollisionGuard + 1
    BY <2>3, <1>2, <1>4 DEF Told
  <2>5. /\ r.height <= q[k].index + CollisionGuard + 1
        /\ q[k].index <= r.completed + CollisionGuard
    BY <1>4 DEF Told
  <2>6. ASSUME n.height <= Start(q[1]) + HashmapMaxLen
        PROVE  n.height <= q[k].index + CollisionGuard + 1
    BY <2>1, <2>4, <2>6, <1>1, <1>3
  <2>7. ASSUME n.height <= r.height
        PROVE  n.height <= q[k].index + CollisionGuard + 1
    BY <2>1, <2>5, <2>7, <1>1
  <2> QED
    BY <2>5, <2>6, <2>7
<1> QED
  BY <1>4 DEF Told

\* Nothing under way but the advertisement while the hashmap is unknown.
LEMMA ToldStart ==
  ASSUME NEW q, NEW H \in Nat, NEW r, NEW n, Told(q, H, r), Good(r),
         n.height \in Nat, n.height > 0, n.completed = r.completed,
         n.height <= r.height \/ n.height <= HashmapMaxLen
  PROVE  Told(q, H, n)
<1>1. /\ r.completed \in Int /\ r.height \in Int
      /\ CollisionGuard \in Nat /\ HashmapMaxLen \in Nat
      /\ HashmapMaxLen <= CollisionGuard
  BY ResourceAssumption DEF Good, CollisionGuard
<1>2. q \in Seq(Answers)
  BY DEF Told
<1>3. ASSUME NEW k \in 1..Len(q), q[k].type = "part"
      PROVE  /\ 0 < n.height
             /\ n.height <= q[k].index + CollisionGuard + 1
             /\ q[k].index <= n.completed + CollisionGuard
  <2>1. q[k].index \in Nat
    BY <1>2, <1>3, AnswerFields
  <2>2. /\ r.height <= q[k].index + CollisionGuard + 1
        /\ q[k].index <= r.completed + CollisionGuard
    BY <1>3 DEF Told
  <2> QED
    BY <2>1, <2>2, <1>1
<1> QED
  BY <1>3 DEF Told

LEMMA ToldTail ==
  ASSUME NEW q, NEW H \in Nat, NEW r, Told(q, H, r), q # <<>>
  PROVE  Told(Tail(q), H, r)
<1> DEFINE q2 == Tail(q)
           n == Len(q) - 1
<1>1. q2 \in Seq(Answers) /\ n \in Nat /\ Len(q) = n + 1 /\ Len(q2) = n
  BY DEF Told
<1>2. \A k \in 1..n : q2[k] = q[k + 1] /\ k + 1 \in 1..Len(q)
  BY DEF Told
<1> HIDE DEF q2, n
<1>3. \A j, k \in 1..n : j < k => j + 1 < k + 1
  BY <1>1
<1>4. Told(q2, H, r)
  BY <1>1, <1>2, <1>3 DEF Told
<1> QED
  BY <1>4 DEF q2

\* An answer: parts from the stretch that the sender searches, then perhaps the
\* hashmap segment that follows height G.
Fits(e, H, G, r) ==
  /\ e \in Seq(Answers)
  /\ \A k \in 1..Len(e) : e[k].type = "hashmap" => Start(e[k]) <= G
  /\ \A k \in 1..Len(e) : e[k].type = "part" =>
       /\ 0 < r.height
       /\ r.height <= e[k].index + CollisionGuard + 1
       /\ e[k].index <= r.completed + CollisionGuard
       /\ H + HashmapMaxLen <= e[k].index + CollisionGuard + 1
  /\ \A j, k \in 1..Len(e) : j < k => e[j].type # "hashmap"

LEMMA ToldMore ==
  ASSUME NEW q, NEW H \in Nat, NEW r, Told(q, H, r), NEW G \in Nat, H <= G,
         NEW e, Fits(e, H, G, r)
  PROVE  Told(q \o e, G, r)
<1> DEFINE p == q \o e
           n == Len(q)
<1>1. q \in Seq(Answers) /\ e \in Seq(Answers) /\ n \in Nat /\ Len(e) \in Nat
  BY DEF Told, Fits
<1>2. p \in Seq(Answers) /\ Len(p) = n + Len(e)
  BY <1>1
<1>3. /\ \A k \in 1..n : p[k] = q[k]
      /\ \A k \in (n + 1)..Len(p) : p[k] = e[k - n] /\ k - n \in 1..Len(e)
  BY <1>1
<1>4. HashmapMaxLen \in Nat /\ CollisionGuard \in Nat
  BY ResourceAssumption DEF CollisionGuard
<1> HIDE DEF p, n
<1>5. \A k \in 1..Len(p) : k \in 1..n \/ k \in (n + 1)..Len(p)
  BY <1>1, <1>2
<1>6. ASSUME NEW k \in 1..Len(p), p[k].type = "hashmap"
      PROVE  Start(p[k]) <= G
  <2>1. Start(p[k]) \in Nat
    BY <1>2, <1>6, AnswerFields
  <2>2. CASE k \in 1..n
    BY <2>1, <2>2, <1>3, <1>6 DEF Told, n
  <2>3. CASE k \in (n + 1)..Len(p)
    BY <2>3, <1>3, <1>6 DEF Fits
  <2> QED
    BY <2>2, <2>3, <1>5
<1>7. ASSUME NEW k \in 1..Len(p), p[k].type = "part"
      PROVE  /\ 0 < r.height
             /\ r.height <= p[k].index + CollisionGuard + 1
             /\ p[k].index <= r.completed + CollisionGuard
  <2>1. CASE k \in 1..n
    BY <2>1, <1>3, <1>7 DEF Told, n
  <2>2. CASE k \in (n + 1)..Len(p)
    BY <2>2, <1>3, <1>7 DEF Fits
  <2> QED
    BY <2>1, <2>2, <1>5
<1>8. ASSUME NEW j \in 1..Len(p), NEW k \in 1..Len(p), j < k,
             p[j].type = "hashmap", p[k].type = "part"
      PROVE  Start(p[j]) + HashmapMaxLen <= p[k].index + CollisionGuard + 1
  <2>1. Start(p[j]) \in Nat /\ p[k].index \in Nat
    BY <1>2, <1>8, AnswerFields
  <2>2. CASE j \in 1..n /\ k \in 1..n
    BY <2>2, <1>3, <1>8 DEF Told, n
  <2>3. CASE j \in 1..n /\ k \in (n + 1)..Len(p)
    <3>1. Start(p[j]) <= H
      BY <2>3, <1>3, <1>8 DEF Told, n
    <3>2. H + HashmapMaxLen <= p[k].index + CollisionGuard + 1
      BY <2>3, <1>3, <1>8 DEF Fits
    <3> QED
      BY <3>1, <3>2, <2>1, <1>4
  <2>4. CASE j \in (n + 1)..Len(p)
    <3>1. k \in (n + 1)..Len(p)
      BY <2>4, <1>1, <1>2, <1>8
    <3>2. j - n < k - n
      BY <3>1, <2>4, <1>1, <1>2, <1>8
    <3> QED
      BY <3>1, <3>2, <2>4, <1>3, <1>8 DEF Fits
  <2> QED
    BY <2>2, <2>3, <2>4, <1>5
<1>9. Told(p, G, r)
  BY <1>2, <1>6, <1>7, <1>8 DEF Told
<1> QED
  BY <1>9 DEF p

-----------------------------------------------------------------------------
(* The steps. *)

LEMMA FollowsLater ==
  ASSUME NEW s, NEW H \in Nat, NEW r, NEW n, Follows(s, H, r), Good(r),
         n.height \in Int, n.height >= r.height, n.height <= H + HashmapMaxLen,
         n.completed \in Int, n.completed >= r.completed
  PROVE  Follows(s, H, n)
<1>1. r.height \in Int /\ r.completed \in Int /\ s.min_height \in Int
  BY ResourceAssumption DEF Good, Follows, NextMinHeight
<1> QED
  BY <1>1 DEF Follows

LEMMA OnwardInts ==
  ASSUME NEW r, NEW n, Good(r), Good(n), Onward(r, n)
  PROVE  /\ n.height \in Int /\ n.height >= r.height /\ n.height \in Nat
         /\ n.completed \in Int /\ n.completed >= r.completed
  BY ResourceAssumption DEF Good, Onward

\* The packets that are left once the first one of a queue is handled.
LEMMA RestTold ==
  ASSUME NEW q, NEW rest \in Remaining(q), NEW H \in Nat, NEW r, Told(q, H, r)
  PROVE  q # <<>> /\ Told(rest, H, r) /\ Head(q) = q[1] /\ q[1] \in Answers
         /\ 1 \in 1..Len(q) /\ q \in Seq(Answers)
<1>1. q # <<>> /\ rest \in {Tail(q), q}
  BY DEF Remaining
<1>2. q \in Seq(Answers)
  BY DEF Told
<1>3. Told(rest, H, r)
  BY <1>1, ToldTail
<1>4. Head(q) = q[1] /\ 1 \in 1..Len(q) /\ q[1] \in Answers
  BY <1>1, <1>2
<1> QED
  BY <1>1, <1>2, <1>3, <1>4

LEMMA RestAsked ==
  ASSUME NEW q, NEW rest \in Remaining(q), NEW hs, NEW H \in Nat, NEW r, Asked(q, hs, H, r)
  PROVE  /\ q # <<>> /\ Head(q) = q[1] /\ q \in Seq(Requests) /\ rest \in Seq(Requests)
         /\ 1 \in 1..Len(q)
         /\ \E left \in Seq(Nat) : Asked(rest, left, H, r)
<1>1. q # <<>> /\ rest \in {Tail(q), q}
  BY DEF Remaining
<1>2. q \in Seq(Requests) /\ hs \in Seq(Nat) /\ Len(hs) = Len(q)
  BY DEF Asked
<1>3. Tail(hs) \in Seq(Nat)
  BY <1>1, <1>2
<1>4. Asked(Tail(q), Tail(hs), H, r)
  BY <1>1, AskedTail
<1>5. Head(q) = q[1] /\ 1 \in 1..Len(q) /\ rest \in Seq(Requests)
  <2>1. Head(q) = q[1] /\ 1 \in 1..Len(q)
    BY <1>1, <1>2
  <2>2. Tail(q) \in Seq(Requests)
    BY <1>1, <1>2
  <2> QED
    BY <2>1, <2>2, <1>1, <1>2
<1>6. \E left \in Seq(Nat) : Asked(rest, left, H, r)
  BY <1>1, <1>2, <1>3, <1>4
<1> QED
  BY <1>1, <1>2, <1>5, <1>6

\* A receiver that is well after an operation is well after the request.
LEMMA AsksWhole ==
  ASSUME NEW n, Sound(n), Good(n), 0 < n.height, NEW H \in Nat, NEW hs \in Seq(Nat),
         NEW down, Follows(sender, H, n), Asked(toSender, hs, H, n), Told(down, H, n),
         Asks(n)
  PROVE  Whole(sender, receiver', toSender', down)
<1> DEFINE a == AfterRequest(n)
           m == build_request(n)
<1>1. receiver' = a /\ toSender' = Append(toSender, m)
  <2>1. ~PastEnd(n)
    BY ResourceAssumption DEF PastEnd, Good
  <2> QED
    BY <2>1 DEF Asks
<1>2. Sound(a) /\ Good(a) /\ Onward(n, a)
  BY RequestSound, RequestGood
<1>3. m \in Requests /\ Names(m, n.height, n)
  BY RequestNames
<1> HIDE DEF a, m
<1>4. n.height \in Nat /\ H <= n.height /\ n.height <= H + HashmapMaxLen
  BY DEF Good, Follows
<1>5. Asked(Append(toSender, m), Append(hs, n.height), H, n)
  BY <1>3, <1>4, AskedMore
<1>6. Asked(Append(toSender, m), Append(hs, n.height), H, a)
  BY <1>2, <1>5, AskedLater, OnwardInts
<1>7. a.height <= H + HashmapMaxLen
  BY <1>2, <1>4 DEF Onward
<1>8. Follows(sender, H, a)
  BY <1>2, <1>7, FollowsLater, OnwardInts
<1>9. Told(down, H, a)
  BY <1>2, ToldLater
<1>10. Append(hs, n.height) \in Seq(Nat)
  BY <1>4
<1> QED
  BY <1>1, <1>2, <1>6, <1>8, <1>9, <1>10 DEF Whole

\* What the application does after a part.
LEMMA AfterPartWhole ==
  ASSUME NEW n, Sound(n), Good(n), 0 < n.height, NEW H \in Nat, NEW hs \in Seq(Nat),
         NEW down, Follows(sender, H, n), Asked(toSender, hs, H, n), Told(down, H, n),
         AfterPart(n)
  PROVE  Whole(sender, receiver', toSender', down)
<1>1. CASE Asks(n)
  BY <1>1, AsksWhole
<1>2. CASE receiver' = n /\ UNCHANGED toSender
  BY <1>2 DEF Whole
<1>3. CASE /\ receiver' = assemble(n)
           /\ toSender' = IF assemble(n).status = "Complete"
                          THEN Append(toSender, Proof) ELSE toSender
  <2> DEFINE a == assemble(n)
  <2>1. PICK status : a = [n EXCEPT !.status = status]
    BY DEF assemble
  <2>2. Sound(a) /\ Good(a) /\ a.height = n.height /\ a.completed = n.completed
    <3>1. Sound([n EXCEPT !.status = status])
      BY StatusSound
    <3>2. /\ Good([n EXCEPT !.status = status])
          /\ [n EXCEPT !.status = status].height = n.height
          /\ [n EXCEPT !.status = status].completed = n.completed
      <4>1. n.height > 0
        BY DEF Good
      <4> QED
        BY <4>1, StatusGood
    <3> QED
      BY <2>1, <3>1, <3>2
  <2>3. n.completed \in Int /\ n.height \in Nat /\ H <= n.height
        /\ n.height <= H + HashmapMaxLen
    BY DEF Good, Follows
  <2> HIDE DEF a
  <2>4. Onward(n, a)
    BY <2>2, <2>3 DEF Onward
  <2>5. Follows(sender, H, a) /\ Told(down, H, a)
    BY <2>2, <2>3, <2>4, FollowsLater, ToldLater, OnwardInts
  <2>6. Asked(toSender, hs, H, a)
    BY <2>2, <2>3, <2>4, AskedLater, OnwardInts
  <2>7. Proof \in Requests /\ Names(Proof, a.height, a)
    BY DEF Proof, Requests, Names
  <2>8. a.height \in Nat /\ 0 < a.height /\ H <= a.height
    BY <2>2, <2>3
  <2>9. Asked(Append(toSender, Proof), Append(hs, a.height), H, a)
    BY <2>6, <2>7, <2>8, AskedMore
  <2>10. Append(hs, a.height) \in Seq(Nat)
    BY <2>8
  <2>11. receiver' = a /\ toSender' \in {toSender, Append(toSender, Proof)}
    BY <1>3 DEF a
  <2> QED
    BY <2>2, <2>5, <2>6, <2>9, <2>10, <2>11 DEF Whole
<1> QED
  BY <1>1, <1>2, <1>3 DEF AfterPart

\* The bookkeeping that a step starts from.
LEMMA PickWhole ==
  ASSUME NEW s, NEW r, NEW up, NEW down, Whole(s, r, up, down)
  PROVE  /\ Sound(r) /\ Good(r)
         /\ \E H \in Nat : \E hs \in Seq(Nat) :
              Follows(s, H, r) /\ Asked(up, hs, H, r) /\ Told(down, H, r)
  BY DEF Whole

LEMMA StartWhole ==
  ASSUME TransferInv, start_receive
  PROVE  Whole(sender', receiver', toSender', toReceiver')
<1>1. Sound(receiver) /\ Good(receiver)
  BY DEF TransferInv, Whole
<1>2. PICK H \in Nat : \E hs \in Seq(Nat) :
        /\ Follows(sender, H, receiver) /\ Asked(toSender, hs, H, receiver)
        /\ Told(toReceiver, H, receiver)
  BY PickWhole DEF TransferInv
<1>3. PICK hs \in Seq(Nat) :
        /\ Follows(sender, H, receiver) /\ Asked(toSender, hs, H, receiver)
        /\ Told(toReceiver, H, receiver)
  BY <1>2
<1>4. PICK rest \in Remaining(toReceiver) :
        /\ toReceiver' = rest
        /\ IF receiver.status = "None"
           THEN Asks(apply_hashmap([receiver EXCEPT !.status = "Transferring"], 0))
           ELSE UNCHANGED <<receiver, toSender>>
        /\ UNCHANGED sender
  BY DEF start_receive
<1>5. CASE receiver.status # "None"
  <2>1. Told(rest, H, receiver)
    BY <1>3, RestTold
  <2> QED
    BY <2>1, <1>1, <1>3, <1>4, <1>5 DEF Whole
<1>6. CASE receiver.status = "None"
  <2> DEFINE b == [receiver EXCEPT !.status = "Transferring"]
             n == apply_hashmap(b, 0)
  <2>1. /\ Sound(b) /\ Kept(b) /\ b.height = receiver.height /\ b.completed = receiver.completed
    BY <1>1, StatusSound DEF Good, Kept
  <2>2. Good([b EXCEPT !.status = "None"])
    BY <1>1, <1>6 DEF Good, Kept, Counted
  <2>3. Sound(n)
    BY <2>1, HashmapSound
  <2>4. HashmapMaxLen \in Nat /\ receiver.height \in Nat /\ receiver.completed \in Int
        /\ 0 * HashmapMaxLen = 0
    BY <1>1, ResourceAssumption DEF Good
  <2> HIDE DEF b
  <2>5. /\ Good(n) /\ n.height > 0 /\ n.height >= receiver.height
        /\ n.height <= receiver.height \/ n.height <= HashmapMaxLen
        /\ n.completed = receiver.completed
    BY <2>1, <2>2, <2>4, HashmapGood
  <2> HIDE DEF n
  <2>6. n.height \in Nat /\ n.height <= H + HashmapMaxLen
    BY <2>4, <2>5, <1>3 DEF Good, Follows
  <2>7. Told(toReceiver, H, n)
    BY <2>5, <2>6, <1>1, <1>3, ToldStart
  <2>8. Told(rest, H, n)
    BY <2>7, RestTold
  <2>9. Follows(sender, H, n) /\ Asked(toSender, hs, H, n)
    BY <2>4, <2>5, <2>6, <1>1, <1>3, FollowsLater, AskedLater
  <2>10. Asks(n)
    BY <1>4, <1>6 DEF n, b
  <2>11. 0 < n.height
    BY <2>5, <2>6
  <2> QED
    BY <2>3, <2>5, <2>8, <2>9, <2>10, <2>11, <1>4, AsksWhole
<1> QED
  BY <1>5, <1>6

LEMMA HashmapWhole ==
  ASSUME TransferInv, hashmap_update
  PROVE  Whole(sender', receiver', toSender', toReceiver')
<1>1. Sound(receiver) /\ Good(receiver)
  BY DEF TransferInv, Whole
<1>2. PICK H \in Nat : \E hs \in Seq(Nat) :
        /\ Follows(sender, H, receiver) /\ Asked(toSender, hs, H, receiver)
        /\ Told(toReceiver, H, receiver)
  BY PickWhole DEF TransferInv
<1>3. PICK hs \in Seq(Nat) :
        /\ Follows(sender, H, receiver) /\ Asked(toSender, hs, H, receiver)
        /\ Told(toReceiver, H, receiver)
  BY <1>2
<1>4. PICK rest \in Remaining(toReceiver) :
        /\ toReceiver' = rest
        /\ Head(toReceiver).type = "hashmap"
        /\ IF receiver.status \in Final THEN UNCHANGED <<receiver, toSender>>
           ELSE Asks(apply_hashmap(receiver, Head(toReceiver).segment))
        /\ UNCHANGED sender
  BY DEF hashmap_update
<1>5. CASE receiver.status \in Final
  <2>1. Told(rest, H, receiver)
    BY <1>3, RestTold
  <2> QED
    BY <2>1, <1>1, <1>3, <1>4, <1>5 DEF Whole
<1>6. CASE receiver.status \notin Final
  <2>1. /\ toReceiver # <<>> /\ Head(toReceiver) = toReceiver[1]
        /\ 1 \in 1..Len(toReceiver) /\ toReceiver \in Seq(Answers)
    BY <1>3, RestTold
  <2> DEFINE g == toReceiver[1].segment
             n == apply_hashmap(receiver, g)
  <2>2. toReceiver[1].type = "hashmap"
    BY <2>1, <1>4
  <2>3. g \in Nat /\ Start(toReceiver[1]) \in Nat /\ Start(toReceiver[1]) = g * HashmapMaxLen
    BY <2>1, <2>2, AnswerFields DEF Start
  <2>4. Start(toReceiver[1]) <= H
    BY <2>1, <2>2, <1>3 DEF Told
  <2>5. HashmapMaxLen \in Nat /\ receiver.height \in Nat /\ receiver.completed \in Int
        /\ H <= receiver.height /\ receiver.height <= H + HashmapMaxLen /\ Kept(receiver)
    BY <1>1, <1>3, ResourceAssumption DEF Good, Follows
  <2>6. Sound(n)
    BY <1>1, HashmapSound
  <2> HIDE DEF g
  <2>7. g * HashmapMaxLen <= receiver.height
    BY <2>3, <2>4, <2>5
  <2>8. /\ Good(n) /\ n.height > 0 /\ n.height >= receiver.height
        /\ n.height <= receiver.height \/ n.height <= g * HashmapMaxLen + HashmapMaxLen
        /\ n.completed = receiver.completed
    BY <2>3, <2>5, <2>7, <1>1, HashmapGood
  <2> HIDE DEF n
  <2>9. n.height \in Nat /\ n.height <= H + HashmapMaxLen
    BY <2>3, <2>4, <2>5, <2>8 DEF Good
  <2>10. n.height <= receiver.height \/ n.height <= Start(toReceiver[1]) + HashmapMaxLen
    BY <2>8, <2>3
  <2>11. Told(toReceiver, H, n)
    BY <2>1, <2>2, <2>8, <2>9, <2>10, <1>1, <1>3, ToldHashmap
  <2>12. Told(rest, H, n)
    BY <2>11, RestTold
  <2>13. Follows(sender, H, n) /\ Asked(toSender, hs, H, n)
    BY <2>5, <2>8, <2>9, <1>1, <1>3, FollowsLater, AskedLater
  <2>14. Asks(n)
    BY <2>1, <1>4, <1>6 DEF n, g
  <2>15. 0 < n.height
    BY <2>8, <2>9
  <2> QED
    BY <2>6, <2>8, <2>12, <2>13, <2>14, <2>15, <1>4, AsksWhole
<1> QED
  BY <1>5, <1>6

LEMMA PartWhole ==
  ASSUME TransferInv, part_arrives
  PROVE  Whole(sender', receiver', toSender', toReceiver')
<1>1. Sound(receiver) /\ Good(receiver)
  BY DEF TransferInv, Whole
<1>2. PICK H \in Nat : \E hs \in Seq(Nat) :
        /\ Follows(sender, H, receiver) /\ Asked(toSender, hs, H, receiver)
        /\ Told(toReceiver, H, receiver)
  BY PickWhole DEF TransferInv
<1>3. PICK hs \in Seq(Nat) :
        /\ Follows(sender, H, receiver) /\ Asked(toSender, hs, H, receiver)
        /\ Told(toReceiver, H, receiver)
  BY <1>2
<1>4. PICK rest \in Remaining(toReceiver) :
        /\ toReceiver' = rest
        /\ Head(toReceiver).type = "part"
        /\ IF receiver.status \in Final THEN UNCHANGED <<receiver, toSender>>
           ELSE AfterPart(receive_part(receiver, Head(toReceiver).index))
        /\ UNCHANGED sender
  BY DEF part_arrives
<1>5. CASE receiver.status \in Final
  <2>1. Told(rest, H, receiver)
    BY <1>3, RestTold
  <2> QED
    BY <2>1, <1>1, <1>3, <1>4, <1>5 DEF Whole
<1>6. CASE receiver.status \notin Final
  <2>1. /\ toReceiver # <<>> /\ Head(toReceiver) = toReceiver[1]
        /\ 1 \in 1..Len(toReceiver) /\ toReceiver \in Seq(Answers)
    BY <1>3, RestTold
  <2> DEFINE i == toReceiver[1].index
             n == receive_part(receiver, i)
  <2>2. toReceiver[1].type = "part"
    BY <2>1, <1>4
  <2>3. i \in Parts
    BY <2>1, <2>2, AnswerFields
  <2>4. /\ 0 < receiver.height
        /\ receiver.height <= i + CollisionGuard + 1
        /\ i <= receiver.completed + CollisionGuard
    BY <2>1, <2>2, <1>3 DEF Told
  <2> HIDE DEF i
  <2>5. Sound(n)
    BY <1>1, ReceivePartSound
  <2>6. Good(n) /\ Onward(receiver, n)
    BY <2>3, <2>4, <1>1, ReceivePartGood
  <2> HIDE DEF n
  <2>7. Told(rest, H, n)
    BY <2>6, <1>1, <1>3, ToldLater, RestTold
  <2>8. n.height <= H + HashmapMaxLen /\ 0 < n.height
    BY <2>4, <2>6, <1>3 DEF Onward, Follows
  <2>9. Follows(sender, H, n) /\ Asked(toSender, hs, H, n)
    BY <2>6, <2>8, <1>1, <1>3, FollowsLater, AskedLater, OnwardInts
  <2>10. AfterPart(n)
    BY <2>1, <1>4, <1>6 DEF n, i
  <2> QED
    BY <2>5, <2>6, <2>7, <2>8, <2>9, <2>10, <1>4, AfterPartWhole
<1> QED
  BY <1>5, <1>6

LEMMA TimeoutWhole ==
  ASSUME TransferInv, check_timeout_receiver
  PROVE  Whole(sender', receiver', toSender', toReceiver')
<1>1. Sound(receiver) /\ Good(receiver)
  BY DEF TransferInv, Whole
<1>2. PICK H \in Nat : \E hs \in Seq(Nat) :
        /\ Follows(sender, H, receiver) /\ Asked(toSender, hs, H, receiver)
        /\ Told(toReceiver, H, receiver)
  BY PickWhole DEF TransferInv
<1>3. PICK hs \in Seq(Nat) :
        /\ Follows(sender, H, receiver) /\ Asked(toSender, hs, H, receiver)
        /\ Told(toReceiver, H, receiver)
  BY <1>2
<1>4. receiver.height > 0 /\ receiver.height \in Nat /\ receiver.completed \in Int
      /\ receiver.height <= H + HashmapMaxLen
  BY <1>1, <1>3 DEF check_timeout_receiver, Good, Follows
<1>5. CASE receiver' = [receiver EXCEPT !.status = "Failed"] /\ UNCHANGED toSender
  <2> DEFINE n == [receiver EXCEPT !.status = "Failed"]
  <2>1. Sound(n) /\ Good(n) /\ n.height = receiver.height /\ n.completed = receiver.completed
    BY <1>1, <1>4, StatusSound, StatusGood
  <2> HIDE DEF n
  <2>2. Onward(receiver, n) /\ n.height <= H + HashmapMaxLen
    BY <2>1, <1>4 DEF Onward
  <2>3. Follows(sender, H, n) /\ Asked(toSender, hs, H, n) /\ Told(toReceiver, H, n)
    BY <2>1, <2>2, <1>1, <1>3, FollowsLater, AskedLater, ToldLater, OnwardInts
  <2>4. receiver' = n
    BY <1>5 DEF n
  <2> QED
    BY <2>1, <2>3, <2>4, <1>5 DEF check_timeout_receiver, Whole
<1>6. CASE Asks(Retried(receiver))
  <2> DEFINE n == Retried(receiver)
  <2>1. Sound(n) /\ Good(n) /\ Onward(receiver, n)
    BY <1>1, RetriedSound, RetriedGood
  <2>2. Asks(n)
    BY <1>6
  <2> HIDE DEF n
  <2>3. n.height <= H + HashmapMaxLen /\ 0 < n.height
    BY <2>1, <1>4 DEF Onward
  <2>4. Follows(sender, H, n) /\ Asked(toSender, hs, H, n) /\ Told(toReceiver, H, n)
    BY <2>1, <2>3, <1>1, <1>3, FollowsLater, AskedLater, ToldLater, OnwardInts
  <2>5. Whole(sender, receiver', toSender', toReceiver)
    BY <2>1, <2>2, <2>3, <2>4, AsksWhole
  <2> QED
    BY <2>5 DEF check_timeout_receiver
<1> QED
  BY <1>5, <1>6 DEF check_timeout_receiver

\* The parts that the sender offers are those that the receiver cannot mistake.
LEMMA OfferFits ==
  ASSUME NEW s, NEW H \in Nat, NEW r, Follows(s, H, r), Good(r), NEW i \in Offered(s)
  PROVE  /\ i \in Parts
         /\ r.height <= i + CollisionGuard + 1
         /\ i <= r.completed + CollisionGuard
         /\ H + HashmapMaxLen <= i + CollisionGuard + 1
<1>1. /\ WindowMax \in Nat /\ HashmapMaxLen \in Nat
      /\ CollisionGuard = 2 * WindowMax + HashmapMaxLen
  BY ResourceAssumption DEF CollisionGuard
<1>2. i \in Parts /\ i \in Nat /\ s.min_height <= i /\ i < s.min_height + CollisionGuard
  BY ResourceAssumption DEF Offered, Parts
<1>3. s.min_height = IF H > 1 + WindowMax THEN H - (1 + WindowMax) ELSE 0
  BY DEF Follows, NextMinHeight
<1>4. r.height \in Int /\ r.completed \in Int /\ r.height <= H + HashmapMaxLen
      /\ s.min_height <= r.completed + 1
  BY DEF Good, Follows
<1>5. H + HashmapMaxLen <= i + CollisionGuard + 1
  BY <1>1, <1>2, <1>3
<1> QED
  BY <1>1, <1>2, <1>3, <1>4, <1>5

\* So the packets that answer a request may join the queue.
LEMMA AnswerFits ==
  ASSUME NEW s, NEW H \in Nat, NEW r, Follows(s, H, r), Good(r), 0 < r.height,
         NEW m, NEW parts \in InOrder(Answer(s, m)), NEW G \in Nat,
         m.exhausted \in BOOLEAN,
         m.exhausted => /\ PartIndex(s, m) \div HashmapMaxLen \in Nat
                        /\ (PartIndex(s, m) \div HashmapMaxLen) * HashmapMaxLen <= G
  PROVE  Fits(AnswerPackets(s, m, parts), H, G, r)
<1> DEFINE A == Answer(s, m)
           c == Cardinality(A)
           d == [k \in DOMAIN parts |-> Part(parts[k])]
           u == HashmapUpdate(PartIndex(s, m) \div HashmapMaxLen)
           e == AnswerPackets(s, m, parts)
<1>1. c \in Nat
  <2>1. IsFiniteSet(Parts)
    BY ResourceAssumption, FS_Interval DEF Parts
  <2>2. A \in SUBSET Parts
    BY DEF Answer, Offered
  <2>3. IsFiniteSet(A)
    BY <2>1, <2>2, FS_Subset
  <2> QED
    BY <2>3, FS_CardinalityType
<1>2. parts \in [1..c -> A]
  BY DEF InOrder
<1>3. \A k \in 1..c : parts[k] \in Offered(s)
  BY <1>2 DEF Answer
<1>4. \A k \in 1..c : parts[k] \in Parts
  BY <1>3 DEF Offered
<1> HIDE DEF A, c
<1>5. d \in Seq(Answers) /\ Len(d) = c
  <2>1. \A k \in 1..c : Part(parts[k]) \in Answers
    BY <1>4 DEF Part, Answers
  <2>2. d \in [1..c -> Answers]
    BY <1>2, <2>1
  <2> QED
    BY <1>1, <2>2
<1>6. \A k \in 1..c : d[k].type = "part" /\ d[k].index = parts[k]
  BY <1>2 DEF Part
<1>7. m.exhausted => /\ u \in Answers /\ u.type = "hashmap" /\ Start(u) <= G
  BY DEF HashmapUpdate, Answers, Start
<1>8. e = d \o (IF m.exhausted THEN <<u>> ELSE <<>>)
  BY DEF AnswerPackets
<1> HIDE DEF d, u, e
<1>9. \A k \in 1..c : /\ d[k].type # "hashmap"
                      /\ 0 < r.height
                      /\ r.height <= d[k].index + CollisionGuard + 1
                      /\ d[k].index <= r.completed + CollisionGuard
                      /\ H + HashmapMaxLen <= d[k].index + CollisionGuard + 1
  BY <1>3, <1>6, OfferFits
<1>10. CASE ~m.exhausted
  <2>1. e = d
    BY <1>5, <1>8, <1>10
  <2>2. Fits(e, H, G, r)
    BY <2>1, <1>5, <1>6, <1>9 DEF Fits
  <2> QED
    BY <2>2 DEF e
<1>11. CASE m.exhausted
  <2>1. e = Append(d, u)
    BY <1>5, <1>7, <1>8, <1>11
  <2>2. e \in Seq(Answers) /\ Len(e) = c + 1
    BY <2>1, <1>1, <1>5, <1>7, <1>11
  <2>3. /\ \A k \in 1..c : e[k] = d[k]
        /\ e[c + 1] = u
    BY <2>1, <1>1, <1>5
  <2>4. \A k \in 1..(c + 1) : k \in 1..c \/ k = c + 1
    BY <1>1
  <2>5. \A j, k \in 1..(c + 1) : j < k => j \in 1..c
    BY <1>1
  <2>6. u.type # "part"
    BY <1>7, <1>11
  <2>7. Fits(e, H, G, r)
    BY <2>2, <2>3, <2>4, <2>5, <2>6, <1>7, <1>9, <1>11 DEF Fits
  <2> QED
    BY <2>7 DEF e
<1> QED
  BY <1>10, <1>11

\* A request for more hashmap is never a misaligned one, and the sender then
\* follows the receiver to the height that it was built at.
LEMMA AnsweredFollows ==
  ASSUME NEW s, NEW H \in Nat, NEW r, Follows(s, H, r), Good(r),
         NEW m \in Requests, m.type = "request", NEW h \in Nat, Names(m, h, r),
         0 < h, H <= h, h <= r.height
  PROVE  LET G == IF m.exhausted THEN h ELSE H IN
         /\ ~Misaligned(s, m)
         /\ Follows(Answered(s, m), G, r)
         /\ m.exhausted => /\ PartIndex(s, m) \div HashmapMaxLen \in Nat
                           /\ (PartIndex(s, m) \div HashmapMaxLen) * HashmapMaxLen <= G
<1> DEFINE n == Answered(s, m)
<1>1. m.exhausted \in BOOLEAN
  BY DEF Requests
<1>2. DOMAIN n = DOMAIN s
  BY DEF Answered
<1>3. n.min_height = IF m.exhausted THEN NextMinHeight(PartIndex(s, m)) ELSE s.min_height
  BY DEF Answered, Follows
<1> HIDE DEF n
<1>4. CASE ~m.exhausted
  <2>1. Follows(n, H, r)
    BY <1>2, <1>3, <1>4 DEF Follows
  <2> QED
    BY <2>1, <1>4 DEF Misaligned, n
<1>5. CASE m.exhausted
  <2>1. PartIndex(s, m) = h
    BY <1>5, PartIndexFound
  <2>2. Aligned(h) /\ h <= r.completed + 1 + WindowMax
    BY <1>5 DEF Names
  <2>3. /\ h % HashmapMaxLen = 0 /\ h \div HashmapMaxLen \in Nat
        /\ (h \div HashmapMaxLen) * HashmapMaxLen = h
    BY <2>2, AlignedDivides
  <2>4. n.min_height = NextMinHeight(h)
    BY <2>1, <1>3, <1>5
  <2>5. r.completed \in -1..(TotalParts - 1) /\ r.height \in Nat /\ WindowMax \in Nat
        /\ TotalParts \in Nat /\ HashmapMaxLen \in Nat /\ r.height <= H + HashmapMaxLen
    BY ResourceAssumption DEF Good, Follows
  <2>6. NextMinHeight(h) <= r.completed + 1
    BY <2>2, <2>5 DEF NextMinHeight
  <2>7. r.height <= h + HashmapMaxLen
    BY <2>5
  <2>8. Follows(n, h, r)
    BY <2>2, <2>4, <2>6, <2>7, <1>2 DEF Follows
  <2>9. h <= h
    OBVIOUS
  <2> QED
    BY <2>1, <2>3, <2>8, <2>9, <1>5 DEF Misaligned, n
<1> QED
  BY <1>1, <1>4, <1>5

\* What handling the first request leaves of the queue asks for the same.
LEMMA RecordedSame ==
  ASSUME NEW q \in Seq(Requests), q # <<>>, q[1].type = "request",
         NEW rest \in Remaining(q), rest \in Seq(Requests), NEW p,
         p = IF rest = q THEN [Aged(rest) EXCEPT ![1].seen = 1] ELSE Aged(rest)
  PROVE  SameRequests(rest, p)
<1>1. SameRequests(rest, Aged(rest))
  BY AgedSame
<1>2. CASE rest = q
  BY <1>1, <1>2, MarkedSame
<1>3. CASE rest # q
  BY <1>1, <1>3
<1> QED
  BY <1>2, <1>3

LEMMA HandleRequestWhole ==
  ASSUME TransferInv, handle_request
  PROVE  /\ Whole(sender', receiver', toSender', toReceiver')
         /\ sender'.status = "Failed" => sender.status = "Failed"
<1>1. Sound(receiver) /\ Good(receiver)
  BY DEF TransferInv, Whole
<1>2. PICK H \in Nat : \E hs \in Seq(Nat) :
        /\ Follows(sender, H, receiver) /\ Asked(toSender, hs, H, receiver)
        /\ Told(toReceiver, H, receiver)
  BY PickWhole DEF TransferInv
<1>3. PICK hs \in Seq(Nat) :
        /\ Follows(sender, H, receiver) /\ Asked(toSender, hs, H, receiver)
        /\ Told(toReceiver, H, receiver)
  BY <1>2
<1> DEFINE m == Head(toSender)
<1>4. PICK rest \in Remaining(toSender) :
        /\ m.type = "request"
        /\ IF sender.status \in Final \/ Recorded(m)
           THEN toSender' = rest /\ UNCHANGED <<sender, toReceiver>>
           ELSE /\ toSender' = IF rest = toSender
                               THEN [Aged(rest) EXCEPT ![1].seen = 1] ELSE Aged(rest)
                /\ IF Misaligned(sender, m)
                   THEN /\ sender' = [Answered(sender, m) EXCEPT
                                        !.status = "Failed", !.retries = MaxRetries]
                        /\ UNCHANGED toReceiver
                   ELSE /\ sender' = Answered(sender, m)
                        /\ \E parts \in InOrder(Answer(sender, m)) :
                             toReceiver' = toReceiver \o AnswerPackets(sender, m, parts)
        /\ UNCHANGED receiver
  BY DEF handle_request
<1>5. /\ toSender # <<>> /\ m = toSender[1] /\ 1 \in 1..Len(toSender)
      /\ toSender \in Seq(Requests) /\ rest \in Seq(Requests)
  BY <1>3, RestAsked
<1>6. CASE sender.status \in Final \/ Recorded(m)
  <2>1. PICK left \in Seq(Nat) : Asked(rest, left, H, receiver)
    BY <1>3, RestAsked
  <2> QED
    BY <2>1, <1>1, <1>3, <1>4, <1>6 DEF Whole
<1>7. CASE ~(sender.status \in Final \/ Recorded(m))
  <2> DEFINE h == hs[1]
             G == IF m.exhausted THEN h ELSE H
  <2>1. m \in Requests
    BY <1>5
  <2>2. h \in Nat /\ 0 < h /\ H <= h /\ h <= receiver.height /\ Names(m, h, receiver)
    BY <1>3, <1>5 DEF Asked
  <2>3. m.exhausted \in BOOLEAN
    BY <2>1, <1>4 DEF Requests
  <2> HIDE DEF m, h
  <2>4. /\ ~Misaligned(sender, m)
        /\ Follows(Answered(sender, m), G, receiver)
        /\ m.exhausted => /\ PartIndex(sender, m) \div HashmapMaxLen \in Nat
                          /\ (PartIndex(sender, m) \div HashmapMaxLen) * HashmapMaxLen <= G
    BY <2>1, <2>2, <1>1, <1>3, <1>4, AnsweredFollows
  <2>5. G \in Nat /\ H <= G
    BY <2>2
  <2>6. 0 < receiver.height
    BY <2>2, <1>1 DEF Good
  <2>7. Asked(toSender, hs, G, receiver)
    <3>1. Asked(toSender, hs, h, receiver)
      BY <1>3, <1>5, AskedAnswered DEF h
    <3> QED
      BY <3>1, <1>3
  <2> HIDE DEF G
  <2>8. PICK left \in Seq(Nat) : Asked(rest, left, G, receiver)
    BY <2>5, <2>7, RestAsked
  <2>9. toSender' = IF rest = toSender
                    THEN [Aged(rest) EXCEPT ![1].seen = 1] ELSE Aged(rest)
    BY <1>4, <1>7
  <2>10. SameRequests(rest, toSender')
    BY <2>9, <1>4, <1>5, RecordedSame
  <2>11. Asked(toSender', left, G, receiver)
    BY <2>5, <2>8, <2>10, AskedSame
  <2>12. sender' = Answered(sender, m) /\ receiver' = receiver
    BY <2>4, <1>4, <1>7
  <2>13. PICK parts \in InOrder(Answer(sender, m)) :
           toReceiver' = toReceiver \o AnswerPackets(sender, m, parts)
    BY <2>4, <1>4, <1>7
  <2>14. Fits(AnswerPackets(sender, m, parts), H, G, receiver)
    BY <2>3, <2>4, <2>5, <2>6, <1>1, <1>3, AnswerFits
  <2>15. Told(toReceiver', G, receiver)
    BY <2>5, <2>13, <2>14, <1>3, ToldMore
  <2>16. sender'.status # "Failed"
    BY <2>12, <1>3 DEF Answered, Follows
  <2> QED
    BY <2>4, <2>5, <2>11, <2>12, <2>15, <2>16, <1>1 DEF Whole
<1> QED
  BY <1>6, <1>7

\* The sender's other steps move neither height: its status and retries change
\* and an advertisement may join the queue.
LEMMA SenderWhole ==
  ASSUME TransferInv, NEW s, DOMAIN s = DOMAIN sender, s.min_height = sender.min_height,
         NEW down, down \in {toReceiver, Append(toReceiver, Advertisement)},
         NEW up \in {toSender} \cup Remaining(toSender)
  PROVE  Whole(s, receiver, up, down)
<1>1. Sound(receiver) /\ Good(receiver)
  BY DEF TransferInv, Whole
<1>2. PICK H \in Nat : \E hs \in Seq(Nat) :
        /\ Follows(sender, H, receiver) /\ Asked(toSender, hs, H, receiver)
        /\ Told(toReceiver, H, receiver)
  BY PickWhole DEF TransferInv
<1>3. PICK hs \in Seq(Nat) :
        /\ Follows(sender, H, receiver) /\ Asked(toSender, hs, H, receiver)
        /\ Told(toReceiver, H, receiver)
  BY <1>2
<1>4. Follows(s, H, receiver)
  BY <1>3 DEF Follows
<1>5. \E left \in Seq(Nat) : Asked(up, left, H, receiver)
  BY <1>3, RestAsked
<1>6. Told(down, H, receiver)
  <2> DEFINE e == <<Advertisement>>
  <2>1. e \in Seq(Answers) /\ Len(e) = 1 /\ e[1].type = "advertisement"
    BY DEF Advertisement, Answers
  <2>2. 1..Len(e) = {1}
    BY <2>1
  <2> HIDE DEF e
  <2>3. Fits(e, H, H, receiver)
    BY <2>1, <2>2 DEF Fits
  <2>4. Told(toReceiver \o e, H, receiver)
    BY <2>3, <1>3, ToldMore
  <2>5. toReceiver \o e = Append(toReceiver, Advertisement)
    <3>1. toReceiver \in Seq(Answers) /\ Advertisement \in Answers
      BY <1>3 DEF Told, Advertisement, Answers
    <3> QED
      BY <3>1 DEF e
  <2> QED
    BY <2>4, <2>5, <1>3
<1> QED
  BY <1>1, <1>4, <1>5, <1>6 DEF Whole

\* A lost packet leaves the rest of its queue.
LEMMA LoseWhole ==
  ASSUME TransferInv, Lose
  PROVE  Whole(sender', receiver', toSender', toReceiver')
<1>1. CASE toSender # <<>> /\ toSender' = Tail(toSender) /\ UNCHANGED toReceiver
  <2>1. Tail(toSender) \in Remaining(toSender)
    BY <1>1 DEF Remaining
  <2>2. Whole(sender, receiver, Tail(toSender), toReceiver)
    BY <2>1, SenderWhole
  <2> QED
    BY <2>2, <1>1 DEF Lose
<1>2. CASE toReceiver # <<>> /\ toReceiver' = Tail(toReceiver) /\ UNCHANGED toSender
  <2>1. Whole(sender, receiver, toSender, Tail(toReceiver))
    BY <1>2, ToldTail DEF TransferInv, Whole
  <2> QED
    BY <2>1, <1>2 DEF Lose
<1> QED
  BY <1>1, <1>2 DEF Lose

\* The steps of the sender on its own.
SenderStep ==
  Advertise \/ validate_proof \/ check_timeout_advertised \/ check_timeout_proof
    \/ check_timeout_sender

LEMMA SenderStepWhole ==
  ASSUME TransferInv, SenderStep
  PROVE  Whole(sender', receiver', toSender', toReceiver')
<1>1. /\ DOMAIN sender' = DOMAIN sender
      /\ sender'.min_height = sender.min_height
  <2>1. {"status", "min_height"} \subseteq DOMAIN sender
    BY DEF TransferInv, Whole, Follows
  <2> QED
    BY <2>1 DEF SenderStep, Advertise, validate_proof, check_timeout_advertised,
         check_timeout_proof, check_timeout_sender
<1>2. /\ receiver' = receiver
      /\ toReceiver' \in {toReceiver, Append(toReceiver, Advertisement)}
      /\ toSender' \in {toSender} \cup Remaining(toSender)
  BY DEF SenderStep, Advertise, validate_proof, check_timeout_advertised,
       check_timeout_proof, check_timeout_sender
<1> QED
  BY <1>1, <1>2, SenderWhole

LEMMA InitTransfer ==
  ASSUME HashesNamed, Init
  PROVE  TransferInv
<1>1. /\ receiver = NewReceiver /\ sender = NewSender
      /\ toSender = <<>> /\ toReceiver = <<>>
  BY DEF Init
<1>2. /\ TotalParts \in Nat \ {0} /\ Parts = 0..(TotalParts - 1) /\ HashmapMaxLen \in Nat
  BY ResourceAssumption DEF Parts
<1>3. Aligned(0)
  <2>1. 0 = 0 * HashmapMaxLen /\ 0 \in Nat
    BY <1>2
  <2> QED
    BY <2>1 DEF Aligned
<1>4. Counted(NewReceiver)
  <2>1. {i \in Parts : NewReceiver.received[i] # Missing} = {}
    BY DEF NewReceiver
  <2>2. NewReceiver.count = 0 /\ NewReceiver.completed = -1 /\ NewReceiver.height = 0
    BY DEF NewReceiver
  <2>3. \A i \in Parts : /\ NewReceiver.received[i] = Missing
                         /\ NewReceiver.hashmap[i] = Unknown
                         /\ i >= 0 /\ i \in Nat
    BY <1>2 DEF NewReceiver
  <2>4. NewReceiver.count = Cardinality({i \in Parts : NewReceiver.received[i] # Missing})
    BY <2>1, <2>2, FS_EmptySet
  <2>5. \A i \in Parts : ~(i <= NewReceiver.completed) /\ ~(i < NewReceiver.height)
    BY <2>2, <2>3
  <2>6. NewReceiver.completed + 1 \in Parts =>
          NewReceiver.received[NewReceiver.completed + 1] = Missing
    BY <2>3
  <2> QED
    BY <2>3, <2>4, <2>5, <2>6 DEF Counted
<1>5. Good(NewReceiver)
  BY <1>2, <1>3, <1>4 DEF Good, Kept, NewReceiver
<1>6. Sound(receiver)
  BY InitSound
<1>7. Follows(NewSender, 0, NewReceiver)
  BY <1>2, <1>3, ResourceAssumption DEF Follows, NewSender, NewReceiver, NextMinHeight
<1>8. Asked(<<>>, <<>>, 0, NewReceiver) /\ Told(<<>>, 0, NewReceiver)
  BY DEF Asked, Told
<1>9. \E H \in Nat, hs \in Seq(Nat) : /\ Follows(NewSender, H, NewReceiver)
                                      /\ Asked(<<>>, hs, H, NewReceiver)
                                      /\ Told(<<>>, H, NewReceiver)
  <2>1. 0 \in Nat /\ <<>> \in Seq(Nat)
    OBVIOUS
  <2> QED
    BY <2>1, <1>7, <1>8
<1>10. Sound(NewReceiver)
  BY <1>1, <1>6
<1> QED
  BY <1>1, <1>5, <1>9, <1>10 DEF TransferInv, Whole

LEMMA NextTransfer ==
  ASSUME TransferInv, [Next]_vars
  PROVE  Whole(sender', receiver', toSender', toReceiver')
<1>1. CASE SenderStep
  BY <1>1, SenderStepWhole
<1>2. CASE handle_request
  BY <1>2, HandleRequestWhole
<1>3. CASE start_receive
  BY <1>3, StartWhole
<1>4. CASE hashmap_update
  BY <1>4, HashmapWhole
<1>5. CASE part_arrives
  BY <1>5, PartWhole
<1>6. CASE check_timeout_receiver
  BY <1>6, TimeoutWhole
<1>7. CASE Lose
  BY <1>7, LoseWhole
<1>8. CASE UNCHANGED vars
  BY <1>8 DEF vars, TransferInv
<1> QED
  BY <1>1, <1>2, <1>3, <1>4, <1>5, <1>6, <1>7, <1>8 DEF Next, SenderStep

LEMMA TransferInvariant ==
  ASSUME HashesNamed
  PROVE  Spec => []TransferInv
<1>1. Init => TransferInv
  BY InitTransfer
<1>2. TransferInv /\ [Next]_vars => TransferInv'
  BY NextTransfer DEF TransferInv
<1> QED
  BY <1>1, <1>2, PTL DEF Spec

\* The counters of receive_part and apply_hashmap (received_count,
\* consecutive_completed_height, hashmap_height) agree with what was received,
\* for every resource none of whose map hashes is zero and every loss, repetition
\* and timeout.  A zero hash is counted again with every repeated segment.
THEOREM CountersInAgreement ==
  ASSUME HashesNamed
  PROVE  Spec => []CountersAgree
<1>1. TransferInv => CountersAgree
  BY DEF TransferInv, Whole, Good, Counted, CountersAgree
<1> QED
  BY <1>1, TransferInvariant, PTL

\* receive_part and handle_request never take one part for another with the
\* same map hash, however many parts of the resource share one: the collision
\* guard of Resource::new is wide enough for both searches.  For resources none
\* of whose map hashes is zero.
THEOREM PartsNeverMixed ==
  ASSUME HashesNamed
  PROVE  Spec => []PartsInPlace
<1>1. TransferInv => PartsInPlace
  BY DEF TransferInv, Whole, Good, PartsInPlace
<1> QED
  BY <1>1, TransferInvariant, PTL

\* handle_request never fails a transfer as misaligned: the sender gives up in
\* check_timeout only, when no retry is left.  For resources none of whose map
\* hashes is zero: a receiver that takes one for unknown asks for hashmap beyond
\* the last segment, and that request may be a misaligned one.
THEOREM SenderFailsOutOfBudget ==
  ASSUME HashesNamed
  PROVE  Spec => FailsOutOfBudget
<1>1. TransferInv /\ [Next]_vars =>
        [sender'.status = "Failed" /\ sender.status # "Failed" =>
           IF sender.status = "Advertised" THEN sender.adv_retries = 0
           ELSE sender.retries = 0]_vars
  <2> SUFFICES ASSUME TransferInv, Next,
                      sender'.status = "Failed", sender.status # "Failed"
               PROVE  IF sender.status = "Advertised" THEN sender.adv_retries = 0
                      ELSE sender.retries = 0
    BY DEF vars
  <2>1. {"status", "min_height"} \subseteq DOMAIN sender
    BY DEF TransferInv, Whole, Follows
  <2>2. CASE handle_request
    BY <2>2, HandleRequestWhole
  <2>3. CASE Advertise \/ validate_proof
    BY <2>1, <2>3 DEF Advertise, validate_proof
  <2>4. CASE check_timeout_advertised
    BY <2>1, <2>4 DEF check_timeout_advertised
  <2>5. CASE check_timeout_proof
    BY <2>1, <2>5 DEF check_timeout_proof
  <2>6. CASE check_timeout_sender
    BY <2>1, <2>6 DEF check_timeout_sender
  <2>7. CASE UNCHANGED sender
    BY <2>7
  <2> QED
    BY <2>2, <2>3, <2>4, <2>5, <2>6, <2>7 DEF Next, start_receive, hashmap_update,
       part_arrives, check_timeout_receiver, Lose
<1> QED
  BY <1>1, TransferInvariant, PTL DEF Spec, FailsOutOfBudget
=============================================================================
