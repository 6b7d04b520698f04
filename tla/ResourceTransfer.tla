-------------------------- MODULE ResourceTransfer --------------------------
(***************************************************************************)
(* The transfer of one resource over an active link                        *)
(* (src/src/destination/resource.rs): the sender cuts an encrypted stream  *)
(* into parts and advertises it with the first segment of its hashmap; the *)
(* receiver requests parts by their 4-byte map hashes, a window at a time, *)
(* and asks for the next hashmap segment when its own is used up; the      *)
(* sender answers, and waits for the proof of the whole.                   *)
(*                                                                         *)
(* Resource only keeps state and builds payloads: the loop that sends them *)
(* and calls check_timeout is the application's.  It is modelled as the    *)
(* tests of resource.rs drive it: one resource per hash, a new request     *)
(* when no requested part is outstanding or a hashmap segment arrived,     *)
(* assembly when all parts are there, and nothing more for a resource that *)
(* has reached a final status.                                             *)
(*                                                                         *)
(* Packets of one link follow one route through queues, so each direction  *)
(* is a sequence that may lose packets and deliver one twice.  A part is   *)
(* identified by its index, its map hash is MapHash[index]: the code makes *)
(* map hashes distinct only among parts at most CollisionGuard apart, and  *)
(* does not exclude the one it takes for unknown.                          *)
(* Round-trip times, rates and sizes are left out: deadlines pass when     *)
(* nothing is in flight, or too early at the cost of a fault.  req_sent is *)
(* never set by the code, so the fast-rate branch of receive_part, which   *)
(* would raise the window's limit, is never taken.                         *)
(***************************************************************************)
EXTENDS Integers, Sequences, FiniteSets, FiniteSetsExt

CONSTANTS
  TotalParts,         \* total_parts
  MapHash,            \* the map hash of each part, as a number
  HashmapMaxLen,      \* hashmap_max_len(sdu): hashes per hashmap segment
  Window,             \* WINDOW (4 in the code)
  WindowMin,          \* WINDOW_MIN (2)
  WindowMaxSlow,      \* WINDOW_MAX_SLOW (10)
  WindowMax,          \* WINDOW_MAX (75)
  WindowFlexibility,  \* WINDOW_FLEXIBILITY (4)
  MaxRetries,         \* MAX_RETRIES (16)
  MaxAdvRetries,      \* MAX_ADV_RETRIES (4)
  MaxFaults           \* environment: losses, repeats and early timeouts

Parts == 0..(TotalParts - 1)

\* Four zero bytes in the receiver's hashmap: the hash is not known yet, or it
\* is zero.
Unknown == 0

\* collision_guard_size: Resource::new keeps parts this close distinguishable.
CollisionGuard == 2 * WindowMax + HashmapMaxLen

ASSUME ResourceAssumption ==
  /\ TotalParts \in Nat \ {0}
  /\ MapHash \in [Parts -> Nat]
  /\ HashmapMaxLen \in Nat \ {0}
  /\ WindowMin \in Nat \ {0}
  /\ Window \in Nat /\ WindowMaxSlow \in Nat /\ WindowMax \in Nat
  /\ WindowMin <= Window /\ Window <= WindowMaxSlow /\ WindowMaxSlow <= WindowMax
  /\ WindowFlexibility \in Nat \ {0}
  /\ MaxRetries \in Nat \ {0}
  /\ MaxAdvRetries \in Nat
  /\ MaxFaults \in Nat

ASSUME HashesGuarded ==
  \A i, j \in Parts : i < j /\ j - i <= CollisionGuard => MapHash[i] # MapHash[j]

\* No part hashes to four zero bytes.  Resource::new does not see to it: it is
\* true of all but one in 2^32 parts.
HashesNamed == \A i \in Parts : MapHash[i] # Unknown

VARIABLES
  sender,      \* the sender's Resource
  receiver,    \* the receiver's Resource
  toReceiver,  \* packets in flight to the receiver
  toSender,    \* packets in flight to the sender
  faults       \* how many faults happened

vars == <<sender, receiver, toReceiver, toSender, faults>>

Final == {"Complete", "Failed", "Corrupt", "Panicked"}

\* A part that has not been received.
Missing == -1

-----------------------------------------------------------------------------
(* The payloads.  seen is the place of a request's packet hash in the      *)
(* sender's req_hashlist: 0 when it is not recorded, otherwise how many    *)
(* hashes were recorded from it on.                                        *)

Segment(s) ==
  LET start == s * HashmapMaxLen IN
  {i \in Parts : start <= i /\ i < start + HashmapMaxLen}

Advertisement == [type |-> "advertisement"]

HashmapUpdate(s) == [type |-> "hashmap", segment |-> s]

Part(i) == [type |-> "part", index |-> i]

Proof == [type |-> "proof"]

Request(exhausted, last, hashes) ==
  [type |-> "request", exhausted |-> exhausted, last |-> last,
   hashes |-> hashes, seen |-> 0]

-----------------------------------------------------------------------------
(* The receiver's Resource. *)

NewReceiver ==
  [status |-> "None", hashmap |-> [i \in Parts |-> Unknown], height |-> 0,
   received |-> [i \in Parts |-> Missing], count |-> 0, outstanding |-> 0,
   completed |-> -1, waiting |-> FALSE, window |-> Window,
   window_min |-> WindowMin, window_max |-> WindowMaxSlow,
   retries |-> MaxRetries]

\* The parts that the window spans, from the first one missing on.
Searched(r) ==
  {i \in Parts : r.completed + 1 <= i /\ i < r.completed + 1 + r.window}

apply_hashmap(r, s) ==
  [r EXCEPT !.hashmap = [i \in Parts |-> IF i \in Segment(s) THEN MapHash[i]
                                         ELSE r.hashmap[i]],
            !.height = r.height +
                         Cardinality({i \in Segment(s) : r.hashmap[i] = Unknown}),
            !.waiting = FALSE]

\* The missing parts of the window whose hash is not known.
Unnamed(r) ==
  {i \in Searched(r) : r.received[i] = Missing /\ r.hashmap[i] = Unknown}

\* The missing parts that build_request names: those before the first unnamed.
Requested(r) ==
  {i \in Searched(r) : r.received[i] = Missing /\ \A u \in Unnamed(r) : i < u}

Exhausted(r) == Unnamed(r) # {}

\* build_request: the resource afterwards ...
AfterRequest(r) ==
  [r EXCEPT !.outstanding = Cardinality(Requested(r)), !.waiting = Exhausted(r)]

\* ... and the request itself.  With no hash known, none is sent as the last.
build_request(r) ==
  Request(Exhausted(r),
          IF Exhausted(r) /\ r.height > 0 THEN r.hashmap[r.height - 1] ELSE Unknown,
          {r.hashmap[i] : i \in Requested(r)})

\* The places of the window that an arriving part fits.
Matching(r, index) ==
  {i \in Searched(r) : r.hashmap[i] = MapHash[index] /\ r.received[i] = Missing}

\* Mutant of Grown: the window is raised without a look at its limit.
GrownPastLimit(r) ==
  IF r.outstanding = 0 THEN [r EXCEPT !.window = r.window + 1] ELSE r

\* The window grows once every requested part has arrived.
Grown(r) ==
  IF r.outstanding = 0 /\ r.window < r.window_max
  THEN [r EXCEPT !.window = r.window + 1,
                 !.window_min = IF r.window + 1 - r.window_min > WindowFlexibility - 1
                                THEN r.window_min + 1 ELSE r.window_min]
  ELSE r

\* Mutant of Stored: parts received ahead of the gap are not counted in.
StoredOneUp(r, i, index) ==
  [r EXCEPT !.received[i] = index,
            !.count = r.count + 1,
            !.outstanding = IF r.outstanding > 0 THEN r.outstanding - 1 ELSE 0,
            !.completed = IF i = r.completed + 1 THEN i ELSE r.completed]

\* The part is stored at place i and the consecutive height moves up.
Stored(r, i, index) ==
  LET received == [r.received EXCEPT ![i] = index] IN
  [r EXCEPT !.received = received,
            !.count = r.count + 1,
            !.outstanding = IF r.outstanding > 0 THEN r.outstanding - 1 ELSE 0,
            !.completed = Min({j \in (r.completed + 1)..TotalParts :
                                 j \in Parts => received[j] = Missing}) - 1]

receive_part(r, index) ==
  LET alive == [r EXCEPT !.retries = MaxRetries] IN
  IF Matching(r, index) = {} THEN alive
  ELSE Grown(Stored(alive, Min(Matching(r, index)), index))

all_parts_received(r) == r.count >= TotalParts

\* assemble: the stream hashes to the resource hash only if it is in order.
assemble(r) ==
  [r EXCEPT !.status = IF \A i \in Parts : r.received[i] = i
                       THEN "Complete" ELSE "Corrupt"]

\* The window after a timeout.
Shrunk(r) ==
  IF r.window > r.window_min
  THEN LET window == r.window - 1
           limit == IF r.window_max > r.window_min THEN r.window_max - 1
                    ELSE r.window_max
           gap == r.window_max > r.window_min /\ limit - window > WindowFlexibility - 1
       IN [r EXCEPT !.window = window, !.window_max = IF gap THEN limit - 1 ELSE limit]
  ELSE r

\* Mutant of Retried: the retry is not counted.
RetriedFreely(r) == [Shrunk(r) EXCEPT !.waiting = FALSE]

\* A retry costs one of the budget and no longer waits for the hashmap.
Retried(r) == [Shrunk(r) EXCEPT !.retries = r.retries - 1, !.waiting = FALSE]

-----------------------------------------------------------------------------
(* The sender's Resource. *)

NewSender ==
  [status |-> "None", sent |-> {}, min_height |-> 0, retries |-> MaxRetries,
   adv_retries |-> MaxAdvRetries]

\* Mutant of Offered: the search runs to the end of the resource.
OfferedUnguarded(s) == {i \in Parts : s.min_height <= i}

\* The parts that the sender looks at, receiver_min_consecutive_height on.
Offered(s) ==
  {i \in Parts : s.min_height <= i /\ i < s.min_height + CollisionGuard}

Answer(s, request) == {i \in Offered(s) : MapHash[i] \in request.hashes}

\* Mutant of PartIndex: the last known part instead of the one after it.
PartIndexOfLast(s, request) ==
  LET known == {i \in Offered(s) : MapHash[i] = request.last} IN
  IF known = {} THEN s.min_height ELSE Min(known)

\* The index after the last part whose hash the receiver knows.
PartIndex(s, request) ==
  LET known == {i \in Offered(s) : MapHash[i] = request.last} IN
  IF known = {} THEN s.min_height ELSE Min(known) + 1

\* receiver_min_consecutive_height after a request for more hashmap.
NextMinHeight(index) == IF index > 1 + WindowMax THEN index - (1 + WindowMax) ELSE 0

\* Requests whose packet hash is still in req_hashlist.
Recorded(request) == request.seen \in 1..(4 * MaxRetries)

\* Recording one more packet hash moves the earlier ones down.
Aged(packets) ==
  [k \in 1..Len(packets) |->
     IF packets[k].type = "request" /\ packets[k].seen > 0
     THEN [packets[k] EXCEPT !.seen = @ + 1] ELSE packets[k]]

-----------------------------------------------------------------------------
(* The network and the deadlines. *)

\* What may be left of a queue once its first packet is handled: the packet
\* is taken off it, or it is repeated and arrives once more.
Remaining(queue) == IF queue = <<>> THEN {} ELSE {Tail(queue), queue}

\* A repeated packet is a fault.
Delivered(queue, rest) ==
  IF rest = queue THEN faults < MaxFaults /\ faults' = faults + 1
  ELSE UNCHANGED faults

\* The link loses the first packet of a queue.
Lose ==
  /\ faults < MaxFaults
  /\ faults' = faults + 1
  /\ \/ toReceiver # <<>> /\ toReceiver' = Tail(toReceiver) /\ UNCHANGED toSender
     \/ toSender # <<>> /\ toSender' = Tail(toSender) /\ UNCHANGED toReceiver
  /\ UNCHANGED <<sender, receiver>>

\* A deadline passes: nothing is under way any more, or it passes too early.
DeadlinePasses ==
  \/ toReceiver = <<>> /\ toSender = <<>> /\ UNCHANGED faults
  \/ faults < MaxFaults /\ faults' = faults + 1

-----------------------------------------------------------------------------
(* The sender's steps. *)

Init ==
  /\ sender = NewSender
  /\ receiver = NewReceiver
  /\ toReceiver = <<>>
  /\ toSender = <<>>
  /\ faults = 0

\* The application sends the advertisement of a new resource.
Advertise ==
  /\ sender.status = "None"
  /\ sender' = [sender EXCEPT !.status = "Advertised"]
  /\ toReceiver' = Append(toReceiver, Advertisement)
  /\ UNCHANGED <<receiver, toSender, faults>>

\* The sender after a request that it answers.
Answered(s, request) ==
  LET sent == s.sent \cup Answer(s, request)
      done == sent = Parts
  IN [s EXCEPT !.status = IF done THEN "AwaitingProof" ELSE "Transferring",
               !.sent = sent,
               !.min_height = IF request.exhausted
                              THEN NextMinHeight(PartIndex(s, request))
                              ELSE s.min_height,
               !.retries = IF done THEN 3 ELSE MaxRetries]

\* A request for more hashmap that does not end a segment fails the transfer.
Misaligned(s, request) ==
  request.exhausted /\ PartIndex(s, request) % HashmapMaxLen # 0

\* The one sequence of a set of parts in which the search comes upon them.
InOrder(parts) ==
  {q \in [1..Cardinality(parts) -> parts] :
     \A k, l \in DOMAIN q : k < l => q[k] < q[l]}

\* The packets that answer a request: parts in order, then the hashmap.
AnswerPackets(s, request, parts) ==
  LET segment == PartIndex(s, request) \div HashmapMaxLen IN
  [k \in DOMAIN parts |-> Part(parts[k])]
    \o (IF request.exhausted THEN <<HashmapUpdate(segment)>> ELSE <<>>)

handle_request ==
  \E rest \in Remaining(toSender) :
    LET request == Head(toSender) IN
    /\ Delivered(toSender, rest)
    /\ request.type = "request"
    /\ IF sender.status \in Final \/ Recorded(request)
       THEN toSender' = rest /\ UNCHANGED <<sender, toReceiver>>
       ELSE /\ toSender' = IF rest = toSender
                           THEN [Aged(rest) EXCEPT ![1].seen = 1] ELSE Aged(rest)
            /\ IF Misaligned(sender, request)
               THEN /\ sender' = [Answered(sender, request) EXCEPT
                                    !.status = "Failed", !.retries = MaxRetries]
                    /\ UNCHANGED toReceiver
               ELSE /\ sender' = Answered(sender, request)
                    /\ \E parts \in InOrder(Answer(sender, request)) :
                         toReceiver' = toReceiver \o AnswerPackets(sender, request, parts)
    /\ UNCHANGED receiver

\* The proof covers the whole plaintext; a sender that has it is done.
validate_proof ==
  \E rest \in Remaining(toSender) :
    /\ Delivered(toSender, rest)
    /\ Head(toSender).type = "proof"
    /\ toSender' = rest
    /\ sender' = IF sender.status \in Final THEN sender
                 ELSE [sender EXCEPT !.status = "Complete"]
    /\ UNCHANGED <<receiver, toReceiver>>

\* check_timeout of a sender whose advertisement is not answered.
check_timeout_advertised ==
  /\ sender.status = "Advertised"
  /\ DeadlinePasses
  /\ IF sender.adv_retries = 0
     THEN sender' = [sender EXCEPT !.status = "Failed"] /\ UNCHANGED toReceiver
     ELSE /\ sender' = [sender EXCEPT !.adv_retries = @ - 1]
          /\ toReceiver' = Append(toReceiver, Advertisement)
  /\ UNCHANGED <<receiver, toSender>>

\* check_timeout of a sender that waits for the proof; what RetryProof makes
\* the application do brings no proof back.
check_timeout_proof ==
  /\ sender.status = "AwaitingProof"
  /\ DeadlinePasses
  /\ sender' = IF sender.retries = 0 THEN [sender EXCEPT !.status = "Failed"]
               ELSE [sender EXCEPT !.retries = @ - 1]
  /\ UNCHANGED <<receiver, toReceiver, toSender>>

\* check_timeout of a sender in the middle of the transfer calls build_request,
\* which indexes received_parts: empty on this side.
check_timeout_sender ==
  /\ sender.status = "Transferring"
  /\ DeadlinePasses
  /\ sender' = IF sender.retries = 0 THEN [sender EXCEPT !.status = "Failed"]
               ELSE [sender EXCEPT !.retries = @ - 1, !.status = "Panicked"]
  /\ UNCHANGED <<receiver, toReceiver, toSender>>

-----------------------------------------------------------------------------
(* The receiver's steps. *)

\* A zero hash counts in the hashmap's height each time its segment comes, and
\* the height may pass the end of the hashmap.
PastEnd(r) == Exhausted(r) /\ r.height > TotalParts

\* The resource asks for its next parts; past its end the hashmap is indexed out
\* of bounds.
Asks(r) ==
  IF PastEnd(r)
  THEN receiver' = [r EXCEPT !.status = "Panicked"] /\ UNCHANGED toSender
  ELSE /\ receiver' = AfterRequest(r)
       /\ toSender' = Append(toSender, build_request(r))

\* new_from_advertisement and start_receive; a known resource is not renewed.
start_receive ==
  \E rest \in Remaining(toReceiver) :
    /\ Delivered(toReceiver, rest)
    /\ Head(toReceiver).type = "advertisement"
    /\ toReceiver' = rest
    /\ IF receiver.status = "None"
       THEN Asks(apply_hashmap([receiver EXCEPT !.status = "Transferring"], 0))
       ELSE UNCHANGED <<receiver, toSender>>
    /\ UNCHANGED sender

\* A hashmap segment arrives.
hashmap_update ==
  \E rest \in Remaining(toReceiver) :
    /\ Delivered(toReceiver, rest)
    /\ Head(toReceiver).type = "hashmap"
    /\ toReceiver' = rest
    /\ IF receiver.status \in Final THEN UNCHANGED <<receiver, toSender>>
       ELSE \E r \in {apply_hashmap(receiver, Head(toReceiver).segment)} : Asks(r)
    /\ UNCHANGED sender

\* What the application does after a part: assemble and prove, or ask for more.
AfterPart(r) ==
  \/ /\ all_parts_received(r)
     /\ receiver' = assemble(r)
     /\ toSender' = IF assemble(r).status = "Complete"
                    THEN Append(toSender, Proof) ELSE toSender
  \/ /\ ~all_parts_received(r)
     /\ r.outstanding = 0 /\ ~r.waiting
     /\ Asks(r)
  \/ /\ ~all_parts_received(r)
     /\ r.outstanding # 0 \/ r.waiting
     /\ receiver' = r
     /\ UNCHANGED toSender

\* A part arrives.
part_arrives ==
  \E rest \in Remaining(toReceiver) :
    /\ Delivered(toReceiver, rest)
    /\ Head(toReceiver).type = "part"
    /\ toReceiver' = rest
    /\ IF receiver.status \in Final THEN UNCHANGED <<receiver, toSender>>
       ELSE \E r \in {receive_part(receiver, Head(toReceiver).index)} : AfterPart(r)
    /\ UNCHANGED sender

\* check_timeout of the receiver: ask again for what is missing.
check_timeout_receiver ==
  /\ receiver.status = "Transferring"
  /\ DeadlinePasses
  /\ IF receiver.retries = 0
     THEN receiver' = [receiver EXCEPT !.status = "Failed"] /\ UNCHANGED toSender
     ELSE \E r \in {Retried(receiver)} : Asks(r)
  /\ UNCHANGED <<sender, toReceiver>>

Next ==
  \/ Advertise \/ handle_request \/ validate_proof
  \/ check_timeout_advertised \/ check_timeout_proof \/ check_timeout_sender
  \/ start_receive \/ hashmap_update \/ part_arrives \/ check_timeout_receiver
  \/ Lose

Spec == Init /\ [][Next]_vars

\* The link delivers what it does not lose, and the application polls
\* check_timeout on both resources for as long as they are not final.
Fairness ==
  /\ WF_vars(handle_request \/ validate_proof)
  /\ WF_vars(start_receive \/ hashmap_update \/ part_arrives)
  /\ WF_vars(check_timeout_receiver)
  /\ WF_vars(check_timeout_advertised \/ check_timeout_proof \/ check_timeout_sender)

FairSpec == Spec /\ Fairness

-----------------------------------------------------------------------------
(* Properties. *)

\* Growing on success and shrinking on timeouts (receive_part, check_timeout)
\* keep the window between its limits, so that none of the unsigned
\* subtractions between them wraps and a window always asks for something.
WindowOrdered ==
  /\ 1 <= receiver.window_min
  /\ receiver.window_min <= receiver.window
  /\ receiver.window <= receiver.window_max
  /\ receiver.window_max <= WindowMaxSlow

\* Parts that share a map hash are never mistaken for each other: what is
\* stored at a place of received_parts is the part that belongs there, because
\* both sides search only a stretch that the collision guard covers.
PartsInPlace == \A i \in Parts : receiver.received[i] \in {Missing, i}

\* The counters that steer the transfer agree with what was received: the
\* consecutive height ends at the first missing part, the count is the number
\* of parts, the hashmap is known exactly up to its height.  True if no map hash
\* is zero (HashesNamed): such a one is counted again whenever its segment is
\* repeated (apply_hashmap).
CountersAgree ==
  /\ \A i \in Parts : i <= receiver.completed => receiver.received[i] # Missing
  /\ receiver.completed + 1 \in Parts =>
       receiver.received[receiver.completed + 1] = Missing
  /\ receiver.count = Cardinality({i \in Parts : receiver.received[i] # Missing})
  /\ \A i \in Parts : receiver.hashmap[i] = (IF i < receiver.height THEN MapHash[i]
                                             ELSE Unknown)

\* A transfer ends in failure only out of budget: the sender gives up when no
\* retry is left (check_timeout), never because a request for more hashmap is
\* taken for a misaligned one (handle_request).  True if no map hash is zero
\* (HashesNamed): such a one makes the receiver ask for more hashmap where there
\* is none (build_request).
FailsOutOfBudget ==
  [][sender'.status = "Failed" /\ sender.status # "Failed" =>
       IF sender.status = "Advertised" THEN sender.adv_retries = 0
       ELSE sender.retries = 0]_vars

\* A receiver that has begun completes the resource or gives it up: lost
\* requests, parts and hashmap segments, and a sender that is gone, are made
\* up for or end in Failed, as the documentation of check_timeout promises.
TransferConcludes == receiver.status = "Transferring" ~> receiver.status \in Final

=============================================================================
