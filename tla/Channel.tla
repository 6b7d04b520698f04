------------------------------ MODULE Channel ------------------------------
(***************************************************************************)
(* The reliable channel over a link (channel.rs): Outbound tracks every    *)
(* message until it is proved, two tasks watch over timeouts and proofs,   *)
(* Inbound puts what arrives back in order.                                *)
(*                                                                         *)
(* Two things in the code decide what becomes of a message.  A tracked     *)
(* message is filed under the hash of its packet as data_packet built it;  *)
(* the context that is set afterwards is part of the hash the peer proves. *)
(* And recalculate_all_deadlines and handle_proof take the link's lock     *)
(* with blocking_lock, which panics in a task of the runtime.              *)
(***************************************************************************)
EXTENDS Naturals, Sequences, FiniteSets, SequencesExt

CONSTANTS
  Modulus,      \* 2^16 in the code
  WINDOW_MAX,   \* how far behind next_sequence a message is still taken
  MAX_TRIES,
  MaxMessages   \* bound: messages the application sends

VARIABLES
  caller,         \* the application sends from a task, or from a thread of its own
  window,         \* ChannelParams::window, which only proofs enlarge
  sent_messages,  \* by packet hash: [sequence, message, tries, expired]
  delivered,      \* hashes that were proved
  next_tx,        \* Outbound::next_sequence
  sent,           \* messages and packets sent so far
  timeouts,       \* from timeout_monitor to outbound_event_loop
  loop,           \* outbound_event_loop: running, dead
  network,        \* channel packets on their way
  events,         \* hashes of proofs on their way back
  inbound,        \* on_hold, next_sequence, and what the peer's application got
  link,           \* active, closed
  cancelled       \* the channel was dropped

outbound == <<window, sent_messages, delivered, next_tx, sent>>
tasks == <<timeouts, loop, cancelled>>
peer == <<network, events, inbound>>
vars == <<caller, outbound, tasks, peer, link>>

Init ==
  /\ caller \in {"task", "thread"}
  /\ window \in {1, 2}  \* ChannelParams::new: a slow link, or another
  /\ sent_messages = <<>> /\ delivered = {}
  /\ next_tx = 0 /\ sent = [messages |-> 0, packets |-> 0]
  /\ timeouts = <<>> /\ loop = "running" /\ cancelled = FALSE
  /\ network = {} /\ events = {}
  /\ inbound = [on_hold |-> <<>>, next |-> 0, posted |-> <<>>]
  /\ link = "active"

\* A packet's hash covers its ciphertext, which is new each time, and its
\* context.
PacketHash(n, context) == <<n, context>>

Put(f, k, v) == [x \in DOMAIN f \cup {k} |-> IF x = k THEN v ELSE f[x]]

Without(f, k) == [x \in DOMAIN f \ {k} |-> f[x]]

\* Anew from the link's round trip time, for everything that is in flight.
recalculate_all_deadlines(messages) ==
  [h \in DOMAIN messages |-> [messages[h] EXCEPT !.expired = FALSE]]

-----------------------------------------------------------------------------
(* Outbound *)

is_ready_to_send ==
  /\ ~cancelled /\ link = "active"
  /\ Cardinality(DOMAIN sent_messages) < window

\* The message is tracked, with a deadline of now, and sent; new deadlines are
\* as far as a thread gets, a task panics.
enqueue_send ==
  /\ is_ready_to_send /\ sent.messages < MaxMessages
  /\ LET entry == [sequence |-> next_tx, message |-> sent.messages, tries |-> 1,
                   expired |-> TRUE]
         tracked == Put(sent_messages, PacketHash(sent.packets, "None"), entry)
     IN  /\ sent_messages' = IF caller = "thread" THEN recalculate_all_deadlines(tracked)
                             ELSE tracked
         /\ network' = network \cup {[hash |-> PacketHash(sent.packets, "Channel"),
                                      sequence |-> next_tx, message |-> sent.messages]}
  /\ next_tx' = (next_tx + 1) % Modulus
  /\ sent' = [messages |-> sent.messages + 1, packets |-> sent.packets + 1]
  /\ UNCHANGED <<caller, window, delivered, tasks, events, inbound, link>>

\* outbound_event_loop goes on until it is cancelled or a handler panics; it
\* takes proofs and timeouts in any order.
LoopRuns == loop = "running" /\ ~cancelled

\* A proof of a tracked message takes it off the list, and the task with it
\* when it goes on to ask for the round trip time.
handle_proof(hash) ==
  /\ LoopRuns /\ hash \in events
  /\ events' = events \ {hash}
  /\ IF hash \in DOMAIN sent_messages
       THEN sent_messages' = Without(sent_messages, hash) /\ loop' = "dead"
       ELSE UNCHANGED <<sent_messages, loop>>
  /\ UNCHANGED <<caller, window, delivered, next_tx, sent, timeouts, cancelled, network,
                 inbound, link>>

\* Sent once more, under a new hash, with the deadline it had: then the task
\* panics.
Retransmitted(hash) ==
  LET entry == [sent_messages[hash] EXCEPT !.tries = @ + 1]
  IN  /\ network' = network \cup {[hash |-> PacketHash(sent.packets, "Channel"),
                                   sequence |-> entry.sequence, message |-> entry.message]}
      /\ sent_messages' = Put(Without(sent_messages, hash),
                              PacketHash(sent.packets, "None"), entry)
      /\ sent' = [sent EXCEPT !.packets = @ + 1]
      /\ loop' = "dead"
      /\ UNCHANGED link

handle_timeout ==
  /\ LoopRuns /\ timeouts # <<>>
  /\ timeouts' = Tail(timeouts)
  /\ LET hash == Head(timeouts)
     IN  CASE hash \notin DOMAIN sent_messages \/ link = "closed" ->
                UNCHANGED <<network, sent_messages, sent, loop, link>>
           [] sent_messages[hash].tries >= MAX_TRIES ->
                link' = "closed" /\ UNCHANGED <<network, sent_messages, sent, loop>>
           [] OTHER -> Retransmitted(hash)
  /\ UNCHANGED <<caller, window, delivered, next_tx, cancelled, events, inbound>>

-----------------------------------------------------------------------------
(* The other tasks, the peer, the application *)

\* A deadline passes.
Expire(hash) ==
  /\ hash \in DOMAIN sent_messages /\ ~sent_messages[hash].expired
  /\ sent_messages' = [sent_messages EXCEPT ![hash].expired = TRUE]
  /\ UNCHANGED <<caller, window, delivered, next_tx, sent, tasks, peer, link>>

\* What has expired is handed over; a dead task's channel is closed.
timeout_monitor ==
  LET expired == {h \in DOMAIN sent_messages : sent_messages[h].expired}
  IN  /\ ~cancelled /\ timeouts = <<>> /\ expired # {} /\ loop = "running"
      /\ timeouts' = SetToSeq(expired)
      /\ UNCHANGED <<caller, outbound, loop, cancelled, peer, link>>

\* Behind the next one, a message is only taken in the window before it.
OutOfWindow(sequence) ==
  /\ sequence < inbound.next
  /\ LET overflow == (sequence + WINDOW_MAX) % Modulus
     IN  overflow < inbound.next \/ sequence > overflow

\* How many of the messages on hold follow each other from the next one on.
Ready(held) ==
  Cardinality({k \in 1..Modulus :
                 \A j \in 0..(k - 1) : (inbound.next + j) % Modulus \in DOMAIN held})

Received(p) ==
  LET held == Put(inbound.on_hold, p.sequence, p.message)
      n == Ready(held)
      run == [j \in 1..n |-> (inbound.next + j - 1) % Modulus]
  IN  [on_hold |-> [s \in DOMAIN held \ Range(run) |-> held[s]],
       next |-> (inbound.next + n) % Modulus,
       posted |-> inbound.posted \o [j \in 1..n |-> held[run[j]]]]

\* Inbound::receive; the link proves the packet, if the peer asked it to.
receive(p) ==
  /\ p \in network
  /\ network' = network \ {p}
  /\ inbound' = IF OutOfWindow(p.sequence) THEN inbound ELSE Received(p)
  /\ events' = events \cup {p.hash}
  /\ UNCHANGED <<caller, outbound, tasks, link>>

\* Channel's Drop.
DropChannel ==
  /\ ~cancelled /\ cancelled' = TRUE
  /\ UNCHANGED <<caller, outbound, timeouts, loop, peer, link>>

CloseLink ==
  /\ link = "active" /\ link' = "closed"
  /\ UNCHANGED <<caller, outbound, tasks, peer>>

Next ==
  \/ enqueue_send \/ handle_timeout \/ timeout_monitor
  \/ \E h \in events : handle_proof(h)
  \/ \E h \in DOMAIN sent_messages : Expire(h)
  \/ \E p \in network : receive(p)
  \/ DropChannel \/ CloseLink

\* Tasks run, time passes, and nothing is lost.
FairSpec ==
  /\ Init /\ [][Next]_vars
  /\ WF_vars(handle_timeout) /\ WF_vars(timeout_monitor)
  /\ WF_vars(\E h \in events : handle_proof(h))
  /\ WF_vars(\E h \in DOMAIN sent_messages : Expire(h))
  /\ WF_vars(\E p \in network : receive(p))

-----------------------------------------------------------------------------
\* Channel::message_status.
message_status(hash) ==
  IF hash \in DOMAIN sent_messages THEN "Sent"
  ELSE IF hash \in delivered THEN "Delivered" ELSE "Unknown"

Hashes == {PacketHash(n, "None") : n \in 0..(2 * MaxMessages)}

\* What the documentation of Channel says: messages are retransmitted and their
\* proofs tracked, so that the sender learns of the delivery.  A message that
\* was sent is delivered by its status in the end, on a link that stays up and
\* a network that loses nothing.
SenderLearns ==
  \A h \in Hashes : message_status(h) = "Sent"
    ~> (delivered # {} \/ cancelled \/ link = "closed")
=============================================================================
