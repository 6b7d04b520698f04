# Reticulum SDK: TLA+ models, checks and proofs

`reticulum-sdk` is a Rust implementation of the Reticulum network stack: nodes
announce destinations, learn paths from the announces they hear, relay packets
for each other, and set up encrypted links over several hops, on which they run
an ordered channel and transfer resources. This directory holds TLA+
specifications of the parts whose correctness depends on orders of events that
tests hardly reach, the TLC configurations that check them on small instances,
and theorems checked by TLAPS.

All paths below are relative to the repository, `src/...` being the crate's own
source directory. `PROJECT.json` maps every definition to the lines it models.

1. [The system](#1-the-system)
2. [Modules and how they correspond to the code](#2-modules-and-how-they-correspond-to-the-code)
3. [Runs](#3-runs)
4. [Proofs](#4-proofs)
5. [Where the code and its documentation disagree](#5-where-the-code-and-its-documentation-disagree)
6. [What is not modelled](#6-what-is-not-modelled)
7. [Plan](#7-plan)

## 1. The system

### Components

| Component | Source | State | Operations | What makes it correct |
|---|---|---|---|---|
| Link channel | `src/destination/link.rs` | next send sequence; next expected sequence, reorder ring, stall clock | `channel_raw_packet`, `handle_channel_envelope`, flush | what is delivered is an increasing selection of what was sent; nothing deliverable is dropped; a gap does not block forever |
| Link life cycle | `src/destination/link.rs`, `src/transport.rs` | status, attached interface, derived key, request and proof times; `out_links`, `in_links`, `link_ifaces` | request, prove, handle proof, data, close, restart, periodic link check | both ends agree on the keys; a pending link resolves; a closed one stays closed |
| Link table | `src/transport/link_table.rs` | one entry per relayed link | add, handle proof, handle packet, remove stale | requests do not circle; an established link has a way through every relay |
| Path table | `src/transport/path_table.rs` | one entry per destination, with recorded emissions | handle announce, expire, refresh, rebalance, mark unresponsive, drop | the record of emissions is coherent; a live path never goes back in emission time; copies of one emission converge on the closest peer |
| Packet cache | `src/transport/packet_cache.rs` | hashes of packets seen | update, release, remove | a packet is handled once, a retransmission that must pass does |
| Resource transfer | `src/destination/resource.rs` | sender and receiver `Resource`: hashmap, window, counters, retries, status | advertise, request, parts, hashmap update, proof, `check_timeout` | parts land in their places; the window stays within its limits; a transfer concludes |
| Announce table, limits | `src/transport/announce_table.rs`, `announce_limits.rs` | announces awaiting retransmission, responses, rate entries | add, echo received, retransmit, response | an accepted announce spreads, and stops spreading |
| Path requests | `src/transport/path_requests.rs` | recent tags, waiting requests | detect duplicate, generate, take discovery | a request is answered once, and one that waits is answered when the announce comes |
| Reverse table, receipts | `src/transport/reverse_table.rs`, `src/transport.rs` | way back of packets; proofs awaited | add, take, expire | a proof reaches the sender of its packet |
| Blackhole table | `src/transport/blackhole.rs`, `src/transport.rs` | refused identities with expiry; the updater of other nodes' lists | add, remove, merge, clean up, update | no announce of a refused identity installs a path; a ban set here outlives clean-ups and the lists of others |
| Control port | `src/transport.rs` | one task per client | authenticate, read a request, answer it | a client that asked is answered |
| Transport handler | `src/transport.rs` | all tables above under one lock, periodic tasks | packet reception, duplicate filter, dispatch | composition of the above |
| Channel, buffer | `src/channel.rs`, `src/buffer.rs` | send window, unacknowledged envelopes, receive ring | send, proof, timeout, receive | reliable ordered delivery |
| Interface manager | `src/iface.rs` | interfaces and their queues, announce pacer, ingress limiters | send, broadcast, receive, clean up, timer task | held announces leave, at the pace that is due; a burst ends; slots and queues are given back |
| Reconnect pacer | `src/iface/reconnect_pacer.rs` | per-address backoff, rejections, blocks | may connect, reject, clean up | no address gets in before its backoff or block is over, although entries are forgotten |
| Socket drivers | `src/iface/{tcp_client,tcp_server,backbone,udp,modem73}.rs` | connection, receive and transmit tasks, stop tokens, slots of servers | dial, read, write, reconnect, accept, shut down | lost connections come back, full queues drain, shutdown reaches every task, servers count their slots exactly |
| Serial drivers | `src/iface/{serial,kiss,rnode}.rs` | port, session, READY events, the radio's reported settings | open, configure, validate, send, reset | nothing is sent on a radio that is not fully configured; flow control neither overruns nor blocks |
| LoRa drivers | `src/iface/lora/*` | the chip's mode, interrupts, buffers and settings; split packets being put together | open, transmit, poll, receive, reconnect | a chip on air is configured; packets go up whole; the radio listens again |
| Framing | `src/iface/hdlc.rs`, `kiss.rs` | deframing state | encode, decode | decode inverts encode on any chunking |
| Access codes | `src/iface/ifac.rs` | - | mask, unmask | - |
| Discovery | `src/transport/discovery.rs` | known interfaces, schedule | announce, receive | - |
| Destinations, identities, packets, crypto | `src/destination.rs`, `identity.rs`, `packet.rs`, `serde.rs`, `hash.rs`, `crypt*` | keys, byte layouts | sign, validate, encode | - |

### How they interact

Every interface has a receive task that hands packets to one queue; the
transport handler takes them off it, increments the hop count, filters
duplicates by packet hash, and dispatches on the packet type while it holds its
lock: announces go to the announce limits, the path table and the announce
table; link requests to a local destination or, through the path table, to the
link table; proofs to the links, the link table or the reverse table; data to
links, the link table, or along the path. Periodic tasks (`check_links`,
announce retransmission, table culls) take the same lock. Applications call
`Transport` methods that take the lock one or more times, and read link events
from broadcast channels.

An interface is a driver's `spawn` task, which opens the device or connection
and runs a receive and a transmit task until one of them fails or the
interface's token is cancelled. The receive task hands packets to the manager's
queue, the transmit task takes them off a bounded channel that the manager
fills. Between the handler and that channel stand the announce pacer and, on
the way in, the ingress limiters; in front of a server's accept loop stands the
reconnect pacer. A LoRa interface runs three tasks that share the chipset
behind a lock, and each driver call is a chain of SPI commands that may break
off anywhere.

### What is hard

* Nothing orders packets: copies of a packet take several ways, are lost, and
  arrive after the state they were meant for has moved on.
* Retransmissions and duplicate suppression work against each other.
* Tables of several nodes are changed independently and may contradict one
  another; each table also expires on its own clock.
* Application calls release the handler's lock between two steps.
* Tasks of one connection are told to stop by tokens, of which there are
  several with different owners; a task that waits for something else does not
  look at its token.
* A driver call fails in the middle, and leaves the device and the driver's
  idea of it apart.
* Devices reset, fall silent or answer late, while packets wait for them.
* Counters wrap (sequence numbers), are unsigned and subtracted (windows), or
  are bounded records of history (random blobs, request hashes).

`PROJECT.json` lists these as hazards, each at its line.

## 2. Modules and how they correspond to the code

```
OrderedStream <- LinkChannel <- LinkChannelProofs              MCLinkChannel
PathTable <- PathTableProofs                                   MCPathTable
AnnounceTable, PathTable <- AnnounceMesh <- AnnounceMeshProofs MCAnnounceMesh
LinkTable <- LinkNetwork <- LinkNetworkProofs                  MCLinkNetwork
ResourceTransfer <- ResourceTransferProofs                     MCResourceTransfer
Channel                                                        MCChannel
LoRaChip <- SX1262, SX1276, LR1121 <- LoRaInterface            MCLoRaInterface
NetInterfaces                                                  MCNetInterfaces
NetInterfaces, LoRaInterface <- InterfaceProofs
SerialDevices <- SerialDevicesProofs                           MCSerialDevices
Blackhole <- RpcControl
AnnouncePacer, IngressLimiter, ReconnectPacer, RpcControl
                        <- Admission <- AdmissionProofs        MCAdmission
```

An arrow points to the module that extends or instantiates. MC modules only
give constants their values.

### OrderedStream and LinkChannel

`LinkChannel` is one direction of the built-in channel of a link. `rx` holds
the receiver's fields: `next` is `next_rx_channel_sequence`, `ring` the reorder
ring, `stall` the stall clock (none, running, expired), `delivered` the log of
posted events. `handle_channel_envelope` is the whole handler: late check, loss
recovery (flush), second late check, resynchronisation past the window,
duplicate check, insertion, contiguous delivery, stall clock.
`channel_raw_packet` and its refused form are the sender (a sequence number is
spent even when encryption is refused). Messages carry an index the code does
not have, so that properties can speak of order; the code's decisions use only
the sequence number.

`OrderedStream` is what the channel promises: messages may be missing, none is
delivered twice, out of order or before it was sent. `StreamSpec` states that
`LinkChannel` implements it.

*Environment.* The sender is at most `MaxLead` messages ahead of the receiver
and a packet is gone once `MaxAge` more were sent. With 2^16 sequence numbers,
`MaxLead <= 2^16` and `MaxAge <= 2^15`: without such limits no finite sequence
space can be unambiguous.

### PathTable

Announces carry a blob (emission time, nonce); all copies of an emission carry
the same one. `handle_announce` is the acceptance rule and the installation of
the new entry, with the interface's gravity and bitrate as the interface
manager reports them at that moment (an interface that went down counts as
unknown). Expiry, refresh, marking as unresponsive, rebalancing by a verified
proof, removal, dropping everything via a peer, and interfaces going up and down
are actions of their own. The operators on the map are separate from the
actions so that a node model can reuse them.

### AnnounceTable and AnnounceMesh

`AnnounceTable` is the announce table's logic on the three slots of one
destination: the announce being retransmitted, a response that is due, and the
cache of a completed one. `AnnounceMesh` composes it with `PathTable` (an
`INSTANCE`, one table per node) and with path requests, for one destination on
any topology of point-to-point interfaces. `handle_announce` is the part of the
handler after validation: echo detection, insertion, path table, answer to a
waiting request. `owner_request`, `answer_request`, `search_request` and
`ignore_request` are the branches of `handle_path_request`; `SearchIfaces` holds
the mode filter and its fallback. `retransmit_announces` and `retransmit_old`
are one cycle of the retransmission task. `AnnounceIfaces` and
`BroadcastIfaces` are the interface-mode filters of `send_flush`.

*Abstractions.* The owner drops announces of its own destination, so none is
put on its way to it. Jitter and grace only move a transmission to a later
cycle. A packet that a rate or burst limit refuses counts as lost. Interfaces
have the default configuration (`announces_from_internal` on, `recursive_prs`
off) and equal gravity; clients of a shared instance are left out. The owner's
clock does not go back.

### LinkTable and LinkNetwork

`LinkTable` is the table's logic on one entry. `LinkNetwork` composes it with
the initiator's and the responder's `Link`, their part of the transport handler,
the packet caches and the path of each node: one link id is followed over any
number of relays. `link_request` and `link_register` are the two lock regions
of `Transport::link`. `check_*` are the cases of `handle_check_links`.
`Receive(p)` has one action per packet type and kind of node; each is the whole
handler, duplicate filter and cache update included. Paths change by `reroute`,
which stands for the path table's actions. The responder's keys are numbered:
each in-link it creates has fresh ones, and a packet carries the number of the
keys it was made with. `Budget` bounds losses, reroutes, expiries, idle
periods, sends and closes.

### ResourceTransfer

Both sides of one transfer. The packets of a link follow one route, so each
direction is a sequence that may lose its head or deliver it twice.
`MapHash` gives each part its 4-byte map hash; the assumption `HashesGuarded` is
what `Resource::new` ensures (hashes distinct within the collision guard) and
no more, so parts farther apart may collide, and a hash may be zero, which the
receiver cannot tell from one it does not know (`Unknown`). `HashesNamed` says
that none is. With a zero hash a receiver may count past the end of its hashmap, and
`build_request` then panics (`PastEnd`). `handle_request`, `receive_part`,
`hashmap_update`, `build_request` and the cases of `check_timeout` are
translated with every early return. `seen` on a request is its place in the
sender's `req_hashlist`. The search of `handle_request` comes upon the parts it
answers with in increasing order: `InOrder` is the one sequence that does.

`Resource` builds payloads but does not send them: the loop that does is the
application's, and is modelled as the tests in `resource.rs` drive it (marked
external). A deadline passes when nothing is in flight any more, or early at the
cost of one of `MaxFaults`. `req_sent` is never assigned in the code, so the
branch of `receive_part` that raises the window limit for fast links is never
taken and is left out.

### Channel

The reliable channel of `channel.rs` over a link that stays up until it closes.
`sent_messages` is keyed by the packet's hash, and `PacketHash` keeps what the
hash covers: the packet and its context. `handle_timeout`, `timeout_monitor` and
`handle_proof` are the bodies of the two tasks, `LoopRuns` the condition under
which `outbound_event_loop` is there to call them; a task that calls
`blocking_lock` inside the runtime ends (`loop`). The receiver's `on_hold` set
and its sequence comparison are those of `Inbound`. The growth of the window is
left out: it needs a proof that is handled.

### LoRaChip, SX1262, SX1276, LR1121 and LoRaInterface

`LoRaChip` is the chip as its driver sees it: mode, interrupt register, the two
buffers, the settings written since it last lost them. A driver method maps a
chip to the *set of outcomes*: success, or an error with the chip as it was when
the chain of SPI commands broke off; a run of settings that fails leaves some
prefix of them written. The three chipset modules give every method
of the drivers in that form; they differ in what a cold start forgets, whether
transmit and receive share a buffer, whether transmit waits for TX_DONE, and
what the interrupt handler does on each interrupt. `SX1262!transmit` clears no
interrupt before it starts to send, and its wait takes whatever TX_DONE the
register holds; a frame that an earlier call left on air may end, and set it,
before the chip is put in standby (`Meanwhile`).

`LoRaInterface` instantiates all three and runs `spawn` with its poll, forward
and transmit tasks, which take the chipset's lock for one call at a time.
Packets longer than a frame are split in two with a common nibble
(`frames_for_tx`) and put together by `Accepted`, which is `Reassembler::accept`.
Air is external: a frame is heard, broken or missed.

When a session ends, its tasks are told to stop and not waited for. `tasks` are
those that may still use the chip, and `Close`, the end of `RECONNECT_DELAY`,
lets go of it while a transmission is still under way (two frames of the SX1262
driver without a BUSY line take at least four seconds more than their airtime).
The driver is dropped, and the chip put in standby, by whoever held it last
(`Released`). The next session then comes too early (`OpenTooEarly`): where a
GPIO line is requested the open fails and is tried again; where none is, two
drivers talk to one chip, and the model stops there (`phase = "shared"`). The
properties make no claim beyond that point. `unsure` and `deaf` are history: the packets
of which a frame was started while an earlier transmission was on air or its
TX_DONE in the register, and whether the last transmit failed.

### NetInterfaces

One configured interface of any socket kind, and the connections a server
accepts, `MaxInterfaces` in all. `drv[i]` is where `spawn` is, its two tasks and
its token, `queue[i]` the length of its transmit channel, `listed` the registry,
`active` the count of `TcpServer`. Dialling, the reconnect delay with its drain,
the read and write loops, the write deadline, both accept loops, the control
connection of `Modem73` (initial query, commands, replies), `handle_cleanup` and
the drain task of a stopped interface are one action each. The peer may close,
stop reading, or refuse; every such fault is counted by `MaxFaults`. The modem
of a `Modem73` may fragment when the driver starts; the driver's `target` does not,
and the modem's own flag is never read. `tnc.astray` records that the two
were parted by something the driver does not look at: such a start, a restart, or
a command that was written and did not arrive.

### SerialDevices

One serial interface: a plain port, a KISS TNC or an RNode. `out` and `in` are
the commands on their way to the device and its reports. For an RNode the whole
configuration is modelled step by step (detect, firmware, each setting, radio
on, validation against what was reported), so that a reset, a lost command or a
lost report may come between any two. `Settings` are the parameters that
`radio_matches` compares; `Limits`, the airtime limits, are sent like them and
not looked at. Flow control is translated with its three steps: the test of
`interface_ready` (`RNodeChecks`), the release of the lock and the wait for
another (`RNodeSelects`), and the wait for READY or the timer (`RNodeWakes`,
`RNodeTimer`), so that READY may come before the task waits for it. A line carries settings, commands and reports by
name; `SerialAssumption` says that no setting has the name of something else.

### Admission: AnnouncePacer, IngressLimiter, ReconnectPacer, Blackhole, RpcControl

Five mechanisms that decide what a node lets in or out. They share no state
except that `RpcControl` extends `Blackhole` with the clients of the control
port; `Admission` composes them, and `about` picks the one a behaviour is about,
so that one run checks all of them without multiplying their states.

* `AnnouncePacer`: `send` (at once, or queued, replaced or refused) and the rounds
  of the timer task (`process_announce_queue`). Time is relative to now. `since`, `owed` and `early`
  are observers: they record when the last paced announce left and what wait it
  asked for.
* `IngressLimiter`: samples as ages; `ingress_record`, `ingress_evaluate` and the
  passing of time. The rate is compared without division.
* `ReconnectPacer`: `is_blocked`, `is_allowed`, `record`, `record_rejection` and
  `maybe_cleanup` as the accept loop calls them, with ages up to `Cap`; the observers `apart`, `quiet` and `banned` remember what the
  table may have forgotten.
* `Blackhole`: the operator's calls, announces, the clean-up task, and
  `blackhole_updater_job` step by step (sleep, next source, link, request, merge).
* `RpcControl`: a client's task from the challenge to the answer. A client may
  go away at each step.

## 3. Runs

Deadlock checking is off where the system may stop for good: nobody is obliged
to send another message, and a link, transfer or driver that has ended does
nothing more. It is on for `path_table` and `admission`.

| Run | Instance | Checks |
|---|---|---|
| `link_channel` | 8 sequence numbers, window 3, 10 messages | `RingHoldsBack`, `StreamSpec`, `KeepsWhatItAccepts` |
| `path_table` | 1 destination, 1 relay, 2 interfaces, times 1..3, 2 nonces, 3 hops, 2 recorded blobs | `EmissionsRecorded`, `TimebaseNeverRegresses`, `ConvergesOnClosest` |
| `announce_mesh` | ring of owner and two relays, a node behind one; one announce, fair | `PathsLeadHome`, `HopsNotInflated`, `AnnounceSpreads` |
| `path_request` | chain with access points; one announce, one request, one loss, every other event once, fair | `RequestResolves` |
| `link_network` | diamond of two relays; 1 loss, 1 reroute, 1 expiry, 1 send | `LoopBroken`, `ActiveHasWayOut`, `EndsAgree` |
| `link_lifecycle` | chain with one relay; 1 loss, 1 idle period, 1 release, 1 close, fair | `ClosedIsFinal`, `PendingResolves` |
| `resource_transfer` | 10 parts, 2 hashes per segment, window 2 (1..3), 2 retries, 3 faults, fair | `WindowOrdered`, `PartsInPlace`, `CountersAgree`, `FailsOutOfBudget`, `TransferConcludes` |
| `lora_interface` | SX1262 with 2 packets of our own, SX1276 and LR1121 with 1, the first split; 2 packets of the peer, one of them split; with and without flow control and GPIO lines; queue of 1; 2 faults (1 on one of the boards), fair | `OnAirConfigured`, `AckedWasSent`, `DeliveredWhole`, `ListensAgain` |
| `net_interfaces` | each kind by itself; queue of 1, one slot, 2 TCP clients or 1 backbone client, 2 faults, fair | `SlotsExact`, `Heals`, `NotSaturated`, `ShutsDown`, `FragmentationFollows` |
| `serial_devices` | serial; KISS with and without flow control; RNode (ESP32 with flow control; plain; invalid configuration); 2 settings, 1 airtime limit, 2 packets, 2 faults, fair | `DataOnConfiguredRadio`, `OneOutstanding`, `HeldBackLeaves`, `Recovers`, `ShutsDown` |
| `admission` | each mechanism by itself, see below; fair | `NothingStranded`, `Paced`, `NoHastyAccept`, `BanHolds`, `BurstEnds`, `PathSearchEnds` |
| `channel` | 8 sequence numbers, window 2, 2 tries, 3 messages, nothing lost, fair | violation of `SenderLearns` |

Every property is stated in words above its definition; `PROJECT.json` has, for
each, a mutant of the code's model that breaks it.

Why the bounds are enough for the interesting cases:

* `link_channel`: 10 messages over 8 sequence numbers is more than one lap, so
  every wrap-around comparison happens; the window is smaller than half the
  space, so an arrival can be late, in the window, past it, or at the boundary;
  `MaxLead` and `MaxAge` are at the largest values the proof allows.
* `path_table`: three emission times and two nonces with a record of two make
  records overflow, and give new, equal and older emissions with equal, shorter
  and longer ways. Destinations do not interact.
* `announce_mesh`: the ring is the smallest topology in which relays hear each
  other's copies over two ways, so that echoes and passed-on copies both occur,
  and one relay alone stands between the owner and a node. The retry limit is
  the code's own, 2.
* `path_request`: announces do not cross the access points by themselves, so
  that the requester gets its path only through two nested searches; relays
  answer from the announce table, its cache or the path table. Forgotten
  paths, expired searches, emptied tables, pruned caches and repeated old
  announces each occur once, in any order with the rest.
* `link_network`: the two relays' paths can form a loop; the budget admits a
  lost request or proof, a path that changes between two transmissions, and an
  entry that expires in between. The request is sent up to three times.
* `link_lifecycle`: restart and tear-down of stale links are both allowed;
  the deadline comes after two checks, a retransmission in between.
* `resource_transfer`: with 10 parts two parts share a map hash, just beyond the
  collision guard of 2*3+2 = 8; five hashmap segments, four of them fetched on
  request; window growth and shrinking to both limits; three faults among loss,
  repetition and early timeout. No map hash is zero.
* `lora_interface`: a split packet each way, so that a transmission can come
  between the two frames of a reception and the reverse; the peer's second
  packet may follow a first of which half was lost; two faults are a failed
  driver call and a failed recovery, or a failure on either side of a
  reconnect. On the SX1262, which alone waits for its frames, a second packet follows
  one whose transmit failed with its frame on air or with TX_DONE in the
  register. A poll that fails between the frames of a packet ends the session
  and leaves the transmission behind.
* `net_interfaces`: two faults are a lost connection and a failed dial after it,
  or a peer that stops reading and then closes; two clients compete for one slot;
  a queue of one is full after one packet.
* `serial_devices`: two settings, so that a reset comes between them; two
  packets, so that one waits while the other is outstanding; two faults are a
  reset and the loss of its report, or a lost READY and a failed port; one limit
  is enough to be lost unnoticed.
* `admission`: three destinations compete for a queue of two, with waits of 1
  and 3, so that a short wait follows a long one; five samples with a decay of 6
  let a flood fill and leave the record, and the hold of 5 outlasts it; the
  block (4) is longer than the greatest backoff (3) and than the cleanup
  interval (2), so that an entry is forgotten before and after it mattered; one
  of two identities is itself a source of lists, and one control client bans,
  lifts and asks for a path while the updater runs.

Fairness:

* `AnnounceMesh!FairSpec`: a packet that is not lost arrives, the retransmission
  task runs every `INTERVAL_ANNOUNCES_RETRANSMIT` and its timeouts pass.
  Announcing, asking, losing and expiring are never forced.
* `LinkNetwork!FairSpec`: `link()` eventually gets the handler's lock, and the
  periodic task runs `check_links` (`INTERVAL_LINKS_CHECK`). Nothing is assumed
  of the network: `PendingResolves` holds if every packet is delayed forever.
* `ResourceTransfer!FairSpec`: a packet that is not lost is delivered, and the
  application polls `check_timeout` on both sides, as its documentation asks.
* `LoRaInterface!LoRaFairSpec`: the three tasks run, `RECONNECT_DELAY` ends, a frame
  on air ends. The chip need not answer without error: that is what faults are.
  A transmission whose next session comes too early is finished by the same
  fairness of the transmit task.
* `NetInterfaces!FairSpec`: weak fairness of the steps of `spawn` and of the
  tasks, of the write deadline (a timer) and of the periodic cleanup; strong
  fairness of a task's reaction to its token, because tokio's `select!` picks
  at random among its ready branches, so that traffic that is ready again and
  again cannot hide the token for ever. Nothing is assumed of the peer.
* `SerialDevices!FairSpec`: the same for `spawn`, the tasks and the token; a
  packet that waits is taken for the same reason; the device works through its
  commands.
* `Admission!FairSpec`: time passes, in the calm after a flood announces arrive
  at the moderate rate (`BurstEnds` is about that case), and `request_path`'s
  poll loop runs.
* `Channel!FairSpec`: both tasks run, deadlines pass, and what is sent is
  received: the network loses nothing, so that the violation is the code's.

## 4. Proofs

| Theorem | Module | States |
|---|---|---|
| `TypeCorrect` | `LinkChannelProofs` | `Spec => []TypeOK` |
| `RingSafe` | `LinkChannelProofs` | `Spec => []RingHoldsBack` |
| `ChannelImplementsStream` | `LinkChannelProofs` | `Spec => StreamSpec` (refinement of `OrderedStream`) |
| `NothingDropped` | `LinkChannelProofs` | `Spec => KeepsWhatItAccepts` |
| `EmissionsSafe` | `PathTableProofs` | `Spec => [](TypeOK /\ EmissionsRecorded)` |
| `TimebaseMonotone` | `PathTableProofs` | `Spec => TimebaseNeverRegresses` |
| `CopiesConverge` | `PathTableProofs` | `Spec => ConvergesOnClosest` |
| `PathsHome` | `AnnounceMeshProofs` | `Spec => []PathsLeadHome` |
| `HopsBounded` | `AnnounceMeshProofs` | `Spec => []HopsNotInflated` |
| `LoopsBroken` | `LinkNetworkProofs` | `Spec => []LoopBroken` |
| `EndsInAgreement` | `LinkNetworkProofs` | `Spec => []EndsAgree` |
| `ClosedStaysClosed` | `LinkNetworkProofs` | `Spec => ClosedIsFinal` |
| `WayOutExists` | `LinkNetworkProofs` | `Spec => []ActiveHasWayOut` |
| `WindowSafe` | `ResourceTransferProofs` | `Spec => []WindowOrdered` |
| `CountersInAgreement` | `ResourceTransferProofs` | `HashesNamed` implies `Spec => []CountersAgree` |
| `PartsNeverMixed` | `ResourceTransferProofs` | `HashesNamed` implies `Spec => []PartsInPlace` |
| `SenderFailsOutOfBudget` | `ResourceTransferProofs` | `HashesNamed` implies `Spec => FailsOutOfBudget` |
| `SlotsAreExact` | `InterfaceProofs` | `Spec => []SlotsExact` |
| `OnAirIsConfigured` | `InterfaceProofs` | `LoRaSpec => []OnAirConfigured` |
| `CountedWasSent` | `InterfaceProofs` | `LoRaSpec => []AckedWasSent` |
| `DeliveredAreWhole` | `InterfaceProofs` | `LoRaSpec /\ []HalvesDiffer => []DeliveredWhole` |
| `RadioIsConfigured` | `SerialDevicesProofs` | `Spec => []DataOnConfiguredRadio` |
| `OnePacketOutstanding` | `SerialDevicesProofs` | `Spec => []OneOutstanding` |
| `BansStand` | `AdmissionProofs` | `Spec => []BanHolds` |
| `NoneStranded` | `AdmissionProofs` | `Spec => []NothingStranded` |
| `AnnouncesPaced` | `AdmissionProofs` | `Spec => []Paced` |
| `AcceptsInTime` | `AdmissionProofs` | `Spec => []NoHastyAccept` |

All from the named `ASSUME`s of the modules only, for every value of the
constants: for the code's sequence space of 2^16 and window of 2^14, for every
topology, for every resource and window, for every queue length, backoff and
block time that satisfy the assumptions. Three theorems on resources have a
hypothesis of their own, `HashesNamed`, which the code does not ensure: it holds of all
resources but those with a part (one in 2^32) whose map hash is zero.

*LinkChannel.* Neither the ring's order nor the stream property is inductive
alone: whether a packet is late is decided modulo the sequence space, and the
decision is right only if the index of every packet in flight and in the ring
is within half the space of the expected one. `IInv` adds that: every sequence
number is its index modulo the space, every packet in flight is at most `MaxAge`
old and fewer than `MaxLead` ahead, the ring lies inside the window and is
sorted, and the delivered log is increasing and below the expected index. The
lemmas on distances modulo the space turn sequence comparisons into index
comparisons; each path through `handle_channel_envelope` has its lemma
(flush, resynchronise, insert, deliver). The refinement then takes one step per
action. `KeepsWhatItAccepts` follows the same paths: each of them keeps in the
ring or appends to the log what the ring held, and an envelope that is taken for
a duplicate is one, because less than a lap of indices fits the window.

*PathTable.* `IInv` is `TypeOK` with coherent entries: the blob an entry was
installed by is among its recorded ones, none is recorded twice, and there are
at most as many as the limit. A new blob is appended last, so that trimming the
record from the front keeps it; a known blob leaves the record as it is. The
timebase of an entry is the greatest emission time of its record; that it does
not fall follows from the acceptance rule and from the maximum's existence,
which is shown with a least counterexample over the naturals because induction
is not available. `ConvergesOnClosest` is an action property and is proved from
the same invariant, one step per action.

*LinkNetwork.* `LoopBroken` says nothing of the hop counts the entries hold.
`LoopInv` bounds both them and the hop counts of requests by `Passed`, the number
of relays that hold an entry plus the entries that expired: a relay without an
entry adds one when it passes a request on, a relay with an entry passes on no
request that took more hops than its entry says, and an entry that expires
moves from one summand to the other.

`EndsAgree` says nothing of what is in flight. `AgreeInv` adds that, until the
link is closed or idle for the first time, the responder has made at most one
in-link, every proof under way carries its keys, and no close packet is under
way. `ActiveHasWayOut` must hold of a proof before it arrives: in `WayInv`, a
proof that is about to reach the initiator comes from the responder or from a
relay with a validated entry for the initiator's side; that this entry passes
the initiator's packets rests on the hop count of the request that made it.

*AnnounceMesh.* `PathsLeadHome` is about paths, but paths are installed from
announces that may have waited in a table, a cache or the network while the
paths changed. `MeshInv` says what the hop count of every announce, wherever it
is kept, is worth (`Earned`): the node that vouches for it has a path no longer
than that, and there are at least as many nodes with such a path as it counts.
Paths only get shorter while nothing is forgotten, so what was earned stays
earned. A node that installs a copy was not among those counted, or had a longer
path, so the count holds with one more hop. A copy that is not installed must
not be passed on: `Relays` sees to that for relaying, and for waiting
requesters the invariant says that nobody waits at a node that has a path. From
the count follows `HopsNotInflated`, since the owner has no path; from the
comparison with the next hop follows `PathsLeadHome`. All of it is claimed only
of quiet states, with one emission at most and no path forgotten; whatever is
quiet after a step was quiet before it. That the tables are functions of the nodes
is shown of all states.

*ResourceTransfer.* `Sound` is `WindowOrdered` with the shape of the receiver's
record: growth raises the floor only when the window is more than the
flexibility above it, shrinking lowers the limit only when it lies above the
window. The other three rest on `TransferInv`, which relates both sides through
the packets between them. A request for more hashmap names the last hash known
instead of a height, so the invariant claims that there are heights `hs`, one
for each request under way and in order, and a height `H` up to which the sender
has answered. The sender's search window then starts no further than the
collision guard before the part the hash was meant for, and every part under way
lies within the guard of what the receiver misses: both look hashes up in a stretch
in which `HashesGuarded` makes them mean one part. The height found again is
a multiple of the segment length, so that no request is taken for misaligned.
`TransferInv` needs `HashesNamed`: a hash that is known is then one that the
receiver takes for known, so that `hashmap_height` is the number of known ones
and a request for more hashmap is made at its end only. Without it the counters
part and the sender fails with retries left (section 5).

*NetInterfaces.* `SlotInv` says who the clients are: only the first interface is
a server, every other is unused or was accepted by it. A slot is given back by the
one step that ends a driver, and a driver that ended stays so.

*LoRaInterface.* What a driver's call may do to the chip is summed up by a few
relations between the chip before and after it, proved of every method of the
three drivers wherever its chain of commands breaks off: `Quiet` (settings may
be lost, but not on air), `Kept` (none is lost, the chip may start to listen),
`Moved` (what a transmission does to the receive side) and `Polled` (a frame
handed out was in the buffer, and its interrupt is gone). The proofs about the
interface use these and no longer look into the drivers.

`OnAirConfigured` alone is not inductive, because a transmit or a poll that starts
from standby goes on air with the settings it finds: `ServiceInv` adds that
while a session or a task it left behind uses the chip (`InUse`) it is configured
in every mode. That no task is left when the chip is opened is what `OpenTooEarly`
is for; the theorem says nothing of a chip with two drivers.

`AckedWasSent` says nothing of a packet
that is still being sent. `SentInv` adds that its frames, those on air and
those left, are together the packet's, in order, unless the packet is `unsure`; and
that a frame which a failed transmit left on air belongs to a packet which is
not counted and never will be. A transmit that starts with no frame on air and no
TX_DONE in the register puts exactly its own frame on air if it succeeds
(`Begun`); of one that does not, the code ensures nothing (section 5). `DeliveredWhole` needs an order over everything received and
not passed up yet: in `UpInv` the half that the reassembler holds, the forward
queue, the frame in the chip's buffer and what the senders still have to send
follow each other. Where both directions share one buffer (`WriteFifo`), a transmit that overtakes
the poll makes it read a frame of our own, so the invariant orders each sender's
frames by themselves.

The code draws a packet's nibble at random out of sixteen, and `accept` joins halves
by nibble alone: the first half of one packet and the second of another that
happen to share it go up as one. `HalvesDiffer` excludes exactly that, in the
state in which the two meet, and `DeliveredAreWhole` is claimed of the behaviours in
which it never happens. `WholeIfNibblesDiffer` draws from it that nothing else is
needed: if split packets have different nibbles, as in the run, `[]DeliveredWhole`
holds without the hypothesis.

*SerialDevices.* The property and the proof are about `Settings`, the parameters
that are read back, and not about the airtime limits. The device keeps its
settings from one session to the next and loses them, with its carrier, in a
reset. `RadioInv` says that whatever was
reported, or is on its way to be, is set on a radio that is on or is about to
be switched on, and that a session begins with nothing reported and nothing on
the line. In `FlowInv` a packet on its way to the device and the READY on its way back
are one token; while the driver believes the device ready there is none. The
report that the radio is on also makes the driver believe so, so the invariant
has to say that it is sent once and was read when the transmit task starts.

*Admission.* `BanHolds` is inductive by itself. `PacerInv` adds to `Paced` that
the wait the last announce asked for is covered by the time since it left and
the time until the next may leave, and that every queued destination has its
announce, once; a sender that finds the queue non-empty never skips it, and the
timer task sets the next due time in the same critical section in which it
sends. `ReconnectInv` relates the table to the observers in two ways: of an
address that is tracked, what the entry says is at least as strict as what
happened; of one that is not, what happened allows a connection now. The
second half is the one that the clean-up must establish.

*Only model-checked.* Every invariant and every action property of the runs that
pass is proved. What remains with TLC is liveness under
fairness (`PendingResolves`, `TransferConcludes`, `AnnounceSpreads`,
`RequestResolves`, `ListensAgain`, `Heals`, `NotSaturated`, `ShutsDown`,
`FragmentationFollows`, `HeldBackLeaves`, `Recovers`, `BurstEnds`,
`PathSearchEnds`), which is outside what the proof system handles, and that
`SenderLearns` fails.

## 5. Where the code and its documentation disagree

`channel` is a run that TLC must find violated; `PROJECT.json` quotes the lines.
`SenderLearns`: on a link that stays up, over a network that loses nothing, a
message of the reliable channel is never reported as delivered. It is filed
under its hash (`channel.rs:308`) before the context, which the hash covers, is
set (322); and after the first timeout `blocking_lock` (`channel.rs:278`) panics
inside the runtime and ends the task that handles proofs and timeouts, against
what `channel.rs:494` says. A caller of `send` inside the runtime panics there as
well (332).

The following were met while modelling. The models follow the code; no run is
spent on them.

*Links and channels.* The reorder timeout of the link channel is looked at only
when another packet arrives (`link.rs:974`; the comment at `link.rs:36` promises
progress). A repeated link proof has the hash of the first, so a relay that
passed the first on drops the second (`transport.rs:3075`, against `4254`). A known
link request is forwarded from any interface, not only from the original one
(`link_table.rs:70`). The first proof of an in-link is broadcast, although
`transport.rs:4309` records the interface to avoid that. Two concurrent
`Transport::link` calls for one destination both create a link, and the second
replaces the first in the map (`transport.rs:1317`); a closed in-link stays in
`in_links` until a request for the same id (`transport.rs:4552`). In `channel.rs`,
a stale duplicate may stay in `on_hold` until the sequence space wraps (187), and
a proof that comes after a retransmission names a packet no longer tracked (404).

*Paths and announces.* A recorded older emission over fewer hops replaces a
newer path (`path_table.rs:455`; the test at 957 says by its name that it never
does). The forwarded copy of a newer emission is counted as an echo of the older
one (`transport.rs:3874`, against the comment at 3864). A search for a boundary
interface falls back to all other interfaces when none is a boundary or gateway
(`transport.rs:4176`, against 4131). The cull of paths reads the set of active
interfaces before it takes the table's lock (`transport.rs:5311`). The packet
cache at its limit evicts the oldest hash, so that a late duplicate passes as new
(`packet_cache.rs:76`).

*Resources.* `check_timeout` of a sender in the middle of a transfer panics
(`resource.rs:1171`) where its documentation promises a retry or a failure
(`resource.rs:1126`). A part whose map hash is four zero bytes is not excluded by
`Resource::new`, and the receiver takes it for unknown: `apply_hashmap` counts it
again with every repeated segment (714), `build_request` asks for more hashmap
where there is none (741) and, with a height beyond the end, reads outside of it
and panics (758); the sender fails on the misaligned request (1055).

*Bans and the control port.* The documentation of a ban says that existing paths
are removed (`transport.rs:1033`); those of destinations that are not in memory,
or locked at that moment, stay, and so do those of identities that come from a
list. Announces of banned identities are still passed to local clients
(`transport.rs:5076`). An entry whose time is up, sent with 0 seconds left,
becomes one for good at the receiver. A failed update leaves its link in
`out_links` (`transport.rs:5655`). The control port reads a request without a
deadline (`transport.rs:1987`), and takes a request that comes early for the
client's own challenge (2039).

*Limits.* The end of a burst is only decided with two samples in the record, so
that in sparse traffic it never comes (`iface.rs:91`); the documented aggregation
over sibling interfaces (`iface.rs:1782`, `1806`) is not done. An expired
block lets an address in without clearing its rejections, as the comments at
`reconnect_pacer.rs:92` and `124` say it does, so that its next rejection blocks
it again; and a connection after the greatest backoff starts again from the
initial one.

*LoRa.* A failed transmit does not leave the SX1262 in a known state, as
`lora/mod.rs:1232` says. When the clearing of TX_DONE fails (`sx1262.rs:1174`), the
bit stays, nothing clears it before the next SetTx (1152), the next wait ends on it
at once, and `start_receive` cuts off a frame that is counted as sent:
`AckedWasSent` is about packets that were not sent into such an unfinished
transmission. Nor does the poll loop re-arm reception then, as `lora/mod.rs:1233`
says: `process_irq` acts on a pending interrupt only (`sx1262.rs:1242`), and when
there is none the radio is deaf until a transmit succeeds. `ListensAgain` is
about radios whose last transmit did not fail. The SX1262's shared FIFO lets a transmission overwrite a packet that was
received and not yet read (`sx1262.rs:588`). SX1276 and LR1121 return from transmit
while the frame is on air, so `AckedWasSent` is about the SX1262. The tasks of the
old session are not waited for (`lora/mod.rs:1126` to 1150). On a board
without GPIO lines a transmission that takes longer than the delay
(`sx1262.rs:298`) then overlaps with the initialisation of the next session, and
the old driver's `Drop` (1345) may put a chip in standby that the new one has set
to listen; nothing is claimed of that case.

*Sockets.* A UDP receive error leaves the interface deaf (`udp.rs:127`), and a
listen-only one never drains its transmit queue. `Modem73` writes data
without a deadline (`modem73.rs:721`) and waits for the initial configuration
without a timeout (360). It never reads the modem's fragmentation flag (102,
498 to 516): a modem that fragments when the driver starts is not told to stop, nor is
one that restarted or missed a command put right, until its payload changes. The token that the clean-up of an interface cancels is
not one its connection tasks look at (`iface.rs:1738`, `tcp_client.rs:340`).

*Serial.* The end of file of a serial or KISS port does not end the session. The
airtime limits that `init_radio` sends (`rnode.rs:726`) are not compared by
`radio_matches` (510), so that the loss of one goes unnoticed. An
RNode driver resets what the device reported when it configures it, waits for a
READY that is lost without a timeout, acts on resets only on ESP32, and leaves
the radio on when validation fails; the firmware report may come before the
detection is over (`rnode.rs:627`).

## 6. What is not modelled

* Cryptography, byte layouts, signatures, msgpack and pickle (a packet is what
  validation lets through; a packet under other keys cannot be read), interface
  access codes: pure data, without a state that other parts depend on.
* HDLC and KISS framing: a frame is a unit of the driver models; the byte-level
  algorithms need recursion over data and have exhaustive unit tests.
* Discovery: its table is filled and read; nothing depends on the order.
* The reverse table and pending proofs, single-destination data, remote
  management, the clients of the data port, the pacing of data packets, getters
  and setters of the interface manager.
* Compression and encryption of resources (`assemble` compares the parts'
  order); keepalives, message proofs, MTU signalling, requests and identification
  over links; `buffer.rs`.
* The node's shutdown in `Blackhole` and `RpcControl`: their tasks end with it.
* Register values, powers, regulatory limits and the firmware update of the radio
  chips; statistics and battery reports of devices; socket options.
* Absolute times: a deadline is an event that may happen once its condition
  holds.
* `mark_state_unknown` of the path table and `insert_remote` of the blackhole
  table have no caller, and the fallback for announces without a random blob
  cannot be reached by a validated announce.

A path that was forgotten and learnt again from a neighbour whose own path led
through the node can form a cycle (`path_table.rs:80`); `PathsLeadHome` is checked
and proved where no path is forgotten.

## 7. Plan

1. Reverse table and pending proofs, composed with the packet cache and its
   evictions.
2. The link maps of the transport handler under concurrent `link()` calls.
3. `OnAirConfigured` for drivers written without operator parameters.
4. HDLC and KISS framing as pure algorithms against reference definitions.
