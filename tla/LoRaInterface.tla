---------------------------- MODULE LoRaInterface ----------------------------
(***************************************************************************)
(* The LoRa interface (src/src/iface/lora/mod.rs) over one of the three    *)
(* chipset drivers: spawn opens the chip and runs a poll task, a forward   *)
(* task and a transmit task, which take the chipset's lock for one driver  *)
(* call at a time; when one of them ends, the others are told to stop, not *)
(* waited for, and the chip is opened again after RECONNECT_DELAY.  What   *)
(* the old tasks are at by then ends before, but for a transmission (the   *)
(* SX1262 driver without a BUSY line sleeps two seconds over the airtime   *)
(* of each frame) and a poll that waits for the chip behind it.  A GPIO    *)
(* line is requested exclusively, so that with one the chip cannot be      *)
(* opened until the old driver is gone; without one it is opened all the   *)
(* same, two drivers then talk to one chip, and the model ends there.      *)
(*                                                                         *)
(* A packet longer than a frame goes on air as two, which share a random   *)
(* nibble.  Nibble gives every packet's; the peer's packets are numbered   *)
(* in the order they are sent.  A driver call that fails costs a fault,    *)
(* as do a frame lost or broken on air.                                    *)
(***************************************************************************)
EXTENDS Integers, Sequences, Functions, LoRaChip

CONSTANTS
  Boards,     \* the boards to run with, and the packets and faults of each
  Own,        \* how many packets the transport sends at most
  Peer,       \* how many packets the peer sends
  Split,      \* the packets too long for one frame, as <<who, number>>
  Nibble,     \* the sequence nibble of every packet
  RX_QUEUE    \* capacity of the queue to the forward task (64)

sx1262 == INSTANCE SX1262
sx1276 == INSTANCE SX1276
lr1121 == INSTANCE LR1121

Packets == {<<"own", n>> : n \in 1..Own} \cup {<<"peer", n>> : n \in 1..Peer}

ASSUME LoRaAssumption ==
  /\ Boards \subseteq [chipset : {"sx1262", "sx1276", "lr1121"}, flow_control : BOOLEAN,
                       lines : BOOLEAN, own : 0..Own, faults : Nat]
  /\ Own \in Nat /\ Peer \in Nat
  /\ RX_QUEUE \in Nat \ {0}
  /\ Split \subseteq Packets
  /\ Nibble \in [Packets -> 0..15]

VARIABLES
  chipset,       \* C, the chipset driver
  flow_control,  \* config.flow_control
  lines,         \* a GPIO line of the chip is requested from the kernel
  phase,         \* where spawn is: start, open, run, closing, wait, shared, stopped
  tasks,         \* the tasks of a session that may still use its chip
  cancelled,     \* context.cancel
  radio,         \* the chip and its driver
  queued,        \* packets taken off the channel with flow control, not sent yet
  frames,        \* frames of do_transmit still to be handed to the chip
  submitted,     \* how many packets the transport has handed over
  taken,         \* how many of them the transmit task took
  acked,         \* packets do_transmit counted as sent (tx_ok)
  unsure,        \* history: packets sent into an unfinished transmission
  deaf,          \* the last transmit failed, and the chip was not opened since
  rx_queue,      \* rx_packet_tx: frames for the forward task
  pending,       \* Reassembler: the first half being held
  delivered,     \* what went up to the transport, as sequences of frames
  next,          \* the peer's next frame
  radio_faults   \* bound: driver errors and frames broken on air still to come

loraVars == <<chipset, flow_control, lines, phase, tasks, cancelled, radio, queued, frames,
              submitted, taken, acked, unsure, deaf, rx_queue, pending, delivered, next,
              radio_faults>>

-----------------------------------------------------------------------------
(* Frames. *)

Frame(p, half) == [packet |-> p, half |-> half]

\* frames_for_tx: half is 0 for a packet that is not split.
frames_for_tx(p) ==
  IF p \in Split THEN <<Frame(p, 1), Frame(p, 2)>> ELSE <<Frame(p, 0)>>

\* The frames of the peer, in the order it sends them.
FirstOf(n) == frames_for_tx(<<"peer", n>>)[1]

AfterFrame(f) == IF f.half = 1 THEN Frame(f.packet, 2) ELSE FirstOf(f.packet[2] + 1)

\* Any held half is joined.
JoinsAny(f) == pending # NoFrame

Joins(f) == pending # NoFrame /\ Nibble[pending.packet] = Nibble[f.packet]

\* Reassembler::accept: what it holds afterwards, and what it returns.
Held(f) == IF f.half = 0 \/ Joins(f) THEN NoFrame ELSE f

Accepted(f) ==
  IF f.half = 0 THEN <<<<f>>>> ELSE IF Joins(f) THEN <<<<pending, f>>>> ELSE <<>>

-----------------------------------------------------------------------------
(* The chipset: LoRaChipset, for the driver in use. *)

ChipInit(c) == CASE chipset = "sx1262" -> sx1262!init(c)
                 [] chipset = "sx1276" -> sx1276!init(c)
                 [] chipset = "lr1121" -> lr1121!init(c)

StartReceive(c) == CASE chipset = "sx1262" -> sx1262!start_receive(c)
                     [] chipset = "sx1276" -> sx1276!start_receive(c)
                     [] chipset = "lr1121" -> lr1121!start_receive(c)

Transmit(c, f) == CASE chipset = "sx1262" -> sx1262!transmit(c, f)
                    [] chipset = "sx1276" -> sx1276!transmit(c, f)
                    [] chipset = "lr1121" -> lr1121!transmit(c, f)

ProcessIrq(c) == CASE chipset = "sx1262" -> sx1262!process_irq(c)
                   [] chipset = "sx1276" -> sx1276!process_irq(c)
                   [] chipset = "lr1121" -> lr1121!process_irq(c)

Dropped(c) == CASE chipset = "sx1262" -> sx1262!drop(c)
                [] chipset = "sx1276" -> sx1276!drop(c)
                [] chipset = "lr1121" -> lr1121!drop(c)

Settings(name) == CASE name = "sx1262" -> Range(sx1262!Settings)
                    [] name = "sx1276" -> Range(sx1276!Settings)
                    [] name = "lr1121" -> Range(lr1121!Settings)

\* LoRaHwProvider::build, or the Linux SPI device and its GPIO lines.
build(c) == {Ok(c), Err(c)}

\* A failed call costs a fault.
Charged(r) ==
  /\ r.ok \/ radio_faults > 0
  /\ radio_faults' = IF r.ok THEN radio_faults ELSE radio_faults - 1

-----------------------------------------------------------------------------
LoRaInit ==
  /\ \E b \in Boards :
       /\ chipset = b.chipset /\ flow_control = b.flow_control /\ lines = b.lines
       /\ radio_faults = b.faults
  /\ phase = "start" /\ tasks = {}
  /\ cancelled = FALSE
  /\ radio = PowerUp
  /\ queued = <<>> /\ frames = <<>>
  /\ submitted = 0 /\ taken = 0 /\ acked = {} /\ unsure = {}
  /\ deaf = FALSE
  /\ rx_queue = <<>> /\ pending = NoFrame /\ delivered = <<>>
  /\ next = FirstOf(1)

air == <<next>>
sending == <<queued, frames, taken, acked, unsure>>
receiving == <<rx_queue, pending, delivered>>
fixed == <<chipset, flow_control, lines>>

\* The chip's Arc: spawn and every task of the session hold it, and the last
\* of them drops the driver.
Released(c, users) ==
  IF phase \in {"run", "closing"} \/ users # {} THEN {c} ELSE Dropped(c)

\* spawn: an invalid configuration ends the interface at once.
Validate ==
  /\ phase = "start"
  /\ phase' \in {"open", "stopped"}
  /\ UNCHANGED <<fixed, tasks, cancelled, radio, sending, submitted, deaf, receiving, air,
                 radio_faults>>

\* open_chipset: init and start_receive; on an error the chip is dropped.
OpenChipset ==
  /\ phase = "open" /\ tasks = {}
  /\ ~cancelled
  /\ \E r \in Then(Then(build(radio), ChipInit), StartReceive) :
       /\ Charged(r)
       /\ IF r.ok
            THEN phase' = "run" /\ tasks' = {"poll", "tx"} /\ radio' = r.chip /\ deaf' = FALSE
            ELSE phase' = "wait" /\ radio' \in Dropped(r.chip) /\ UNCHANGED <<tasks, deaf>>
  /\ UNCHANGED <<fixed, cancelled, sending, submitted, receiving, air>>

\* The old session's driver is still there: its lines cannot be requested, or
\* there are none to tell.
OpenTooEarly ==
  /\ phase = "open" /\ tasks # {}
  /\ ~cancelled
  /\ phase' = IF lines THEN "wait" ELSE "shared"
  /\ UNCHANGED <<fixed, tasks, cancelled, radio, sending, submitted, deaf, receiving, air,
                 radio_faults>>

\* The poll task: one process_irq under the lock.  While the queue is full
\* it waits with the frame it read; told to stop, it still makes one call.
Poll ==
  /\ "poll" \in tasks
  /\ phase # "shared"
  /\ Len(rx_queue) <= RX_QUEUE
  /\ \E r \in ProcessIrq(radio) :
       /\ Charged(r)
       /\ tasks' = IF r.ok /\ phase = "run" /\ ~cancelled THEN tasks ELSE tasks \ {"poll"}
       /\ radio' \in Released(r.chip, tasks')
       /\ rx_queue' = IF phase \in {"run", "closing"} THEN rx_queue \o r.got ELSE rx_queue
       /\ phase' = IF r.ok \/ phase # "run" THEN phase ELSE "closing"
  /\ UNCHANGED <<fixed, cancelled, sending, submitted, deaf, pending, delivered, air>>

\* The forward task hands a frame to the reassembler; its select may prefer
\* the queue to the end of the session.
Forward ==
  /\ phase \in {"run", "closing"}
  /\ rx_queue # <<>>
  /\ rx_queue' = Tail(rx_queue)
  /\ pending' = Held(Head(rx_queue))
  /\ delivered' = delivered \o Accepted(Head(rx_queue))
  /\ UNCHANGED <<fixed, phase, tasks, cancelled, radio, sending, submitted, deaf, air,
                 radio_faults>>

\* The transport sends a packet to the interface.
Submit ==
  /\ \E b \in Boards :
       /\ b.chipset = chipset /\ b.flow_control = flow_control /\ b.lines = lines
       /\ submitted < b.own
  /\ phase # "stopped"
  /\ submitted' = submitted + 1
  /\ UNCHANGED <<fixed, phase, tasks, cancelled, radio, sending, deaf, receiving, air,
                 radio_faults>>

\* The transmit task takes a packet off the channel; with flow control it
\* first goes through a queue of the task's own, where it is lost if the
\* session has ended.
TakePacket ==
  /\ phase \in {"run", "closing"} /\ "tx" \in tasks
  /\ frames = <<>> /\ queued = <<>>
  /\ taken < submitted
  /\ taken' = taken + 1
  /\ LET p == <<"own", taken + 1>> IN
     \/ /\ ~flow_control
        /\ frames' = frames_for_tx(p)
        /\ UNCHANGED <<queued, tasks>>
     \/ /\ flow_control /\ phase = "run"
        /\ queued' = <<p>>
        /\ UNCHANGED <<frames, tasks>>
     \/ /\ flow_control /\ phase = "closing"
        /\ tasks' = tasks \ {"tx"}
        /\ UNCHANGED <<frames, queued>>
  /\ UNCHANGED <<fixed, phase, cancelled, radio, submitted, acked, unsure, deaf, receiving, air,
                 radio_faults>>

TakeQueued ==
  /\ phase = "run"
  /\ queued # <<>> /\ frames = <<>>
  /\ frames' = frames_for_tx(Head(queued))
  /\ queued' = Tail(queued)
  /\ UNCHANGED <<fixed, phase, tasks, cancelled, radio, submitted, taken, acked, unsure, deaf,
                 receiving, air, radio_faults>>

\* An earlier transmission is on air, or its TX_DONE is still to be seen.
Unfinished == radio.mode = "tx" \/ "tx_done" \in radio.irq

\* do_transmit: one frame under the lock.  The first error ends the packet,
\* and only the last success counts it.  The task sees the end of the session
\* when it is done.
TransmitFrame ==
  /\ frames # <<>>
  /\ phase # "shared"
  /\ \E r \in Transmit(radio, Head(frames)) :
       /\ Charged(r)
       /\ deaf' = ~r.ok
       /\ frames' = IF r.ok THEN Tail(frames) ELSE <<>>
       /\ acked' = IF r.ok /\ Len(frames) = 1 THEN acked \cup {Head(frames).packet} ELSE acked
       /\ unsure' = IF Unfinished THEN unsure \cup {Head(frames).packet} ELSE unsure
       /\ tasks' = IF frames' = <<>> /\ phase # "run" THEN tasks \ {"tx"} ELSE tasks
       /\ radio' \in Released(r.chip, tasks')
  /\ UNCHANGED <<fixed, phase, cancelled, queued, submitted, taken, receiving, air>>

\* spawn's select: the session ends on the interface's cancellation.  (On the
\* poll task's error it ends in Poll.)
EndSession ==
  /\ phase = "run" /\ cancelled
  /\ phase' = "closing"
  /\ UNCHANGED <<fixed, tasks, cancelled, radio, sending, submitted, deaf, receiving, air,
                 radio_faults>>

\* RECONNECT_DELAY is over: spawn lets go of the chip.  The tasks have ended,
\* with what they held, or a transmission is not finished yet.
Close ==
  /\ phase = "closing"
  /\ phase' = "open"
  /\ IF frames = <<>> THEN tasks' = {} /\ radio' \in Dropped(radio)
                      ELSE UNCHANGED <<tasks, radio>>
  /\ queued' = <<>> /\ rx_queue' = <<>> /\ pending' = NoFrame
  /\ UNCHANGED <<fixed, cancelled, frames, submitted, taken, acked, unsure, deaf, delivered, air,
                 radio_faults>>

\* After a failed open: RECONNECT_DELAY, or the interface is cancelled.
Delay ==
  /\ phase = "wait"
  /\ phase' = "open"
  /\ UNCHANGED <<fixed, tasks, cancelled, radio, sending, submitted, deaf, receiving, air,
                 radio_faults>>

Stop ==
  /\ phase = "open" /\ cancelled
  /\ phase' = "stopped"
  /\ UNCHANGED <<fixed, tasks, cancelled, radio, sending, submitted, deaf, receiving, air,
                 radio_faults>>

\* The interface is removed.  A poll task that waits for room makes no other call.
Cancel ==
  /\ ~cancelled /\ phase # "stopped"
  /\ cancelled' = TRUE
  /\ tasks' = IF Len(rx_queue) > RX_QUEUE THEN tasks \ {"poll"} ELSE tasks
  /\ UNCHANGED <<fixed, phase, radio, sending, submitted, deaf, receiving, air, radio_faults>>

-----------------------------------------------------------------------------
(* On air. *)

FrameOnAirEnds ==
  /\ radio.mode = "tx"
  /\ radio' = TxDone(radio)
  /\ UNCHANGED <<fixed, phase, tasks, cancelled, sending, submitted, deaf, receiving, air,
                 radio_faults>>

\* A frame of the peer: heard, broken, or missed.
PeerFrame ==
  /\ next.packet[2] <= Peer
  /\ next' = AfterFrame(next)
  /\ \/ radio.mode = "rx" /\ radio' = RxDone(radio, next) /\ UNCHANGED radio_faults
     \/ radio.mode = "rx" /\ radio_faults > 0 /\ radio_faults' = radio_faults - 1
        /\ \E how \in {"crc_err", "header_err"} :
             /\ how = "header_err" => chipset # "sx1276"
             /\ radio' = RxBroken(radio, next, how)
     \/ radio.mode # "rx" /\ UNCHANGED <<radio, radio_faults>>
  /\ UNCHANGED <<fixed, phase, tasks, cancelled, sending, submitted, deaf, receiving>>

\* What spawn does, and what its transmit task does, one after the other.
SessionStep ==
  OpenChipset \/ OpenTooEarly \/ EndSession \/ Close \/ Delay \/ Stop

TransmitStep == TakePacket \/ TakeQueued \/ TransmitFrame

LoRaNext ==
  \/ Validate \/ SessionStep \/ Poll \/ Forward \/ TransmitStep
  \/ Submit \/ Cancel \/ FrameOnAirEnds \/ PeerFrame

LoRaSpec == LoRaInit /\ [][LoRaNext]_loraVars

\* spawn and the tasks run, the delay ends, and a frame on air ends.
LoRaFairSpec ==
  /\ LoRaSpec
  /\ WF_loraVars(SessionStep) /\ WF_loraVars(Poll) /\ WF_loraVars(Forward)
  /\ WF_loraVars(TransmitStep) /\ WF_loraVars(FrameOnAirEnds)

-----------------------------------------------------------------------------
(* Properties. *)

\* A chip is on air, listening or sending, only with every setting of init
\* written since it last lost them, whatever failed and was retried before,
\* the end of a transmission that outlasted its session included, as long as
\* no two drivers share the chip (LoRaChipset::init, spawn's reconnect loop).
OnAirConfigured ==
  phase # "shared" /\ radio.mode \in {"rx", "tx"} => Settings(chipset) \subseteq radio.cfg

\* Packet p was on air as a whole, its frames in order and once each.
WasOnAir(p) ==
  LET at == {i \in DOMAIN radio.sent : radio.sent[i].packet = p} IN
  /\ {radio.sent[i] : i \in at} = Range(frames_for_tx(p))
  /\ \A i, j \in at : i < j => radio.sent[i].half < radio.sent[j].half

\* The SX1262 driver waits for TX_DONE: a packet counted as sent was on air
\* as a whole, unless one of its frames was started while an earlier call had
\* left a frame on air or a TX_DONE in the register, which transmit does not
\* clear (SX1262::transmit, do_transmit).
AckedWasSent ==
  chipset = "sx1262" /\ phase # "shared" => \A p \in acked \ unsure : WasOnAir(p)

\* What goes up is one packet's frames and no other's, and the peer's packets
\* go up in the order they were sent and once each, whatever was lost, and
\* across reconnections (Reassembler::accept, process_irq, spawn).
DeliveredWhole ==
  /\ \A i \in DOMAIN delivered :
       \E p \in Packets : delivered[i] = frames_for_tx(p)
  /\ \A i, j \in DOMAIN delivered :
       LET p == delivered[i][1].packet
           q == delivered[j][1].packet
       IN  i < j /\ p[1] = "peer" /\ q[1] = "peer" => p[2] < q[2]

\* An interface in service whose last transmit did not fail listens again,
\* be it from TX, from a fault or through a reconnect, until it is cancelled
\* or two drivers share the chip (process_irq, spawn).
ListensAgain ==
  (phase = "run" /\ ~deaf) ~> (radio.mode = "rx" \/ deaf \/ cancelled \/ phase = "shared")

=============================================================================
