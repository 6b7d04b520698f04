---------------------------- MODULE SerialDevices ----------------------------
(***************************************************************************)
(* The interfaces that run over a serial port: SerialInterface,            *)
(* KissInterface (a TNC, with or without flow control) and RNodeInterface  *)
(* (a radio that is detected, configured and validated first).             *)
(*                                                                         *)
(* Commands go to the device and reports come back in order.  A device     *)
(* that answers does so within the delay before the port is opened again.  *)
(* Faults: a command or a report that is lost, a device that resets, a     *)
(* port that fails or falls silent.                                        *)
(***************************************************************************)
EXTENDS Naturals, Sequences, FiniteSets, SequencesExt

CONSTANTS
  Setups,      \* the devices to run with: [kind, flow, esp32, valid]
  Settings,    \* the parameters of the radio that init_radio sets
  Limits,      \* the airtime limits it sets
  ReadyQueue,  \* capacity of KISS's channel of READY events (8)
  MaxPackets,  \* bound: packets the transport sends
  MaxFaults

ASSUME SerialAssumption ==
  /\ Setups \subseteq [kind : {"serial", "kiss", "rnode"}, flow : BOOLEAN, esp32 : BOOLEAN,
                      valid : BOOLEAN]
  /\ IsFiniteSet(Settings) /\ IsFiniteSet(Limits) /\ Settings \cap Limits = {}
  /\ (Settings \cup Limits) \cap
       {"params", "detect", "off", "on", "data", "leave", "detected", "firmware",
        "platform", "ready", "reset", "error"} = {}
  /\ ReadyQueue \in Nat \ {0} /\ MaxPackets \in Nat /\ MaxFaults \in Nat

VARIABLES
  setup,    \* the interface's configuration and the device's platform
  at,       \* where spawn is
  port,     \* none, open, error, or eof: reads return nothing
  stop,     \* the session's token
  rx, tx,   \* its tasks
  st,       \* RNodeState; of KISS's write_loop, interface_ready
  wake,     \* RNode's Notify has woken the waiting transmit task
  readyq,   \* KISS: READY events on their way to the transmit task
  chan,     \* packets in the interface's transmit channel
  pq,       \* packets the transmit task holds back
  left,     \* packets the transport has still to send
  out, in,  \* what is on the line, either way
  dev,      \* the device
  missed,   \* a READY, a reset or the platform was not reported
  cancel,
  faults

session == <<at, port, stop, rx, tx>>
line == <<out, in, dev, missed>>
flow == <<wake, readyq, chan, pq, left>>
vars == <<setup, session, st, flow, line, cancel, faults>>

RNode == setup.kind = "rnode"
Kiss == setup.kind = "kiss"

\* RNodeConfig::validate; the other drivers take what they are given.
Valid == RNode => setup.valid

\* RNodeState::new, with interface_ready as the transmit task starts with it.
NewState == [detected |-> FALSE, firmware |-> FALSE, esp32 |-> FALSE, reported |-> {},
             ready |-> ~RNode]

Init ==
  /\ setup \in Setups
  /\ at = "open" /\ port = "none" /\ stop = FALSE /\ rx = "off" /\ tx = "off"
  /\ st = NewState
  /\ wake = FALSE /\ readyq = 0 /\ chan = 0 /\ pq = 0 /\ left = MaxPackets
  /\ out = <<>> /\ in = <<>>
  /\ dev = [on |-> FALSE, cfg |-> {}, strayed |-> FALSE]
  /\ missed = FALSE /\ cancel = FALSE /\ faults = 0

Fault == faults < MaxFaults /\ faults' = faults + 1

Stopping == cancel \/ stop

\* What is written reaches the line while the port is there.
Write(commands) == port \in {"open"} /\ out' = out \o commands

-----------------------------------------------------------------------------
(* spawn *)

\* A configuration out of range ends the interface at once.
Refuse ==
  /\ at = "open" /\ ~Valid
  /\ at' = "ended"
  /\ UNCHANGED <<setup, port, stop, rx, tx, st, flow, line, cancel, faults>>

\* open_port or open_serial: a fresh token and fresh tasks.
Open ==
  /\ at = "open" /\ Valid /\ ~cancel /\ out = <<>>
  /\ at' = "startup" /\ port' = "open" /\ stop' = FALSE
  /\ rx' = IF RNode THEN "run" ELSE "off"
  /\ tx' = "off"
  /\ st' = NewState /\ in' = <<>> /\ readyq' = 0 /\ pq' = 0 /\ wake' = FALSE
  /\ UNCHANGED <<setup, chan, left, out, dev, missed, cancel, faults>>

OpenFails ==
  /\ at = "open" /\ Valid /\ ~cancel
  /\ at' = "wait"
  /\ Fault
  /\ UNCHANGED <<setup, port, stop, rx, tx, st, flow, line, cancel>>

\* The delay before the next attempt, in which what is left of the session
\* comes to its end; then the port is closed.
WaitOver ==
  /\ at = "wait" /\ ~cancel
  /\ rx \in {"off", "done"} /\ tx \in {"off", "done"}
  /\ at' = "open" /\ port' = "none"
  /\ UNCHANGED <<setup, stop, rx, tx, st, flow, line, cancel, faults>>

EndCancelled ==
  /\ at \in {"open", "wait", "startup"} /\ cancel /\ (at = "startup" => ~RNode)
  /\ at' = "ended" /\ port' = "none"
  /\ UNCHANGED <<setup, stop, rx, tx, st, flow, line, cancel, faults>>

TasksRun ==
  /\ at' = "up" /\ rx' = "run" /\ tx' = IF RNode THEN "check" ELSE "run"

\* After STARTUP_DELAY: a TNC gets its parameters, an RNode is asked what it is.
Startup ==
  /\ at = "startup" /\ port = "open"
  /\ CASE setup.kind = "serial" -> TasksRun /\ UNCHANGED out
       [] setup.kind = "kiss"   -> TasksRun /\ Write(<<"params">>)
       [] setup.kind = "rnode"  -> at' = "detect" /\ Write(<<"detect">>) /\ UNCHANGED <<rx, tx>>
  /\ UNCHANGED <<setup, port, stop, st, flow, in, dev, missed, cancel, faults>>

\* configure_device gives up: the receive task is stopped and joined.  The device
\* keeps the radio state it was left in.
GiveUp ==
  /\ stop' = TRUE /\ rx' = "done" /\ tx' = "off"
  /\ at' = "wait"
  /\ UNCHANGED <<setup, port, st, flow, line, cancel>>

radio_matches_on == "on" \in st.reported

\* Frequency, bandwidth, power, spreading factor, coding rate and the state
\* have been reported back; the airtime limits are not looked at.
radio_matches == Settings \cup {"on"} \subseteq st.reported

\* A write that fails, a device that is not detected or not validated in time.
\* The timeouts (wait_for) outlast a device that does answer.
ConfigureFails ==
  /\ \/ at \in {"startup", "detect", "init"} /\ port # "open"
     \/ /\ (out = <<>> /\ in = <<>>) \/ rx = "done"
        /\ \/ at = "detect" /\ ~st.detected
           \/ at = "validate" /\ ~radio_matches
  /\ UNCHANGED faults
  /\ GiveUp

\* The poll sees the device detected before its firmware version has come, or
\* that one is lost: the firmware is taken to be too old.
FirmwareLate ==
  /\ at = "detect" /\ st.detected /\ ~st.firmware
  /\ IF in = <<>> \/ rx = "done" THEN UNCHANGED faults ELSE Fault
  /\ GiveUp

Detected ==
  /\ at = "detect" /\ st.detected /\ st.firmware
  /\ at' = "init"
  /\ UNCHANGED <<setup, port, stop, rx, tx, st, flow, line, cancel, faults>>

\* init_radio: the radio is off while it is set up.
InitCommands == <<"off">> \o SetToSeq(Settings) \o SetToSeq(Limits) \o <<"on">>

init_radio ==
  /\ at = "init" /\ Write(InitCommands)
  /\ at' = "validate"
  /\ UNCHANGED <<setup, port, stop, rx, tx, st, flow, in, dev, missed, cancel, faults>>

\* The transmit task starts.
Validated ==
  /\ at = "validate" /\ radio_matches
  /\ st' = [st EXCEPT !.ready = TRUE]
  /\ at' = "up" /\ tx' = "check"
  /\ UNCHANGED <<setup, port, stop, rx, flow, line, cancel, faults>>

\* Serial and KISS join both tasks; RNode goes on when either ends, or at
\* cancellation, and takes leave of the device if it can.
SessionEnds ==
  /\ at = "up"
  /\ IF RNode
       THEN /\ rx = "done" \/ tx = "done" \/ cancel
            /\ stop' = (stop \/ cancel)
            /\ out' = IF port = "open" THEN out \o <<"off", "leave">> ELSE out
       ELSE rx = "done" /\ tx = "done" /\ UNCHANGED <<stop, out>>
  /\ IF RNode THEN at' = "wait" /\ UNCHANGED port ELSE at' = "open" /\ port' = "none"
  /\ UNCHANGED <<setup, rx, tx, st, flow, in, dev, missed, cancel, faults>>

-----------------------------------------------------------------------------
(* The receive task. *)

RxFailsQuietly ==
  /\ rx = "run" /\ (port = "error" \/ (port = "eof" /\ RNode))
  /\ rx' = "done"
  /\ UNCHANGED <<setup, at, port, stop, tx, st, flow, line, cancel, faults>>

\* An end of file stops RNode; serial and KISS take it for "nothing yet".
RxFails ==
  /\ rx = "run" /\ (port = "error" \/ (port = "eof" /\ RNode))
  /\ rx' = "done" /\ stop' = TRUE
  /\ UNCHANGED <<setup, at, port, tx, st, flow, line, cancel, faults>>

RxStops ==
  /\ rx = "run" /\ Stopping
  /\ rx' = "done"
  /\ UNCHANGED <<setup, at, port, stop, tx, st, flow, line, cancel, faults>>

\* notify_waiters wakes a task that is waiting, and nobody else.
Notify == wake' = (wake \/ tx = "wait")

\* handle_frame and update_command_state.
Applied(report) ==
  CASE report = "detected" -> [st EXCEPT !.detected = TRUE]
    [] report = "firmware" -> [st EXCEPT !.firmware = TRUE]
    [] report = "platform" -> [st EXCEPT !.esp32 = setup.esp32]
    [] report = "ready"    -> [st EXCEPT !.ready = TRUE]
    [] report = "off"      -> [st EXCEPT !.reported = @ \ {"on"}]
    [] report = "on"       -> [st EXCEPT !.reported = @ \cup {"on"}, !.ready = TRUE]
    [] report \in Settings \cup Limits -> [st EXCEPT !.reported = @ \cup {report}]
    [] OTHER               -> st

RNodeReport ==
  /\ RNode /\ rx = "run" /\ in # <<>>
  /\ in' = Tail(in)
  /\ st' = Applied(Head(in))
  /\ IF Head(in) \in {"ready", "on"} THEN Notify ELSE UNCHANGED wake
  /\ stop' = (stop \/ Head(in) = "error" \/ (Head(in) = "reset" /\ st.esp32))
  /\ UNCHANGED <<setup, at, port, rx, tx, readyq, chan, pq, left, out, dev, missed, cancel,
                 faults>>

\* READY goes to the transmit task through a channel, which may be full.
KissReport ==
  /\ Kiss /\ rx = "run" /\ in # <<>>
  /\ Head(in) = "ready" => readyq < ReadyQueue
  /\ in' = Tail(in)
  /\ readyq' = IF Head(in) = "ready" THEN readyq + 1 ELSE readyq
  /\ UNCHANGED <<setup, session, st, wake, chan, pq, left, out, dev, missed, cancel, faults>>

-----------------------------------------------------------------------------
(* The transmit tasks. *)

TxDone == tx' = "done"

\* A write fails: the session is over.
WriteFails ==
  /\ port # "open"
  /\ \/ RNode /\ tx = "sending"
     \/ Kiss /\ tx = "run" /\ st.ready /\ pq > 0
     \/ setup.kind = "serial" /\ tx = "run" /\ chan > 0
  /\ TxDone /\ stop' = TRUE
  /\ chan' = IF setup.kind = "serial" THEN chan - 1 ELSE chan
  /\ UNCHANGED <<setup, at, port, rx, st, wake, readyq, pq, left, line, cancel, faults>>

TxStopsOnToken ==
  /\ stop /\ tx \in {"run", "check", "wait"}
  /\ TxDone
  /\ UNCHANGED <<setup, at, port, stop, rx, st, flow, line, cancel, faults>>

\* The token is looked at in every round and by the select!, cancellation only
\* by the select!.
TxStops ==
  /\ \/ stop /\ tx \in {"run", "check", "wait"}
     \/ cancel /\ (tx = "wait" \/ (tx = "run" /\ ~(Kiss /\ st.ready /\ pq > 0)))
  /\ TxDone
  /\ UNCHANGED <<setup, at, port, stop, rx, st, flow, line, cancel, faults>>

\* SerialInterface: each packet is written as it comes.
SerialSends ==
  /\ setup.kind = "serial" /\ tx = "run" /\ chan > 0 /\ Write(<<"data">>)
  /\ chan' = chan - 1
  /\ UNCHANGED <<setup, session, st, wake, readyq, pq, left, in, dev, missed, cancel, faults>>

\* KISS: what is held back goes first, one packet for every READY.
KissSends ==
  /\ Kiss /\ tx = "run" /\ st.ready /\ pq > 0 /\ ~stop /\ Write(<<"data">>)
  /\ pq' = pq - 1
  /\ st' = [st EXCEPT !.ready = ~setup.flow]
  /\ UNCHANGED <<setup, session, wake, readyq, chan, left, in, dev, missed, cancel, faults>>

KissSelects == Kiss /\ tx = "run" /\ ~(st.ready /\ pq > 0)

KissTakes ==
  /\ KissSelects /\ chan > 0
  /\ chan' = chan - 1 /\ pq' = pq + 1
  /\ UNCHANGED <<setup, session, st, wake, readyq, left, line, cancel, faults>>

KissReady ==
  /\ KissSelects /\ readyq > 0
  /\ readyq' = readyq - 1
  /\ st' = [st EXCEPT !.ready = TRUE]
  /\ UNCHANGED <<setup, session, wake, chan, pq, left, line, cancel, faults>>

\* FLOW_CONTROL_TIMEOUT passed since the last packet.
FlowTimeout == KissSelects /\ setup.flow /\ ~st.ready

KissTimeout ==
  /\ FlowTimeout
  /\ st' = [st EXCEPT !.ready = TRUE]
  /\ UNCHANGED <<setup, session, flow, line, cancel, faults>>

ClaimLate == st

\* RNode: send_packet takes interface_ready back before it writes.
Claim == [st EXCEPT !.ready = @ /\ ~setup.flow]

\* The top of tx_loop: a packet that is held back goes first, if the device is
\* ready for it.  If not, the lock of the state is released.
RNodeChecks ==
  /\ tx = "check" /\ ~stop
  /\ IF setup.flow /\ pq > 0 /\ st.ready
       THEN tx' = "sending" /\ pq' = pq - 1 /\ st' = Claim
       ELSE tx' = "tested" /\ UNCHANGED <<pq, st>>
  /\ UNCHANGED <<setup, at, port, stop, rx, wake, readyq, chan, left, line, cancel, faults>>

\* With the channel's lock, which it waits for, the task gets to its select!,
\* and only from then on does READY wake it.
RNodeSelects ==
  /\ tx = "tested"
  /\ tx' = "wait" /\ wake' = FALSE
  /\ UNCHANGED <<setup, at, port, stop, rx, st, readyq, chan, pq, left, line, cancel, faults>>

RNodeWakes ==
  /\ tx = "wait" /\ wake /\ setup.flow /\ pq > 0
  /\ tx' = "check"
  /\ UNCHANGED <<setup, at, port, stop, rx, st, flow, line, cancel, faults>>

\* A packet from the channel, even past the ones that are held back.
RNodeTakes ==
  /\ tx = "wait" /\ chan > 0
  /\ chan' = chan - 1
  /\ IF setup.flow /\ ~st.ready
       THEN tx' = "check" /\ pq' = pq + 1 /\ UNCHANGED st
       ELSE tx' = "sending" /\ st' = Claim /\ UNCHANGED pq
  /\ UNCHANGED <<setup, at, port, stop, rx, wake, readyq, left, line, cancel, faults>>

RNodeTimerIdle ==
  /\ tx = "wait" /\ pq = 0
  /\ tx' = "check"
  /\ UNCHANGED <<setup, at, port, stop, rx, st, flow, line, cancel, faults>>

\* channel_load_timer: the device is asked for its load, and the loop begins
\* anew.
RNodeTimer ==
  /\ tx = "wait" /\ pq > 0
  /\ tx' = "check"
  /\ UNCHANGED <<setup, at, port, stop, rx, st, flow, line, cancel, faults>>

RNodeWrites ==
  /\ tx = "sending" /\ Write(<<"data">>)
  /\ tx' = "check"
  /\ UNCHANGED <<setup, at, port, stop, rx, st, flow, in, dev, missed, cancel, faults>>

\* A packet that does not fit or cannot be encoded is dropped, and claims
\* nothing.
Unencodable ==
  /\ chan > 0 /\ chan' = chan - 1
  /\ \/ KissSelects /\ UNCHANGED tx
     \/ setup.kind = "serial" /\ tx = "run" /\ UNCHANGED tx
     \/ tx = "wait" /\ (setup.flow => st.ready) /\ tx' = "check"
  /\ Fault
  /\ UNCHANGED <<setup, at, port, stop, rx, st, wake, readyq, pq, left, line, cancel>>

-----------------------------------------------------------------------------
(* The device, the line, the transport. *)

\* What the device answers to a command.
Answer(command) ==
  CASE command = "detect" -> <<"detected", "firmware", "platform">>
    [] command = "data" -> IF Kiss \/ dev.on THEN <<"ready">> ELSE <<>>
    [] command \in {"leave", "params"} -> <<>>
    [] OTHER -> <<command>>

DeviceTakes ==
  /\ out # <<>>
  /\ out' = Tail(out)
  /\ dev' = CASE Head(out) = "on"  -> [dev EXCEPT !.on = TRUE]
              [] Head(out) = "off" -> [dev EXCEPT !.on = FALSE]
              [] Head(out) = "data" ->
                   [dev EXCEPT !.strayed = @ \/ (dev.on /\ ~(Settings \subseteq dev.cfg))]
              [] Head(out) \in Settings \cup Limits -> [dev EXCEPT !.cfg = @ \cup {Head(out)}]
              [] OTHER -> dev
  /\ in' = IF port = "open" /\ setup.kind # "serial" THEN in \o Answer(Head(out)) ELSE in
  /\ UNCHANGED <<setup, session, st, flow, missed, cancel, faults>>

CommandLost ==
  /\ out # <<>> /\ RNode /\ Head(out) # "data"
  /\ out' = Tail(out)
  /\ Fault
  /\ UNCHANGED <<setup, session, st, flow, in, dev, missed, cancel>>

Vital == {"ready", "reset", "platform"}

ReportLost ==
  /\ in # <<>>
  /\ in' = Tail(in)
  /\ missed' = (missed \/ Head(in) \in Vital)
  /\ Fault
  /\ UNCHANGED <<setup, session, st, flow, out, dev, cancel>>

\* The device restarts with its radio off, and says so.
DeviceResets ==
  /\ RNode /\ port = "open" /\ at \in {"detect", "init", "validate", "up"}
  /\ dev' = [dev EXCEPT !.on = FALSE, !.cfg = {}]
  /\ out' = <<>> /\ in' = <<"reset">>
  /\ missed' = (missed \/ "data" \in Range(out) \/ Range(in) \cap Vital # {})
  /\ Fault
  /\ UNCHANGED <<setup, session, st, flow, cancel>>

\* CMD_ERROR with a fatal code: the radio does not initialise, or does not send.
DeviceErrs ==
  /\ RNode /\ port = "open" /\ rx = "run" /\ dev.on
  /\ in' = Append(in, "error")
  /\ Fault
  /\ UNCHANGED <<setup, session, st, flow, out, dev, missed, cancel>>

PortFails ==
  /\ port = "open"
  /\ port' \in {"error", "eof"}
  /\ out' = <<>> /\ in' = <<>>
  /\ Fault
  /\ UNCHANGED <<setup, at, stop, rx, tx, st, flow, dev, missed, cancel>>

TransportSends ==
  /\ left > 0 /\ chan = 0 /\ ~cancel
  /\ chan' = chan + 1 /\ left' = left - 1
  /\ UNCHANGED <<setup, session, st, wake, readyq, pq, line, cancel, faults>>

Shutdown ==
  /\ ~cancel /\ cancel' = TRUE
  /\ UNCHANGED <<setup, session, st, flow, line, faults>>

-----------------------------------------------------------------------------
SpawnStep ==
  \/ Open \/ WaitOver \/ EndCancelled \/ Startup \/ ConfigureFails \/ FirmwareLate
  \/ Detected \/ init_radio \/ Validated \/ SessionEnds

RxStep == RxFails \/ RxStops \/ RNodeReport \/ KissReport

TxStep ==
  \/ WriteFails \/ SerialSends \/ KissSends \/ KissReady \/ KissTimeout
  \/ RNodeChecks \/ RNodeSelects \/ RNodeWakes \/ RNodeTimer \/ RNodeWrites

TxTakes == KissTakes \/ RNodeTakes

Next ==
  \/ SpawnStep \/ Refuse \/ OpenFails \/ RxStep \/ TxStep \/ TxTakes \/ TxStops
  \/ DeviceTakes \/ CommandLost \/ ReportLost \/ DeviceResets \/ DeviceErrs
  \/ PortFails
  \/ Unencodable \/ TransportSends \/ Shutdown

Spec == Init /\ [][Next]_vars

\* Tasks go on, timers fire, the device works.  The transmit tasks' select!
\* picks among its ready branches at random, so a packet that is waiting and a
\* token that is cancelled are not passed over for ever.
FairSpec ==
  /\ Spec
  /\ WF_vars(SpawnStep) /\ WF_vars(RxStep) /\ WF_vars(TxStep) /\ WF_vars(DeviceTakes)
  /\ SF_vars(TxTakes) /\ SF_vars(TxStops)

-----------------------------------------------------------------------------
(* Properties. *)

\* No packet goes on air while the radio lacks one of the parameters it was
\* given (frequency, bandwidth, power, spreading factor, coding rate), whatever
\* commands were lost and however often the device was reset: data is only sent
\* after each of them was reported back (configure_device, init_radio,
\* radio_matches), and a radio that resets goes off the air.  Nothing of the
\* kind is true of the airtime limits: the loss of one goes unnoticed.
DataOnConfiguredRadio == ~dev.strayed

\* With flow control an RNode is handed one packet at a time: between writing
\* a packet and its READY no other is written (send_packet, tx_loop).
OneOutstanding ==
  RNode /\ setup.flow /\ at = "up" =>
    \A i, j \in 1..Len(out \o in) :
      {(out \o in)[i], (out \o in)[j]} \subseteq {"data", "ready"} => i = j

\* Packets that are held back for flow control leave, all of them, or the
\* session ends: also when READY comes after interface_ready was tested and
\* before the wait for it begins, which wakes nobody (RNode), and when it gets
\* lost (KISS).  An RNode waits for a lost READY for ever.
HeldBackLeaves ==
  (at = "up" /\ pq > 0) ~> (pq = 0 \/ at # "up" \/ (RNode /\ missed))

\* A port that fails is opened again, and a radio that reset is set up again,
\* if its platform is one whose resets are acted upon and was reported, as was
\* the reset.
Recovers ==
  /\ (port = "error") ~> (port = "open" \/ at = "ended")
  /\ (RNode /\ setup.esp32 /\ at = "up" /\ ~dev.on)
       ~> ((at = "up" /\ dev.on /\ Settings \subseteq dev.cfg) \/ cancel \/ missed)

\* Once cancelled, the driver ends, from any delay and any step of a
\* configuration.
ShutsDown == cancel ~> at = "ended"
=============================================================================
