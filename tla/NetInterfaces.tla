---------------------------- MODULE NetInterfaces ----------------------------
(***************************************************************************)
(* The interfaces that run over sockets, and the registry that keeps them: *)
(* TcpClient and BackboneClient ("client" when they dial, "child" when a   *)
(* server accepted the connection), Modem73Interface, UdpInterface with    *)
(* and without a forward address, TcpServer and BackboneServer.            *)
(*                                                                         *)
(* A driver's spawn runs a receive and a transmit task per connection.     *)
(* They share the connection's stop token, which the one that fails        *)
(* cancels; spawn joins both, then dials again, or ends.  Delays are       *)
(* states that a timer leaves.  Every fault costs one of MaxFaults, so the *)
(* liveness properties speak of what happens when the faults have ended.   *)
(***************************************************************************)
EXTENDS Naturals, FiniteSets

CONSTANTS
  Kinds,            \* the kinds of the configured interface
  TX_QUEUE,         \* capacity of an interface's transmit channel
  max_connections,  \* of TcpServer
  MaxInterfaces,    \* bound: interfaces that exist, one after the other
  MaxClients,       \* bound: connections a server of each kind accepts
  MaxFaults         \* bound: faults of the network and the peers

AllKinds == {"client", "modem73", "udp", "udp_listen", "tcp_server", "backbone_server"}

ASSUME NetAssumption ==
  /\ Kinds \subseteq AllKinds
  /\ TX_QUEUE \in Nat \ {0} /\ max_connections \in Nat \ {0}
  /\ MaxInterfaces \in Nat \ {0} /\ MaxClients \in [AllKinds -> 0..(MaxInterfaces - 1)]
  /\ MaxFaults \in Nat

\* The configured interface is the first.
Ids == 1..MaxInterfaces

VARIABLES
  drv,      \* the driver of every interface: see NewDriver
  listed,   \* InterfaceManager.ifaces, by address
  stopped,  \* channel.stop of every interface
  idle,     \* no activity for the grace period
  queue,    \* messages in an interface's transmit channel
  active,   \* TcpServer's active_connections
  ctl,      \* Modem73: the control connection
  tnc,      \* Modem73: the modem behind it: whether its payload is too small for
            \* a packet, whether it fragments, and, for the properties, whether
            \* it does not do what it was last told, or never was
  cancel,   \* the transport's cancellation token
  faults

vars == <<drv, listed, stopped, idle, queue, active, ctl, tnc, cancel, faults>>

-----------------------------------------------------------------------------
(* Drivers. *)

Servers == {"tcp_server", "backbone_server"}
Datagram == {"udp", "udp_listen"}

\* Writes go through write_frame_with_deadline.
Deadlined == {"client", "child"}

NoDriver == [kind |-> "none", at |-> "none", stop |-> FALSE, rx |-> "off", tx |-> "off",
             conn |-> "none", reads |-> TRUE]

\* Where spawn begins.
Entry(kind) ==
  CASE kind = "modem73" -> "query"
    [] kind \in Datagram \cup Servers -> "bind"
    [] OTHER -> "connect"

NewDriver(kind) == [NoDriver EXCEPT !.kind = kind, !.at = Entry(kind)]

\* A connection: both tasks run, with a fresh stop token.
Session(d) ==
  [d EXCEPT !.at = "up", !.stop = FALSE, !.conn = "open", !.reads = TRUE, !.rx = "run",
            !.tx = IF d.kind = "udp_listen" THEN "off" ELSE "run"]

Stopping(i) == cancel \/ drv[i].stop

Set(i, d) == drv' = [drv EXCEPT ![i] = d]

Fault == faults < MaxFaults /\ faults' = faults + 1
NoFault == UNCHANGED faults

RestUnchanged == UNCHANGED <<listed, stopped, idle, queue, active, ctl, tnc, cancel>>

Init ==
  /\ \E kind \in Kinds : drv = [i \in Ids |-> IF i = 1 THEN NewDriver(kind) ELSE NoDriver]
  /\ listed = {1}
  /\ stopped = [i \in Ids |-> FALSE]
  /\ idle = [i \in Ids |-> FALSE]
  /\ queue = [i \in Ids |-> 0]
  /\ active = 0
  /\ ctl = [at |-> "off", inbox |-> {}, target |-> FALSE]
  /\ \E small, frag \in (IF drv[1].kind = "modem73" THEN BOOLEAN ELSE {FALSE}) :
       tnc = [small |-> small, frag |-> frag, astray |-> frag]
  /\ cancel = FALSE
  /\ faults = 0

-----------------------------------------------------------------------------
(* spawn: dialling, binding, joining the tasks, ending. *)

\* spawn returns: the interface's own token is cancelled, except by UDP.  For
\* a client of TcpServer its slot is free again.
End(i) ==
  /\ Set(i, [drv[i] EXCEPT !.at = "ended", !.conn = "none", !.rx = "off", !.tx = "off"])
  /\ stopped' = IF drv[i].kind \in Datagram THEN stopped ELSE [stopped EXCEPT ![i] = TRUE]
  /\ active' = IF drv[i].kind = "child" /\ drv[1].kind = "tcp_server" THEN active - 1 ELSE active
  /\ UNCHANGED <<listed, idle, queue, ctl, tnc, cancel, faults>>

\* The loop's test for cancellation, and the biased branches for it.
EndCancelled(i) ==
  /\ cancel /\ drv[i].at \in {"connect", "wait", "bind", "joined"}
  /\ drv[i].kind = "modem73" => ctl.at = "ended"
  /\ End(i)

\* Modem73: the control port is asked for the MTU before anything else.
QueryMtu(i) ==
  /\ drv[i].at = "query"
  /\ ctl' = [ctl EXCEPT !.at = "connect"]
  /\ Set(i, [drv[i] EXCEPT !.at = "connect"])
  /\ UNCHANGED <<listed, stopped, idle, queue, active, tnc, cancel, faults>>

\* It accepts the connection and never answers, and nothing ends the wait.
QueryHangs(i) ==
  /\ drv[i].at = "query"
  /\ Set(i, [drv[i] EXCEPT !.at = "hung"])
  /\ Fault /\ RestUnchanged

Connected(i) ==
  /\ drv[i].at = "connect" \/ (drv[i].at = "bind" /\ drv[i].kind \in Datagram)
  /\ ~cancel
  /\ Set(i, Session(drv[i]))
  /\ NoFault /\ RestUnchanged

ConnectFails(i) ==
  /\ drv[i].at \in {"connect", "bind"} /\ drv[i].kind # "child" /\ ~cancel
  /\ Set(i, [drv[i] EXCEPT !.at = "wait"])
  /\ Fault /\ RestUnchanged

\* wait_to_reconnect, or the plain sleep after a failed bind.
WaitOver(i) ==
  /\ drv[i].at = "wait" /\ ~cancel
  /\ Set(i, [drv[i] EXCEPT !.at = IF drv[i].kind \in Datagram \cup Servers
                                  THEN "bind" ELSE "connect"])
  /\ NoFault /\ RestUnchanged

\* await_reconnect_delay discards what is sent meanwhile.
WaitDiscards(i) ==
  /\ drv[i].at = "wait" /\ drv[i].kind \notin Datagram \cup Servers
  /\ queue[i] > 0
  /\ queue' = [queue EXCEPT ![i] = @ - 1]
  /\ UNCHANGED <<drv, listed, stopped, idle, active, ctl, tnc, cancel, faults>>

TasksDone(i) == drv[i].at = "up" /\ drv[i].rx \in {"off", "done"} /\ drv[i].tx \in {"off", "done"}

\* Both tasks are joined and the connection is over.
Reconnect(i) ==
  /\ TasksDone(i) /\ drv[i].kind # "child" /\ drv[i].kind \notin Servers
  /\ Set(i, [drv[i] EXCEPT !.at = IF drv[i].kind \in Datagram THEN "bind" ELSE "wait",
                           !.conn = "none", !.rx = "off", !.tx = "off"])
  /\ NoFault /\ RestUnchanged

\* A connection from a server is not dialled again.
ChildEnds(i) ==
  /\ TasksDone(i) /\ drv[i].kind = "child"
  /\ End(i)

-----------------------------------------------------------------------------
(* The tasks of a connection. *)

RxFailsQuietly(i) ==
  /\ drv[i].rx = "run" /\ drv[i].conn = "closed"
  /\ Set(i, [drv[i] EXCEPT !.rx = "done"])
  /\ NoFault /\ RestUnchanged

\* A read that fails cancels the token; UDP's does so only for a datagram of
\* length zero, not for an error.
RxFails(i) ==
  /\ drv[i].rx = "run" /\ drv[i].conn = "closed"
  /\ Set(i, [drv[i] EXCEPT !.rx = "done", !.stop = TRUE])
  /\ NoFault /\ RestUnchanged

UdpReceiveEnds(i, empty) ==
  /\ drv[i].rx = "run" /\ drv[i].kind \in Datagram
  /\ Set(i, [drv[i] EXCEPT !.rx = "done", !.stop = @ \/ empty])
  /\ Fault /\ RestUnchanged

RxStops(i) ==
  /\ drv[i].rx = "run" /\ Stopping(i)
  /\ Set(i, [drv[i] EXCEPT !.rx = "done"])
  /\ NoFault /\ RestUnchanged

\* A packet goes up: the transport records the activity if it knows the
\* interface (record_interface_activity).
Receive(i) ==
  /\ drv[i].rx = "run" /\ drv[i].conn = "open"
  /\ i \in listed /\ idle[i]
  /\ idle' = [idle EXCEPT ![i] = FALSE]
  /\ UNCHANGED <<drv, listed, stopped, queue, active, ctl, tnc, cancel, faults>>

\* The transmit task takes a message and writes it; the drain task of a
\* server, and UDP, have nothing to wait for.
Take(i) ==
  /\ drv[i].tx = "run" /\ queue[i] > 0
  /\ queue' = [queue EXCEPT ![i] = @ - 1]
  /\ Set(i, [drv[i] EXCEPT !.tx = IF drv[i].kind \in Datagram \cup Servers
                                  THEN "run" ELSE "write"])
  /\ UNCHANGED <<listed, stopped, idle, active, ctl, tnc, cancel, faults>>

Written(i) ==
  /\ drv[i].tx = "write" /\ drv[i].conn = "open" /\ drv[i].reads
  /\ Set(i, [drv[i] EXCEPT !.tx = "run"])
  /\ NoFault /\ RestUnchanged

WriteGivesUpOnError(i) == drv[i].conn = "closed"

\* write_frame_with_deadline: an error, a peer that does not read, the
\* connection's token or the transport's ends it.  Modem73 writes without it.
WriteGivesUp(i) ==
  \/ drv[i].conn = "closed"
  \/ drv[i].kind \in Deadlined /\ (~drv[i].reads \/ Stopping(i))

WriteFails(i) ==
  /\ drv[i].tx = "write" /\ WriteGivesUp(i)
  /\ Set(i, [drv[i] EXCEPT !.tx = "done", !.stop = TRUE])
  /\ NoFault /\ RestUnchanged

TxStopsOnToken(i) ==
  /\ drv[i].tx = "run" /\ drv[i].stop
  /\ Set(i, [drv[i] EXCEPT !.tx = "done"])
  /\ NoFault /\ RestUnchanged

TxStops(i) ==
  /\ drv[i].tx = "run" /\ Stopping(i)
  /\ Set(i, [drv[i] EXCEPT !.tx = "done"])
  /\ NoFault /\ RestUnchanged

\* The peer closes the connection, or stops reading from it.
PeerCloses(i) ==
  /\ drv[i].conn = "open" /\ drv[i].kind \in Deadlined \cup {"modem73"}
  /\ Set(i, [drv[i] EXCEPT !.conn = "closed"])
  /\ Fault /\ RestUnchanged

PeerStalls(i) ==
  /\ drv[i].conn = "open" /\ drv[i].kind \in Deadlined \cup {"modem73"} /\ drv[i].reads
  /\ Set(i, [drv[i] EXCEPT !.reads = FALSE])
  /\ Fault /\ RestUnchanged

-----------------------------------------------------------------------------
(* Servers. *)

\* Listening, with the task that drains what is sent to the server itself.
Listen(i) ==
  /\ drv[i].at = "bind" /\ drv[i].kind \in Servers /\ ~cancel
  /\ Set(i, [drv[i] EXCEPT !.at = "listen", !.tx = "run"])
  /\ NoFault /\ RestUnchanged

Unspawned == {i \in Ids : drv[i].kind = "none"}

\* spawn_with_ifac_config lists a transient interface and starts its driver.
SpawnChild(i) ==
  /\ Cardinality(Ids \ Unspawned) <= MaxClients[drv[i].kind]
  /\ LET c == CHOOSE c \in Unspawned : \A o \in Unspawned : c <= o
     IN  /\ drv' = [drv EXCEPT ![c] = NewDriver("child")]
         /\ listed' = listed \cup {c}
  /\ UNCHANGED <<stopped, idle, queue, ctl, tnc, cancel, faults>>

SlotFreeOffByOne == active <= max_connections

SlotFree == active < max_connections

TcpAccept(i) ==
  /\ drv[i].at = "listen" /\ drv[i].kind = "tcp_server"
  /\ SlotFree
  /\ SpawnChild(i)
  /\ active' = active + 1

\* Of the connections the reconnect pacer lets through (ReconnectPacer).
BackboneAccept(i) ==
  /\ drv[i].at = "listen" /\ drv[i].kind = "backbone_server"
  /\ SpawnChild(i)
  /\ UNCHANGED active

\* The accept loop ends with the drain task.
StopListening(i) ==
  /\ drv[i].at = "listen" /\ cancel /\ drv[i].tx = "done"
  /\ Set(i, [drv[i] EXCEPT !.at = "joined", !.tx = "off"])
  /\ NoFault /\ RestUnchanged

-----------------------------------------------------------------------------
(* Modem73's control connection. *)

CtlSet(c) == ctl' = c /\ UNCHANGED <<drv, listed, stopped, idle, queue, active, cancel>>

\* Connected, and get_config is answered with the configuration of now.
CtlConnect ==
  /\ ctl.at = "connect" /\ ~cancel
  /\ CtlSet([ctl EXCEPT !.at = "up", !.inbox = {tnc.small}])
  /\ NoFault /\ UNCHANGED tnc

CtlFails ==
  /\ ctl.at \in {"connect", "up"}
  /\ CtlSet([ctl EXCEPT !.at = "wait", !.inbox = {}])
  /\ Fault /\ UNCHANGED tnc

CtlRetry ==
  /\ ctl.at = "wait" /\ ~cancel
  /\ CtlSet([ctl EXCEPT !.at = "connect"])
  /\ NoFault /\ UNCHANGED tnc

CtlStops ==
  /\ cancel /\ ctl.at \in {"connect", "up", "wait"}
  /\ CtlSet([ctl EXCEPT !.at = "ended", !.inbox = {}])
  /\ NoFault /\ UNCHANGED tnc

BelievedAnyway(want, said) == want

\* What the driver believes afterwards: the last thing it managed to say.
Believed(want, said) == said

\* handle_control_message with a payload size: when it asks for a change of
\* fragmentation, the command is written, and reaches the modem; or the write
\* fails; or it is lost on the way, which the driver cannot know.
CtlMessage ==
  /\ ctl.at = "up"
  /\ \E want \in ctl.inbox :
       IF want = ctl.target
         THEN /\ CtlSet([ctl EXCEPT !.inbox = @ \ {want}])
              /\ UNCHANGED <<tnc, faults>>
         ELSE \/ /\ CtlSet([ctl EXCEPT !.inbox = @ \ {want}, !.target = Believed(want, want)])
                 /\ tnc' = [tnc EXCEPT !.frag = want, !.astray = FALSE]
                 /\ NoFault
              \/ /\ CtlSet([ctl EXCEPT !.at = "wait", !.inbox = {},
                                       !.target = Believed(want, ctl.target)])
                 /\ UNCHANGED tnc /\ Fault
              \/ /\ CtlSet([ctl EXCEPT !.at = "wait", !.inbox = {}, !.target = want])
                 /\ tnc' = [tnc EXCEPT !.astray = (tnc.frag # want)]
                 /\ Fault

\* The operator changes the modem's mode: config_changed follows.
TncReconfigured ==
  /\ drv[1].kind = "modem73" /\ ctl.inbox = {}
  /\ tnc' = [tnc EXCEPT !.small = ~@]
  /\ CtlSet(IF ctl.at = "up" THEN [ctl EXCEPT !.inbox = {~tnc.small}] ELSE ctl)
  /\ Fault

\* The modem restarts with its defaults; the control connection is lost.
TncRestarts ==
  /\ drv[1].kind = "modem73" /\ ctl.at \in {"connect", "up", "wait"}
  /\ tnc' = [tnc EXCEPT !.frag = FALSE, !.astray = ctl.target]
  /\ CtlSet([ctl EXCEPT !.at = "wait", !.inbox = {}])
  /\ Fault

-----------------------------------------------------------------------------
(* The registry and the transport. *)

\* send_or_drop to a listed interface: last_activity is renewed either way.
Send(i) ==
  /\ i \in listed /\ ~cancel
  /\ queue' = [queue EXCEPT ![i] = IF @ < TX_QUEUE THEN @ + 1 ELSE @]
  /\ idle' = [idle EXCEPT ![i] = FALSE]
  /\ UNCHANGED <<drv, listed, stopped, active, ctl, tnc, cancel, faults>>

\* The grace period passes without activity.
FallsIdle(i) ==
  /\ i \in listed /\ drv[i].kind = "child" /\ ~idle[i]
  /\ idle' = [idle EXCEPT ![i] = TRUE]
  /\ UNCHANGED <<drv, listed, stopped, queue, active, ctl, tnc, cancel>> /\ Fault

\* cleanup_inactive: transient interfaces that fell idle.  Their drivers do
\* not look at the token that is cancelled with it.
Reclaimable(i) == drv[i].kind = "child" /\ ~stopped[i] /\ idle[i]

\* cleanup: interfaces that stopped.
Stopped(i) == stopped[i]

\* handle_cleanup, which does both.
handle_cleanup ==
  LET gone == {i \in listed : Reclaimable(i)}
  IN  /\ \E i \in listed : Stopped(i) \/ i \in gone
      /\ listed' = {i \in listed \ gone : ~Stopped(i)}
      /\ stopped' = [i \in Ids |-> stopped[i] \/ i \in gone]
      /\ UNCHANGED <<drv, idle, queue, active, ctl, tnc, cancel, faults>>

Shutdown ==
  /\ ~cancel /\ cancel' = TRUE
  /\ UNCHANGED <<drv, listed, stopped, idle, queue, active, ctl, tnc, faults>>

-----------------------------------------------------------------------------
SpawnStep(i) ==
  \/ EndCancelled(i) \/ QueryMtu(i) \/ Connected(i) \/ WaitOver(i) \/ Reconnect(i)
  \/ ChildEnds(i) \/ Listen(i) \/ StopListening(i)

RxStep(i) == RxFails(i) \/ RxStops(i)

TxStep(i) == Take(i) \/ Written(i)

CtlStep == CtlConnect \/ CtlRetry \/ CtlMessage

Next ==
  \/ \E i \in Ids :
       \/ SpawnStep(i) \/ RxStep(i) \/ TxStep(i) \/ TxStops(i) \/ WriteFails(i)
       \/ QueryHangs(i) \/ ConnectFails(i) \/ WaitDiscards(i) \/ Receive(i)
       \/ \E empty \in BOOLEAN : UdpReceiveEnds(i, empty)
       \/ PeerCloses(i) \/ PeerStalls(i) \/ TcpAccept(i) \/ BackboneAccept(i) \/ Send(i) \/ FallsIdle(i)
  \/ CtlStep \/ CtlFails \/ CtlStops \/ TncReconfigured \/ TncRestarts
  \/ handle_cleanup \/ Shutdown

Spec == Init /\ [][Next]_vars

\* Tasks that can go on do so, and select! takes each of its ready branches
\* again and again, so that a task sees its token even under traffic.  The
\* transport runs its cleanup periodically.
FairSpec ==
  /\ Spec
  /\ \A i \in Ids :
       /\ WF_vars(SpawnStep(i)) /\ WF_vars(RxStep(i)) /\ WF_vars(TxStep(i))
       /\ WF_vars(WriteFails(i)) /\ SF_vars(TxStops(i))
  /\ WF_vars(CtlStep) /\ SF_vars(CtlStops) /\ WF_vars(handle_cleanup)

-----------------------------------------------------------------------------
(* Properties. *)

\* TcpServer never serves more clients than max_connections, and its count is
\* the number of clients whose driver still runs, however they end: a slot is
\* neither lost nor given twice (TcpServer::spawn).
SlotsExact ==
  LET alive == {i \in Ids : drv[i].kind = "child" /\ drv[i].at # "ended"}
  IN  drv[1].kind = "tcp_server" => active = Cardinality(alive) /\ active <= max_connections

\* When one task of a connection has ended, so does the other, and the
\* interface receives again, or is over: no driver is left with half its
\* tasks (TcpClient, BackboneClient, Modem73; not UDP, whose transmit task
\* outlives a receive error).
Heals ==
  \A i \in Ids :
    (drv[i].rx = "done" /\ drv[i].kind \notin Datagram)
      ~> (drv[i].rx = "run" \/ drv[i].at = "ended" \/ cancel)

\* "The deadline bounds the stall so the transport reclaims the interface":
\* a queue that is full is taken from again, or discarded while the driver
\* waits, even with a peer that does not read (write_frame_with_deadline,
\* await_reconnect_delay, spawn_tx_drain_task).
NotSaturated ==
  \A i \in Ids :
    (queue[i] = TX_QUEUE /\ drv[i].kind \in Deadlined \cup Servers \cup {"udp"})
      ~> (queue[i] < TX_QUEUE \/ i \notin listed \/ cancel)

\* Once cancelled, every driver whose writes have a deadline ends, and so do
\* servers and UDP, also while the peer does not read, during a delay and in
\* the middle of a write.
ShutsDown ==
  \A i \in Ids :
    (cancel /\ drv[i].kind \in Deadlined \cup Servers \cup Datagram) ~> drv[i].at = "ended"

\* With packets larger than its payload the modem is told to fragment, and to
\* stop when they fit, through control connections that are lost and commands
\* that cannot be written.  What the driver cannot put right is a modem that
\* went astray of what it was told and has just the payload the driver acted
\* upon last: the target starts FALSE and the modem's own flag is never read,
\* so a modem that fragmented before, restarted, or did not get a command that
\* was written, is left alone until its payload changes
\* (handle_control_message, control_loop).
FragmentationFollows ==
  (drv[1].kind = "modem73" /\ tnc.small # tnc.frag)
    ~> \/ tnc.small = tnc.frag
       \/ tnc.astray /\ tnc.small = ctl.target
       \/ drv[1].at = "hung" \/ cancel
=============================================================================
