-------------------------- MODULE InterfaceProofs --------------------------
(***************************************************************************)
(* The interface drivers, for every number of connections, packets and     *)
(* faults: TcpServer's connection slots, and the LoRa interface over its   *)
(* three chipset drivers.                                                  *)
(*                                                                         *)
(* Slots.  The count of active connections is the number of clients whose  *)
(* driver still runs, and never exceeds max_connections.  SlotsExact needs *)
(* to know who the clients are: only the first interface is a server, and  *)
(* every other is unused or was accepted by it.  A slot is given back by   *)
(* the one step that makes a driver end, and a driver that ended stays so. *)
(*                                                                         *)
(* LoRa.  What a call of a driver does to the chip is summed up by a few   *)
(* relations between the chip before and after it (Quiet, Kept, Moved,     *)
(* Polled), which hold of each driver's methods whichever command of their *)
(* chain fails.  Three inductive invariants use them: ServiceInv (as long  *)
(* as a session or a task it left behind uses the chip, it is configured), *)
(* SentInv (what is left to send is what is not on air yet, but for what   *)
(* was sent into an unfinished transmission) and UpInv (what was received  *)
(* is in order, from the half the reassembler holds to the frame in the    *)
(* chip).                                                                  *)
(***************************************************************************)
EXTENDS NetInterfaces, LoRaInterface, FiniteSetTheorems, WellFoundedInduction,
        SequenceTheorems, TLAPS

-----------------------------------------------------------------------------
(* TcpServer's slots *)

Alive == {i \in Ids : drv[i].kind = "child" /\ drv[i].at # "ended"}

Places ==
  {"none", "query", "hung", "connect", "bind", "wait", "up", "listen", "joined", "ended"}

Drivers ==
  [kind : AllKinds \cup {"none", "child"}, at : Places, stop : BOOLEAN,
   rx : {"off", "run", "done"}, tx : {"off", "run", "write", "done"},
   conn : {"none", "open", "closed"}, reads : BOOLEAN]

SlotInv ==
  /\ drv \in [Ids -> Drivers]
  /\ drv[1].kind \in AllKinds
  /\ \A i \in Ids \ {1} : drv[i].kind \in {"none", "child"}
  /\ active \in Nat
  /\ drv[1].kind = "tcp_server" => active = Cardinality(Alive) /\ active <= max_connections

\* The first interface exists, and there are finitely many.
LEMMA IdsFinite ==
  /\ 1 \in Ids /\ Ids \subseteq Nat
  /\ IsFiniteSet(Ids) /\ Cardinality(Ids) = MaxInterfaces
  /\ IsFiniteSet(Alive) /\ Cardinality(Alive) \in Nat
<1>1. 1 \in Ids /\ Ids \subseteq Nat
  BY NetAssumption DEF Ids
<1>2. IsFiniteSet(Ids) /\ Cardinality(Ids) = MaxInterfaces
  BY NetAssumption, FS_Interval DEF Ids
<1>3. IsFiniteSet(Alive) /\ Cardinality(Alive) \in Nat
  BY <1>2, FS_Subset, FS_CardinalityType DEF Alive
<1> QED
  BY <1>1, <1>2, <1>3

\* One driver, no client.
LEMMA InitSlots == Init => SlotInv
<1> SUFFICES ASSUME Init PROVE SlotInv
  OBVIOUS
<1>1. PICK kind \in Kinds :
        drv = [i \in Ids |-> IF i = 1 THEN NewDriver(kind) ELSE NoDriver]
  BY DEF Init
<1>2. kind \in AllKinds
  BY NetAssumption
<1>3. NoDriver \in Drivers /\ NoDriver.kind = "none"
  BY DEF NoDriver, Drivers, Places
<1>4. NewDriver(kind) \in Drivers /\ NewDriver(kind).kind = kind
  BY <1>2 DEF NewDriver, Entry, NoDriver, Drivers, Places
<1>5. /\ drv \in [Ids -> Drivers] /\ drv[1].kind = kind
      /\ \A i \in Ids \ {1} : drv[i].kind = "none"
  BY <1>1, <1>3, <1>4, IdsFinite
<1>6. Alive = {}
  BY <1>2, <1>5 DEF Alive, AllKinds
<1>7. active = 0 /\ Cardinality(Alive) = 0
  BY <1>6, FS_EmptySet DEF Init
<1> QED
  BY <1>2, <1>5, <1>7, NetAssumption DEF SlotInv

\* A step of a driver that neither begins nor ends it.
Goes(i) ==
  /\ drv' = [drv EXCEPT ![i] = drv'[i]]
  /\ drv'[i] \in Drivers /\ drv'[i].kind = drv[i].kind
  /\ drv'[i].at = "ended" <=> drv[i].at = "ended"

\* Such a step changes neither the clients that run nor their count.
LEMMA GoesOn ==
  ASSUME SlotInv, NEW i \in Ids, Goes(i), active' = active
  PROVE  SlotInv'
<1>1. drv' = [drv EXCEPT ![i] = drv'[i]] /\ drv \in [Ids -> Drivers]
  BY DEF Goes, SlotInv
<1>2. /\ drv' \in [Ids -> Drivers]
      /\ \A j \in Ids : /\ drv'[j].kind = drv[j].kind
                        /\ drv'[j].at = "ended" <=> drv[j].at = "ended"
  BY <1>1 DEF Goes
<1>3. Alive' = Alive
  BY <1>2 DEF Alive
<1> QED
  BY <1>2, <1>3, IdsFinite DEF SlotInv

\* A step that touches neither a driver nor the count.
LEMMA SlotsKept ==
  ASSUME SlotInv, UNCHANGED <<drv, active>>
  PROVE  SlotInv'
BY DEF SlotInv, Alive

\* The steps of spawn and of the two tasks, and what the peers do.
DriverStep(i) ==
  \/ QueryMtu(i) \/ Connected(i) \/ WaitOver(i) \/ Reconnect(i) \/ Listen(i)
  \/ StopListening(i) \/ RxFails(i) \/ RxStops(i) \/ Take(i) \/ Written(i) \/ TxStops(i)
  \/ WriteFails(i) \/ QueryHangs(i) \/ ConnectFails(i)
  \/ \E empty \in BOOLEAN : UdpReceiveEnds(i, empty)
  \/ PeerCloses(i) \/ PeerStalls(i)

\* None of them begins or ends a driver.
LEMMA DriverGoesOn ==
  ASSUME SlotInv, NEW i \in Ids, DriverStep(i)
  PROVE  SlotInv'
<1>s. drv \in [Ids -> Drivers] /\ drv[i] \in Drivers
  BY DEF SlotInv
<1>1. active' = active
  BY DEF DriverStep, QueryMtu, Connected, WaitOver, Reconnect, Listen, StopListening,
     RxFails, RxStops, Take, Written, TxStops, WriteFails, QueryHangs, ConnectFails,
     UdpReceiveEnds, PeerCloses, PeerStalls, RestUnchanged
<1>2. Goes(i)
  <2>1. CASE QueryMtu(i)
    BY <1>s, <2>1 DEF QueryMtu, Places, Set, Goes, Drivers
  <2>2. CASE Connected(i)
    BY <1>s, <2>2 DEF Connected, Session, Places, Set, Goes, Drivers
  <2>3. CASE WaitOver(i)
    BY <1>s, <2>3 DEF WaitOver, Places, Set, Goes, Drivers
  <2>4. CASE Reconnect(i)
    BY <1>s, <2>4 DEF Reconnect, TasksDone, Places, Set, Goes, Drivers
  <2>5. CASE Listen(i)
    BY <1>s, <2>5 DEF Listen, Places, Set, Goes, Drivers
  <2>6. CASE StopListening(i)
    BY <1>s, <2>6 DEF StopListening, Places, Set, Goes, Drivers
  <2>7. CASE QueryHangs(i)
    BY <1>s, <2>7 DEF QueryHangs, Places, Set, Goes, Drivers
  <2>8. CASE ConnectFails(i)
    BY <1>s, <2>8 DEF ConnectFails, Places, Set, Goes, Drivers
  <2>9. CASE RxFails(i)
    BY <1>s, <2>9 DEF RxFails, Set, Goes, Drivers
  <2>10. CASE RxStops(i)
    BY <1>s, <2>10 DEF RxStops, Set, Goes, Drivers
  <2>11. CASE PeerCloses(i)
    BY <1>s, <2>11 DEF PeerCloses, Set, Goes, Drivers
  <2>12. CASE PeerStalls(i)
    BY <1>s, <2>12 DEF PeerStalls, Set, Goes, Drivers
  <2>13. CASE Take(i)
    BY <1>s, <2>13 DEF Take, Set, Goes, Drivers
  <2>14. CASE Written(i)
    BY <1>s, <2>14 DEF Written, Set, Goes, Drivers
  <2>15. CASE TxStops(i)
    BY <1>s, <2>15 DEF TxStops, Set, Goes, Drivers
  <2>16. CASE WriteFails(i)
    BY <1>s, <2>16 DEF WriteFails, Set, Goes, Drivers
  <2>17. ASSUME NEW empty \in BOOLEAN, UdpReceiveEnds(i, empty)
        PROVE  Goes(i)
    BY <1>s, <2>17 DEF UdpReceiveEnds, Set, Goes, Drivers
  <2> QED
    BY <2>1, <2>2, <2>3, <2>4, <2>5, <2>6, <2>7, <2>8, <2>9, <2>10, <2>11, <2>12, <2>13,
       <2>14, <2>15, <2>16, <2>17 DEF DriverStep
<1> QED
  BY <1>1, <1>2, GoesOn

\* A driver that ends was running: its slot is the one given back.
LEMMA EndSlots ==
  ASSUME SlotInv, NEW i \in Ids, End(i), drv[i].at # "ended"
  PROVE  SlotInv'
<1> DEFINE d == [drv[i] EXCEPT !.at = "ended", !.conn = "none", !.rx = "off", !.tx = "off"]
<1>1. drv' = [drv EXCEPT ![i] = d] /\ drv \in [Ids -> Drivers] /\ drv[i] \in Drivers
  BY DEF End, Set, SlotInv
<1>2. d \in Drivers /\ d.kind = drv[i].kind /\ d.at = "ended"
  BY <1>1 DEF Drivers, Places
<1> HIDE DEF d
<1>3. /\ drv' \in [Ids -> Drivers] /\ drv'[i].at = "ended"
      /\ \A j \in Ids : drv'[j].kind = drv[j].kind /\ (j # i => drv'[j] = drv[j])
  BY <1>1, <1>2
<1>4. CASE drv[i].kind = "child"
  <2>1. i \in Alive /\ Alive' = Alive \ {i}
    BY <1>3, <1>4 DEF Alive
  <2>2. Cardinality(Alive') = Cardinality(Alive) - 1
    BY <2>1, IdsFinite, FS_RemoveElement
  <2>3. Cardinality(Alive) > 0
    BY <2>1, IdsFinite, FS_EmptySet
  <2>4. CASE drv[1].kind = "tcp_server"
    <3>1. active' = active - 1
      BY <1>4, <2>4 DEF End
    <3> QED
      BY <1>3, <2>2, <2>3, <2>4, <3>1, IdsFinite, NetAssumption DEF SlotInv
  <2>5. CASE drv[1].kind # "tcp_server"
    BY <1>3, <2>5, IdsFinite DEF SlotInv, End
  <2> QED
    BY <2>4, <2>5
<1>5. CASE drv[i].kind # "child"
  <2>1. Alive' = Alive /\ active' = active
    BY <1>3, <1>5 DEF Alive, End
  <2> QED
    BY <1>3, <2>1, IdsFinite DEF SlotInv
<1> QED
  BY <1>4, <1>5

\* A set of numbers that is not empty has a least one.
LEMMA Least ==
  ASSUME NEW T, T \subseteq Nat, T # {}
  PROVE  \E c \in T : \A o \in T : c <= o
<1>1. \E c \in T : \A o \in T : ~(<<o, c>> \in OpToRel(<, Nat))
  BY NatLessThanWellFounded, WFMin
<1>2. PICK c \in T : \A o \in T : ~(<<o, c>> \in OpToRel(<, Nat))
  BY <1>1
<1>3. \A o \in T : ~(o < c)
  BY <1>2 DEF OpToRel
<1> QED
  BY <1>3

\* A client is accepted on an interface that was unused.
LEMMA ChildIsNew ==
  ASSUME SlotInv, NEW i \in Ids, SpawnChild(i), drv[i].kind \in AllKinds
  PROVE  \E c \in Ids \ {1} : /\ drv[c].kind = "none"
                              /\ drv' = [drv EXCEPT ![c] = NewDriver("child")]
<1>1. Unspawned # {}
  <2> SUFFICES ASSUME Unspawned = {} PROVE FALSE
    OBVIOUS
  <2>1. Cardinality(Ids) <= MaxClients[drv[i].kind]
    BY DEF SpawnChild
  <2> QED
    BY <2>1, IdsFinite, NetAssumption
<1>2. Unspawned \subseteq Ids /\ Unspawned \subseteq Nat
  BY IdsFinite DEF Unspawned
<1> DEFINE c == CHOOSE c \in Unspawned : \A o \in Unspawned : c <= o
<1>3. c \in Unspawned
  BY <1>1, <1>2, Least
<1>4. c \in Ids /\ drv[c].kind = "none" /\ c # 1
  BY <1>3 DEF Unspawned, SlotInv, AllKinds
<1>5. drv' = [drv EXCEPT ![c] = NewDriver("child")]
  BY DEF SpawnChild
<1> QED
  BY <1>4, <1>5

\* A server is the first interface.
LEMMA AcceptSlots ==
  ASSUME SlotInv, NEW i \in Ids, TcpAccept(i) \/ BackboneAccept(i)
  PROVE  SlotInv'
<1>1. SpawnChild(i) /\ drv[i].kind \in Servers
  BY DEF TcpAccept, BackboneAccept, Servers
<1>2. i = 1 /\ drv[i].kind \in AllKinds
  BY <1>1 DEF Servers, SlotInv, AllKinds
<1>3. PICK c \in Ids \ {1} : /\ drv[c].kind = "none"
                             /\ drv' = [drv EXCEPT ![c] = NewDriver("child")]
  BY <1>1, <1>2, ChildIsNew
<1>4. /\ NewDriver("child") \in Drivers /\ NewDriver("child").kind = "child"
      /\ NewDriver("child").at = "connect"
  BY DEF NewDriver, Entry, NoDriver, Datagram, Servers, Drivers, Places, AllKinds
<1>5. /\ drv' \in [Ids -> Drivers] /\ drv'[1] = drv[1]
      /\ drv'[c].kind = "child" /\ drv'[c].at = "connect"
      /\ \A j \in Ids \ {c} : drv'[j] = drv[j]
  BY <1>3, <1>4, IdsFinite DEF SlotInv
<1>6. c \notin Alive /\ Alive' = Alive \cup {c}
  BY <1>3, <1>5 DEF Alive
<1>7. Cardinality(Alive') = Cardinality(Alive) + 1
  BY <1>6, IdsFinite, FS_AddElement
<1>8. \A j \in Ids \ {1} : drv'[j].kind \in {"none", "child"}
  BY <1>5 DEF SlotInv
<1>9. CASE TcpAccept(i)
  <2>1. active' = active + 1 /\ active < max_connections
    BY <1>9 DEF TcpAccept, SlotFree
  <2> QED
    BY <1>2, <1>5, <1>7, <1>8, <2>1, NetAssumption DEF SlotInv
<1>10. CASE BackboneAccept(i)
  <2>1. active' = active /\ drv[1].kind = "backbone_server"
    BY <1>2, <1>10 DEF BackboneAccept
  <2> QED
    BY <1>5, <1>8, <2>1 DEF SlotInv
<1> QED
  BY <1>9, <1>10

\* Every step of the specification.
LEMMA NextSlots == SlotInv /\ [Next]_vars => SlotInv'
<1> SUFFICES ASSUME SlotInv, [Next]_vars PROVE SlotInv'
  OBVIOUS
<1>1. ASSUME NEW i \in Ids, EndCancelled(i) PROVE SlotInv'
  BY <1>1, EndSlots DEF EndCancelled
<1>2. ASSUME NEW i \in Ids, ChildEnds(i) PROVE SlotInv'
  BY <1>2, EndSlots DEF ChildEnds, TasksDone
<1>3. ASSUME NEW i \in Ids, WaitDiscards(i) \/ Receive(i) \/ Send(i) \/ FallsIdle(i)
      PROVE  SlotInv'
  BY <1>3, SlotsKept DEF WaitDiscards, Receive, Send, FallsIdle
<1>4. CASE \/ CtlStep \/ CtlFails \/ CtlStops \/ TncReconfigured \/ TncRestarts
           \/ handle_cleanup \/ Shutdown \/ UNCHANGED vars
  BY <1>4, SlotsKept DEF CtlStep, CtlConnect, CtlRetry, CtlMessage, CtlFails, CtlStops,
     TncReconfigured, TncRestarts, CtlSet, handle_cleanup, Shutdown, vars
<1>5. ASSUME NEW i \in Ids,
             \/ SpawnStep(i) \/ RxStep(i) \/ TxStep(i) \/ TxStops(i) \/ WriteFails(i)
             \/ QueryHangs(i) \/ ConnectFails(i)
             \/ \E empty \in BOOLEAN : UdpReceiveEnds(i, empty)
             \/ PeerCloses(i) \/ PeerStalls(i)
      PROVE  SlotInv'
  BY <1>1, <1>2, <1>5, DriverGoesOn DEF DriverStep, SpawnStep, RxStep, TxStep
<1> QED
  BY <1>3, <1>4, <1>5, AcceptSlots DEF Next

\* TcpServer serves at most max_connections clients and its count is exact,
\* however many connect and in whatever way their drivers end.
THEOREM SlotsAreExact == Spec => []SlotsExact
<1>1. SlotInv => SlotsExact
  BY DEF SlotInv, SlotsExact, Alive
<1> QED
  BY <1>1, InitSlots, NextSlots, PTL DEF Spec

-----------------------------------------------------------------------------
(* LoRa: what the frames and the chip are *)

\* The chipset drivers there are.
ChipsetNames == {"sx1262", "sx1276", "lr1121"}

\* Every frame of every packet.
AllFrames == UNION {Range(frames_for_tx(p)) : p \in Packets}

\* What a buffer of the chip may hold.
Buffers == AllFrames \cup {NoFrame}

\* Every setting some driver writes.
SettingNames == Settings("sx1262") \cup Settings("sx1276") \cup Settings("lr1121")

\* The states of a chip.
Chips ==
  [mode : {"sleep", "standby", "rx", "tx"}, irq : SUBSET Irqs, rx : Buffers, tx : Buffers,
   cfg : SUBSET SettingNames, tx_active : BOOLEAN, sent : Seq(Buffers)]

\* The transmit task's part: what is queued or being sent is a packet taken.
SendType ==
  /\ taken \in Nat /\ submitted \in Nat /\ taken <= submitted /\ submitted <= Own
  /\ queued \in Seq(Packets)
  /\ frames \in Seq(AllFrames)

\* The peer's next frame is one of its frames, while it has any.
NextType ==
  /\ next.packet = <<"peer", next.packet[2]>> /\ next.packet[2] \in Nat \ {0}
  /\ next.half \in 0..2
  /\ next.packet[2] <= Peer => next \in AllFrames
  /\ next.half = 1 => next.packet \in Split

\* A session holds the chip, or a task of an old one still does.
InUse == phase \in {"run", "closing"} \/ tasks # {}

\* The transmit task is there as long as a session runs or it has frames.
TasksType ==
  /\ tasks \subseteq {"poll", "tx"}
  /\ phase = "run" \/ frames # <<>> => "tx" \in tasks

\* A chip on air is configured, and in use it is configured anyway.
ServiceInv ==
  /\ chipset \in ChipsetNames
  /\ radio \in Chips
  /\ SendType
  /\ TasksType
  /\ NextType
  /\ radio.mode \in {"rx", "tx"} => Settings(chipset) \subseteq radio.cfg
  /\ InUse => Settings(chipset) \subseteq radio.cfg

\* Where the frames of p are in s.
PlacesOf(s, p) == {i \in DOMAIN s : s[i].packet = p}

\* Exactly the frames of p are in s, in order.
Whole(s, p) ==
  /\ {s[i] : i \in PlacesOf(s, p)} = Range(frames_for_tx(p))
  /\ \A i, j \in PlacesOf(s, p) : i < j => s[i].half < s[j].half

\* Only the first half of p is in s.
HalfSent(s, p) ==
  p \in Split /\ \E i \in DOMAIN s : PlacesOf(s, p) = {i} /\ s[i] = Frame(p, 1)

\* What is left of the packet being sent is what is not on air yet.
Sending ==
  LET p == <<"own", taken>> IN
  /\ queued # <<>> => queued = <<p>> /\ frames = <<>> /\ PlacesOf(radio.sent, p) = {}
  /\ frames # <<>> => \/ frames = frames_for_tx(p) /\ PlacesOf(radio.sent, p) = {}
                      \/ frames = <<Frame(p, 2)>> /\ (p \in unsure \/ HalfSent(radio.sent, p))

\* The transmit task has a packet.
Busy == queued # <<>> \/ frames # <<>>

\* A frame the chip was left sending is of a packet given up.
LeftOnAir ==
  radio.mode = "tx" =>
    /\ radio.tx \in AllFrames
    /\ radio.tx.packet[2] <= taken
    /\ radio.tx.packet \notin acked
    /\ Busy => radio.tx.packet[2] < taken

\* A packet counted is not the one being sent, and is whole on air unless it
\* was sent into an unfinished transmission.
SentInv ==
  chipset = "sx1262" =>
    /\ Sending
    /\ LeftOnAir
    /\ \A i \in DOMAIN radio.sent : radio.sent[i] \in AllFrames /\ radio.sent[i].packet[2] <= taken
    /\ \A p \in acked : /\ p \in Packets /\ p[2] <= taken
                        /\ p \notin unsure => Whole(radio.sent, p)
                        /\ Busy => p[2] < taken

-----------------------------------------------------------------------------
(* LoRa: what goes up *)

\* Halves of two packets that meet in the reassembler have different nibbles;
\* the senders draw them at random.
HalvesDiffer ==
  LET f == Head(rx_queue) IN
  pending # NoFrame /\ rx_queue # <<>> /\ f.half # 0 /\ f.packet # pending.packet =>
    Nibble[f.packet] # Nibble[pending.packet]

\* Of one sender's frames, f was sent before g.
Earlier(f, g) ==
  f.packet[1] = g.packet[1] =>
    \/ f.packet[2] < g.packet[2]
    \/ f.packet[2] = g.packet[2] /\ f.half < g.half

\* A frame received was sent: by the peer before its next frame, or by us
\* before what we still send.
SentBefore(f, peers, n, packets, ours) ==
  /\ f \in AllFrames
  /\ Earlier(f, peers)
  /\ f.packet[1] = "own" => f.packet[2] <= n
  /\ \A i \in DOMAIN ours : Earlier(f, ours[i])
  /\ f.packet[1] = "own" /\ packets # <<>> => f.packet[2] < n

\* With the senders where they are now.
WasSent(f) == SentBefore(f, next, taken, queued, frames)

\* A frame is in the chip's buffer for the next poll.
Latched == "rx_done" \in radio.irq

\* What we still send is one packet's, in order.
ToSend ==
  /\ queued # <<>> => queued = <<<<"own", taken>>>> /\ frames = <<>>
  /\ \A i \in DOMAIN frames : frames[i].packet = <<"own", taken>>
  /\ \A i, j \in DOMAIN frames : i < j => frames[i].half < frames[j].half

\* What was received and did not go up yet is in the order it was sent.
QueueInOrder ==
  /\ rx_queue \in Seq(AllFrames)
  /\ \A i \in DOMAIN rx_queue : WasSent(rx_queue[i])
  /\ \A i, j \in DOMAIN rx_queue : i < j => Earlier(rx_queue[i], rx_queue[j])

\* The frame in the chip comes after those in the queue.
LatchedLast ==
  Latched => /\ WasSent(radio.rx)
             /\ \A i \in DOMAIN rx_queue : Earlier(rx_queue[i], radio.rx)

\* The half that the reassembler holds comes before them.
HeldFirst ==
  pending # NoFrame =>
    /\ WasSent(pending) /\ pending.half # 0
    /\ \A i \in DOMAIN rx_queue : Earlier(pending, rx_queue[i])
    /\ Latched => Earlier(pending, radio.rx)

\* The peer's packet n came before the frame f.
Below(n, f) == f.packet[1] = "peer" => n < f.packet[2]

\* The peer's packet n came before all that did not go up yet.
Passed(n) ==
  /\ Below(n, next)
  /\ \A k \in DOMAIN rx_queue : Below(n, rx_queue[k])
  /\ Latched => Below(n, radio.rx)
  /\ pending # NoFrame => Below(n, pending)

\* So did every packet that went up.
Behind ==
  \A i \in DOMAIN delivered :
    delivered[i][1].packet[1] = "peer" => Passed(delivered[i][1].packet[2])

\* What went up are packets, in order and behind what is waiting, which is in
\* order too.
UpInv ==
  /\ ToSend
  /\ QueueInOrder /\ LatchedLast /\ HeldFirst
  /\ delivered \in Seq(Seq(AllFrames)) /\ DeliveredWhole
  /\ Behind

-----------------------------------------------------------------------------
(* LoRa: what the calls of the drivers may do to the chip *)

\* The same frames, and no new interrupt.
SameFrames(c, d) ==
  /\ d \in Chips
  /\ d.rx = c.rx /\ d.tx = c.tx /\ d.sent = c.sent /\ d.irq \subseteq c.irq

\* Settings may be lost, but not on air.
Quiet(c, d) ==
  /\ SameFrames(c, d)
  /\ d.mode \in {c.mode, "standby", "sleep"}
  /\ d.mode \in {"rx", "tx"} => c.cfg \subseteq d.cfg

\* No setting is lost; the chip may go on air to listen.
Kept(c, d) ==
  /\ SameFrames(c, d)
  /\ d.mode \in {c.mode, "standby", "sleep", "rx"}
  /\ c.cfg \subseteq d.cfg

\* A call that returns nothing and does neither.
Calm(c, r) == r.got = <<>> /\ Quiet(c, r.chip) /\ Kept(c, r.chip)

\* A call that ends with d, or breaks off before or after it had its effect.
Leads(r, c, d) == r.got = <<>> /\ r.chip \in {c, d} /\ (r.ok => r.chip = d)

\* The steps a driver takes with the chip.
LEMMA StepsStay ==
  ASSUME NEW c \in Chips
  PROVE  Quiet(c, c) /\ Kept(c, c)
BY DEF Quiet, Kept, SameFrames, Chips

\* Standby or sleep.
LEMMA StepsMode ==
  ASSUME NEW c \in Chips, NEW m \in {"standby", "sleep"}
  PROVE  /\ Quiet(c, SetMode(c, m)) /\ Kept(c, SetMode(c, m))
         /\ SetMode(c, m).mode = m /\ SetMode(c, m).cfg = c.cfg
BY DEF Quiet, Kept, SameFrames, Chips, SetMode

\* Listening.
LEMMA StepsReceive ==
  ASSUME NEW c \in Chips
  PROVE  Kept(c, SetMode(c, "rx")) /\ SetMode(c, "rx").mode = "rx"
BY DEF Kept, SameFrames, Chips, SetMode

\* The driver's flag.
LEMMA StepsActive ==
  ASSUME NEW c \in Chips
  PROVE  /\ Quiet(c, TxActive(c)) /\ Kept(c, TxActive(c)) /\ TxActive(c).mode = c.mode
         /\ Quiet(c, TxIdle(c)) /\ Kept(c, TxIdle(c)) /\ TxIdle(c).mode = c.mode
BY DEF Quiet, Kept, SameFrames, Chips, TxActive, TxIdle

\* Settings written.
LEMMA StepsConfigure ==
  ASSUME NEW c \in Chips, NEW S \in SUBSET SettingNames
  PROVE  /\ Quiet(c, Configure(c, S)) /\ Kept(c, Configure(c, S))
         /\ Configure(c, S).mode = c.mode /\ Configure(c, S).cfg = c.cfg \cup S
BY DEF Quiet, Kept, SameFrames, Chips, Configure

\* Interrupts cleared.
LEMMA StepsClear ==
  ASSUME NEW c \in Chips, NEW S
  PROVE  /\ Quiet(c, ClearIrq(c, S)) /\ Kept(c, ClearIrq(c, S))
         /\ ClearIrq(c, S).irq = c.irq \ S
         /\ ClearIrq(c, S).mode = c.mode /\ ClearIrq(c, S).cfg = c.cfg
BY DEF Quiet, Kept, SameFrames, Chips, ClearIrq

\* A cold start.
LEMMA StepsCold ==
  ASSUME NEW c \in Chips
  PROVE  Quiet(c, ColdStart(c))
BY DEF Quiet, SameFrames, Chips, ColdStart

\* The three relations compose.
LEMMA QuietTwice ==
  ASSUME NEW c, NEW d, NEW e, Quiet(c, d), Quiet(d, e)
  PROVE  Quiet(c, e)
BY DEF Quiet, SameFrames

LEMMA KeptTwice ==
  ASSUME NEW c, NEW d, NEW e, Kept(c, d), Kept(d, e)
  PROVE  Kept(c, e)
BY DEF Kept, SameFrames

\* A chip stays a chip.
LEMMA StaysChip ==
  ASSUME NEW c, NEW d, Quiet(c, d) \/ Kept(c, d)
  PROVE  d \in Chips
BY DEF Quiet, Kept, SameFrames

LEMMA CalmTwice ==
  ASSUME NEW c, NEW s, NEW r, Calm(c, s), Calm(s.chip, r)
  PROVE  Calm(c, r)
BY QuietTwice, KeptTwice DEF Calm

\* A command is as calm as its effect.
LEMMA LeadsCalm ==
  ASSUME NEW c \in Chips, NEW d, NEW r, Leads(r, c, d), Quiet(c, d), Kept(c, d)
  PROVE  Calm(c, r)
BY StepsStay DEF Leads, Calm

LEMMA LeadsKept ==
  ASSUME NEW c \in Chips, NEW d, NEW r, Leads(r, c, d), Kept(c, d)
  PROVE  Kept(c, r.chip) /\ r.got = <<>>
BY StepsStay DEF Leads

LEMMA LeadsQuiet ==
  ASSUME NEW c \in Chips, NEW d, NEW r, Leads(r, c, d), Quiet(c, d)
  PROVE  Quiet(c, r.chip) /\ r.got = <<>>
BY StepsStay DEF Leads

\* What init writes.
LEMMA SettingsNamed ==
  /\ Len(sx1262!Settings) = 13 /\ Len(sx1276!Settings) = 9 /\ Len(lr1121!Settings) = 13
  /\ Settings("sx1262") = {sx1262!Settings[i] : i \in 1..13}
  /\ Settings("sx1276") = {sx1276!Settings[i] : i \in 1..9}
  /\ Settings("lr1121") = {lr1121!Settings[i] : i \in 1..13}
  /\ "packet_params" \in SettingNames
<1>1. Len(sx1262!Settings) = 13 /\ DOMAIN sx1262!Settings = 1..13
  BY DEF sx1262!Settings
<1>2. Len(sx1276!Settings) = 9 /\ DOMAIN sx1276!Settings = 1..9
  BY DEF sx1276!Settings
<1>3. Len(lr1121!Settings) = 13 /\ DOMAIN lr1121!Settings = 1..13
  BY DEF lr1121!Settings
<1>4. /\ Settings("sx1262") = {sx1262!Settings[i] : i \in 1..13}
      /\ Settings("sx1276") = {sx1276!Settings[i] : i \in 1..9}
      /\ Settings("lr1121") = {lr1121!Settings[i] : i \in 1..13}
  BY <1>1, <1>2, <1>3 DEF Settings, Range
<1>5. sx1262!Settings[13] = "packet_params"
  BY DEF sx1262!Settings
<1>6. "packet_params" \in Settings("sx1262")
  BY <1>4, <1>5
<1> QED
  BY <1>1, <1>2, <1>3, <1>4, <1>6 DEF SettingNames

\* What a transmission of f may do to the chip, as far as reception goes.
Moved(c, f, d) ==
  /\ d \in Chips
  /\ d.rx \in {c.rx, f}
  /\ "rx_done" \in d.irq => "rx_done" \in c.irq
  /\ c.cfg \subseteq d.cfg

\* A call that listens again where it can and gives out the frame it read.
Polled(c, r) ==
  /\ Kept(c, r.chip)
  /\ \/ r.got = <<>>
     \/ r.got = <<c.rx>> /\ "rx_done" \in c.irq /\ "rx_done" \notin r.chip.irq

\* A transmission, and then a call that keeps.
LEMMA MovedKept ==
  ASSUME NEW c, NEW f, NEW d, NEW e, Moved(c, f, d), Kept(d, e)
  PROVE  Moved(c, f, e)
BY DEF Moved, Kept, SameFrames

\* A call that keeps is no more than a transmission.
LEMMA KeptMoved ==
  ASSUME NEW c, NEW f, NEW d, Kept(c, d)
  PROVE  Moved(c, f, d)
BY DEF Moved, Kept, SameFrames

\* The frame on air ends.
LEMMA StepsTxDone ==
  ASSUME NEW c \in Chips
  PROVE  /\ TxDone(c) \in Chips
         /\ TxDone(c).mode = "standby" /\ TxDone(c).sent = Append(c.sent, c.tx)
         /\ TxDone(c).rx = c.rx /\ TxDone(c).tx = c.tx /\ TxDone(c).cfg = c.cfg
         /\ TxDone(c).irq = c.irq \cup {"tx_done"}
<1>1. Append(c.sent, c.tx) \in Seq(Buffers)
  BY DEF Chips
<1>2. c.irq \cup {"tx_done"} \in SUBSET Irqs
  BY DEF Chips, Irqs
<1> QED
  BY <1>1, <1>2 DEF Chips, TxDone

\* The shared buffer is written.
LEMMA StepsFifo ==
  ASSUME NEW c \in Chips, NEW f \in AllFrames
  PROVE  /\ WriteFifo(c, f) \in Chips
         /\ WriteFifo(c, f).mode = c.mode /\ WriteFifo(c, f).sent = c.sent
         /\ WriteFifo(c, f).rx = f /\ WriteFifo(c, f).tx = f /\ WriteFifo(c, f).cfg = c.cfg
         /\ WriteFifo(c, f).irq = c.irq
BY DEF Chips, WriteFifo, Buffers

\* Sending.
LEMMA StepsSend ==
  ASSUME NEW c \in Chips
  PROVE  /\ SetMode(c, "tx") \in Chips
         /\ SetMode(c, "tx").mode = "tx" /\ SetMode(c, "tx").sent = c.sent
         /\ SetMode(c, "tx").rx = c.rx /\ SetMode(c, "tx").tx = c.tx
         /\ SetMode(c, "tx").cfg = c.cfg /\ SetMode(c, "tx").irq = c.irq
BY DEF Chips, SetMode

-----------------------------------------------------------------------------
(* LoRa: the SX1262 *)

\* A command has its effect or none.
LEMMA Sx1262Commands ==
  ASSUME NEW c, NEW d
  PROVE  /\ \A r \in sx1262!write_command(c, d) : Leads(r, c, d)
         /\ \A r \in sx1262!read_command(c) : Leads(r, c, c)
BY DEF Leads, sx1262!write_command, sx1262!read_command, sx1262!Then, sx1262!wait_ready, sx1262!xfer,
       sx1262!Ok, sx1262!Err

\* What only reads leaves the chip as it was.
LEMMA Sx1262Reads ==
  ASSUME NEW c \in Chips, NEW r,
         r \in sx1262!read_command(c)
         \/ r \in sx1262!ping(c)
         \/ r \in sx1262!fix_errata(c)
         \/ r \in sx1262!validate_communication(c)
         \/ r \in sx1262!read_buffer(c)
  PROVE  r.chip = c /\ r.got = <<>> /\ Calm(c, r)
<1>1. Leads(r, c, c)
  BY Sx1262Commands DEF sx1262!ping, sx1262!fix_errata, sx1262!validate_communication, sx1262!read_buffer
<1>2. r.chip = c /\ r.got = <<>>
  BY <1>1 DEF Leads
<1>3. Quiet(c, c) /\ Kept(c, c)
  BY StepsStay
<1> QED
  BY <1>2, <1>3 DEF Calm

\* Writing the packet parameters again.
LEMMA Sx1262Set ==
  ASSUME NEW c \in Chips, NEW r, r \in sx1262!Set(c, "packet_params")
  PROVE  Calm(c, r)
<1>1. Leads(r, c, Configure(c, {"packet_params"}))
  BY Sx1262Commands DEF sx1262!Set, sx1262!Configure, Configure
<1>2. {"packet_params"} \in SUBSET SettingNames
  BY SettingsNamed
<1> QED
  BY <1>1, <1>2, StepsConfigure, LeadsCalm

\* Leaving the air.
LEMMA Sx1262Mode ==
  ASSUME NEW c \in Chips, NEW m \in {"standby", "sleep"}, NEW r,
         r \in sx1262!write_command(c, sx1262!SetMode(c, m))
  PROVE  Calm(c, r) /\ (r.ok => r.chip.mode = m /\ r.chip.cfg = c.cfg)
<1>1. Leads(r, c, SetMode(c, m))
  BY Sx1262Commands DEF sx1262!SetMode, SetMode
<1> QED
  BY <1>1, StepsMode, LeadsCalm DEF Leads

\* Clearing interrupts.
LEMMA Sx1262Clear ==
  ASSUME NEW c \in Chips, NEW S, NEW r, r \in sx1262!clear_irq_status(c, S)
  PROVE  Calm(c, r) /\ (r.ok => r.chip = ClearIrq(c, S))
<1>1. Leads(r, c, ClearIrq(c, S))
  BY Sx1262Commands DEF sx1262!clear_irq_status, sx1262!ClearIrq, ClearIrq
<1> QED
  BY <1>1, StepsClear, LeadsCalm DEF Leads

\* The command that starts reception.
LEMMA Sx1262Receives ==
  ASSUME NEW c \in Chips, NEW r, r \in sx1262!write_command(c, sx1262!SetMode(c, "rx"))
  PROVE  Kept(c, r.chip) /\ r.got = <<>> /\ (r.ok => r.chip.mode = "rx")
<1>1. Leads(r, c, SetMode(c, "rx"))
  BY Sx1262Commands DEF sx1262!SetMode, SetMode
<1> QED
  BY <1>1, StepsReceive, LeadsKept DEF Leads

\* start_receive: settings are kept, and success means the chip listens.
LEMMA Sx1262Receive ==
  ASSUME NEW c \in Chips, NEW r, r \in sx1262!start_receive(c)
  PROVE  Kept(c, r.chip) /\ r.got = <<>> /\ (r.ok => r.chip.mode = "rx")
<1>1. PICK s : /\ s \in sx1262!Then(sx1262!Set(c, "packet_params"), sx1262!fix_errata)
               /\ \/ ~s.ok /\ r = s
                  \/ s.ok /\ r \in sx1262!Then(
                                 sx1262!write_command(s.chip, sx1262!SetMode(s.chip, "rx")),
                                 LAMBDA e : {sx1262!Ok(sx1262!TxIdle(e))})
  BY DEF sx1262!start_receive, sx1262!Then
<1>2. PICK t : /\ t \in sx1262!Set(c, "packet_params")
               /\ (~t.ok /\ s = t) \/ (t.ok /\ s \in sx1262!fix_errata(t.chip))
  BY <1>1 DEF sx1262!Then
<1>3. Calm(c, t)
  BY <1>2, Sx1262Set
<1>4. Calm(c, s) /\ s.chip \in Chips
  BY <1>2, <1>3, Sx1262Reads, StaysChip DEF Calm
<1>5. CASE s.ok
  <2>1. PICK u : /\ u \in sx1262!write_command(s.chip, sx1262!SetMode(s.chip, "rx"))
                 /\ (~u.ok /\ r = u) \/ (u.ok /\ r = sx1262!Ok(sx1262!TxIdle(u.chip)))
    BY <1>1, <1>5 DEF sx1262!Then
  <2>2. Kept(s.chip, u.chip) /\ u.got = <<>> /\ (u.ok => u.chip.mode = "rx") /\ u.chip \in Chips
    BY <2>1, <1>4, Sx1262Receives, StaysChip
  <2>3. CASE ~u.ok
    BY <2>1, <2>2, <2>3, <1>4, KeptTwice DEF Calm
  <2>4. CASE u.ok
    <3>1. r.ok /\ r.chip = TxIdle(u.chip) /\ r.got = <<>>
      BY <2>1, <2>4 DEF sx1262!Ok, sx1262!TxIdle, TxIdle
    <3>2. Kept(u.chip, r.chip) /\ r.chip.mode = "rx"
      BY <3>1, <2>2, <2>4, StepsActive
    <3> QED
      BY <3>1, <3>2, <2>2, <1>4, KeptTwice DEF Calm
  <2> QED
    BY <2>3, <2>4
<1>6. CASE ~s.ok
  <2>1. r = s
    BY <1>1, <1>6 DEF sx1262!Then
  <2> QED
    BY <2>1, <1>4, <1>6 DEF Calm
<1> QED
  BY <1>5, <1>6

\* The settings in a row: success means all of them.
LEMMA Sx1262SetAll ==
  ASSUME NEW c \in Chips, NEW first \in 1..13, NEW last \in 1..13, first <= last,
         NEW r, r \in sx1262!SetAll(c, first, last)
  PROVE  /\ Calm(c, r)
         /\ r.ok => r.chip.cfg = c.cfg \cup {sx1262!Settings[i] : i \in first..last}
<1>0. \A S : sx1262!Configure(c, S) = Configure(c, S)
  BY DEF sx1262!Configure, Configure
<1>1. PICK n : /\ n \in (first - 1)..last
               /\ r.chip = Configure(c, {sx1262!Settings[i] : i \in first..n})
               /\ r.got = <<>> /\ (r.ok => n = last)
  <2>1. last \in (first - 1)..last
    OBVIOUS
  <2>2. \/ r = sx1262!Ok(sx1262!Configure(c, {sx1262!Settings[i] : i \in first..last}))
        \/ \E n \in (first - 1)..last :
             r = sx1262!Err(sx1262!Configure(c, {sx1262!Settings[i] : i \in first..n}))
    BY DEF sx1262!SetAll
  <2> DEFINE Upto(n) == {sx1262!Settings[i] : i \in first..n}
  <2> HIDE DEF Upto
  <2>3. CASE r = sx1262!Ok(sx1262!Configure(c, Upto(last)))
    <3>1. r.chip = Configure(c, Upto(last)) /\ r.got = <<>>
      BY <2>3, <1>0 DEF sx1262!Ok
    <3> QED
      BY <3>1, <2>1 DEF Upto
  <2>4. ASSUME NEW n \in (first - 1)..last, r = sx1262!Err(sx1262!Configure(c, Upto(n)))
        PROVE  r.chip = Configure(c, Upto(n)) /\ r.got = <<>> /\ ~r.ok
    BY <2>4, <1>0 DEF sx1262!Err
  <2> QED
    BY <2>2, <2>3, <2>4 DEF Upto
<1>2. {sx1262!Settings[i] : i \in first..n} \in SUBSET SettingNames
  BY <1>1, SettingsNamed DEF SettingNames
<1> QED
  BY <1>1, <1>2, StepsConfigure DEF Calm

\* A sleep without retention loses settings off air.
LEMMA Sx1262Cold ==
  ASSUME NEW c \in Chips, NEW r, r \in sx1262!software_cold_start(c)
  PROVE  Quiet(c, r.chip) /\ r.got = <<>>
<1>1. PICK s : /\ s \in sx1262!write_command(c, sx1262!ColdStart(c))
               /\ (~s.ok /\ r = s) \/ (s.ok /\ r \in sx1262!read_command(s.chip))
  BY DEF sx1262!software_cold_start, sx1262!Then
<1>2. Leads(s, c, ColdStart(c))
  BY <1>1, Sx1262Commands DEF sx1262!ColdStart, ColdStart
<1>3. Quiet(c, s.chip) /\ s.got = <<>> /\ s.chip \in Chips
  BY <1>2, StepsCold, LeadsQuiet, StaysChip
<1> QED
  BY <1>1, <1>3, Sx1262Reads

\* The reset line loses settings off air.
LEMMA Sx1262Reset ==
  ASSUME NEW c \in Chips, NEW r, r \in sx1262!hardware_reset(c)
  PROVE  Quiet(c, r.chip) /\ r.got = <<>>
<1>1. r.chip \in {c, ColdStart(c)} /\ r.got = <<>>
  BY DEF sx1262!hardware_reset, sx1262!ResetLine, sx1262!Ok, sx1262!Err, sx1262!ColdStart, ColdStart
<1> QED
  BY <1>1, StepsStay, StepsCold

\* init: settings may be lost only off air, and success means all are written.
LEMMA Sx1262Init ==
  ASSUME NEW c \in Chips, NEW r, r \in sx1262!init(c)
  PROVE  Quiet(c, r.chip) /\ r.got = <<>> /\ (r.ok => Settings("sx1262") \subseteq r.chip.cfg)
<1> DEFINE reset == sx1262!hardware_reset(sx1262!TxIdle(c))
           cold  == sx1262!Then(reset, sx1262!software_cold_start)
           awake == sx1262!Then(cold, sx1262!ping)
           base  == sx1262!Then(awake, LAMBDA d : sx1262!SetAll(d, 1, 6))
           ready == sx1262!Then(base, sx1262!enter_standby_xosc)
           tuned == sx1262!Then(ready, LAMBDA d : sx1262!SetAll(d, 7, Len(sx1262!Settings)))
<1>1. \A s : s \in cold => \E t : /\ t \in reset
                                  /\ (~t.ok /\ s = t) \/ (t.ok /\ s \in sx1262!software_cold_start(t.chip))
  BY DEF sx1262!Then
<1>2. \A s : s \in awake => \E t : /\ t \in cold
                                   /\ (~t.ok /\ s = t) \/ (t.ok /\ s \in sx1262!ping(t.chip))
  <2> HIDE DEF cold
  <2> QED BY DEF sx1262!Then
<1>3. \A s : s \in base => \E t : /\ t \in awake
                                  /\ (~t.ok /\ s = t) \/ (t.ok /\ s \in sx1262!SetAll(t.chip, 1, 6))
  <2> HIDE DEF awake
  <2> QED BY DEF sx1262!Then
<1>4. \A s : s \in ready => \E t : /\ t \in base
                                   /\ (~t.ok /\ s = t) \/ (t.ok /\ s \in sx1262!enter_standby_xosc(t.chip))
  <2> HIDE DEF base
  <2> QED BY DEF sx1262!Then
<1>5. \A s : s \in tuned => \E t : /\ t \in ready
                                   /\ \/ ~t.ok /\ s = t
                                      \/ t.ok /\ s \in sx1262!SetAll(t.chip, 7, Len(sx1262!Settings))
  <2> HIDE DEF ready
  <2> QED BY DEF sx1262!Then
<1>6. PICK s7 : s7 \in tuned /\ \/ ~s7.ok /\ r = s7
                                \/ s7.ok /\ r \in sx1262!validate_communication(s7.chip)
  <2>1. r \in sx1262!Then(tuned, sx1262!validate_communication)
    BY DEF sx1262!init
  <2> HIDE DEF tuned
  <2> QED BY <2>1 DEF sx1262!Then
<1> HIDE DEF cold, awake, base, ready, tuned
<1>7. Len(sx1262!Settings) = 13
  BY SettingsNamed
<1>8. Quiet(c, TxIdle(c)) /\ TxIdle(c) \in Chips
  BY StepsActive, StaysChip
<1>9. ASSUME NEW s, s \in reset PROVE Quiet(c, s.chip) /\ s.got = <<>>
  <2>1. sx1262!TxIdle(c) = TxIdle(c)
    BY DEF sx1262!TxIdle, TxIdle
  <2> QED
    BY <1>8, <1>9, <2>1, Sx1262Reset, QuietTwice
<1>10. ASSUME NEW s, s \in cold PROVE Quiet(c, s.chip) /\ s.got = <<>>
  BY <1>1, <1>9, <1>10, Sx1262Cold, QuietTwice, StaysChip
<1>11. ASSUME NEW s, s \in awake PROVE Quiet(c, s.chip) /\ s.got = <<>>
  BY <1>2, <1>10, <1>11, Sx1262Reads, StaysChip
<1>12. ASSUME NEW s, s \in base
       PROVE  /\ Quiet(c, s.chip) /\ s.got = <<>>
              /\ s.ok => {sx1262!Settings[i] : i \in 1..6} \subseteq s.chip.cfg
  <2>1. PICK t : /\ t \in awake
                 /\ (~t.ok /\ s = t) \/ (t.ok /\ s \in sx1262!SetAll(t.chip, 1, 6))
    BY <1>3, <1>12
  <2>2. Quiet(c, t.chip) /\ t.got = <<>> /\ t.chip \in Chips
    BY <2>1, <1>11, StaysChip
  <2>3. CASE s \in sx1262!SetAll(t.chip, 1, 6)
    <3>1. Calm(t.chip, s) /\ (s.ok => s.chip.cfg = t.chip.cfg \cup {sx1262!Settings[i] : i \in 1..6})
      BY <2>2, <2>3, Sx1262SetAll
    <3> QED
      BY <3>1, <2>2, QuietTwice DEF Calm
  <2> QED
    BY <2>1, <2>2, <2>3
<1>13. ASSUME NEW s, s \in ready
       PROVE  /\ Quiet(c, s.chip) /\ s.got = <<>>
              /\ s.ok => {sx1262!Settings[i] : i \in 1..6} \subseteq s.chip.cfg
  <2>1. PICK t : /\ t \in base
                 /\ (~t.ok /\ s = t) \/ (t.ok /\ s \in sx1262!enter_standby_xosc(t.chip))
    BY <1>4, <1>13
  <2>2. /\ Quiet(c, t.chip) /\ t.got = <<>> /\ t.chip \in Chips
        /\ t.ok => {sx1262!Settings[i] : i \in 1..6} \subseteq t.chip.cfg
    BY <2>1, <1>12, StaysChip
  <2>3. CASE t.ok /\ s \in sx1262!enter_standby_xosc(t.chip)
    <3>1. Calm(t.chip, s) /\ (s.ok => s.chip.cfg = t.chip.cfg)
      BY <2>2, <2>3, Sx1262Mode DEF sx1262!enter_standby_xosc
    <3> QED
      BY <3>1, <2>2, <2>3, QuietTwice DEF Calm
  <2> QED
    BY <2>1, <2>2, <2>3
<1>14. ASSUME NEW s, s \in tuned
       PROVE  /\ Quiet(c, s.chip) /\ s.got = <<>>
              /\ s.ok => Settings("sx1262") \subseteq s.chip.cfg
  <2>1. PICK t : /\ t \in ready
                 /\ (~t.ok /\ s = t) \/ (t.ok /\ s \in sx1262!SetAll(t.chip, 7, 13))
    BY <1>5, <1>7, <1>14
  <2>2. /\ Quiet(c, t.chip) /\ t.got = <<>> /\ t.chip \in Chips
        /\ t.ok => {sx1262!Settings[i] : i \in 1..6} \subseteq t.chip.cfg
    BY <2>1, <1>13, StaysChip
  <2>3. CASE t.ok /\ s \in sx1262!SetAll(t.chip, 7, 13)
    <3>1. Calm(t.chip, s) /\ (s.ok => s.chip.cfg = t.chip.cfg \cup {sx1262!Settings[i] : i \in 7..13})
      BY <2>2, <2>3, Sx1262SetAll
    <3>2. \A i \in 1..13 : i \in 1..6 \/ i \in 7..13
      OBVIOUS
    <3>3. s.ok => Settings("sx1262") \subseteq s.chip.cfg
      BY <3>1, <3>2, <2>2, <2>3, SettingsNamed
    <3> QED
      BY <3>1, <3>3, <2>2, QuietTwice DEF Calm
  <2> QED
    BY <2>1, <2>2, <2>3
<1> QED
  BY <1>6, <1>14, Sx1262Reads, StaysChip

\* A frame on air ends or does not.
LEMMA Sx1262Meanwhile ==
  ASSUME NEW c \in Chips, NEW r, r \in sx1262!Meanwhile(c)
  PROVE  r.ok /\ (r.chip = c \/ (c.mode = "tx" /\ r.chip = TxDone(c)))
BY DEF sx1262!Meanwhile, sx1262!Ok, sx1262!TxDone, TxDone

\* A call after SetTx: the frame in the buffer went on air as a whole, or not.
Sent(c, d) == d.sent \in {c.sent, Append(c.sent, c.tx)}

\* TX_DONE was seen, be it this frame's or not.
LEMMA Sx1262Confirmed ==
  ASSUME NEW c \in Chips, NEW r, r \in sx1262!Confirmed(c)
  PROVE  /\ Moved(c, c.tx, r.chip) /\ r.got = <<>> /\ (r.ok => r.chip.mode = "rx")
         /\ r.chip.tx = c.tx
         /\ r.chip.mode = "tx" => c.mode = "tx"
         /\ r.chip.sent = c.sent \/ (c.mode = "tx" /\ r.chip.sent = Append(c.sent, c.tx))
<1>1. PICK s : /\ s \in sx1262!clear_irq_status(c, {"tx_done"})
               /\ \/ ~s.ok /\ r = s
                  \/ s.ok /\ r \in sx1262!Then(sx1262!Meanwhile(s.chip),
                                     LAMBDA e : sx1262!start_receive(sx1262!TxIdle(e)))
  BY DEF sx1262!Confirmed, sx1262!Then
<1>2. s.ok => \E t : /\ t \in sx1262!Meanwhile(s.chip)
                     /\ (~t.ok /\ r = t) \/ (t.ok /\ r \in sx1262!start_receive(sx1262!TxIdle(t.chip)))
  BY <1>1 DEF sx1262!Then
<1>3. ~s.ok => r = s
  BY <1>1 DEF sx1262!Then
<1>4. Calm(c, s) /\ s.chip \in Chips
  BY <1>1, Sx1262Clear, StaysChip DEF Calm
<1>5. Moved(c, c.tx, s.chip) /\ s.chip.tx = c.tx /\ s.chip.sent = c.sent /\ (s.chip.mode = "tx" => c.mode = "tx")
  BY <1>4, KeptMoved DEF Calm, Kept, SameFrames
<1>6. CASE ~s.ok
  BY <1>3, <1>4, <1>5, <1>6 DEF Calm
<1>7. CASE s.ok
  <2>1. PICK t : /\ t \in sx1262!Meanwhile(s.chip)
                 /\ (~t.ok /\ r = t) \/ (t.ok /\ r \in sx1262!start_receive(sx1262!TxIdle(t.chip)))
    BY <1>2, <1>7
  <2>2. t.ok /\ (t.chip = s.chip \/ (s.chip.mode = "tx" /\ t.chip = TxDone(s.chip)))
    BY <2>1, <1>4, Sx1262Meanwhile
  <2>3. /\ t.chip \in Chips /\ Moved(c, c.tx, t.chip) /\ t.chip.tx = c.tx
        /\ t.chip.mode = "tx" => c.mode = "tx"
        /\ t.chip.sent = c.sent \/ (c.mode = "tx" /\ t.chip.sent = Append(c.sent, c.tx))
    <3>1. CASE t.chip = s.chip
      BY <3>1, <1>4, <1>5
    <3>2. CASE s.chip.mode = "tx" /\ t.chip = TxDone(s.chip)
      <4>1. /\ t.chip \in Chips /\ t.chip.mode = "standby" /\ t.chip.sent = Append(s.chip.sent, s.chip.tx)
            /\ t.chip.rx = s.chip.rx /\ t.chip.tx = s.chip.tx /\ t.chip.cfg = s.chip.cfg
            /\ t.chip.irq = s.chip.irq \cup {"tx_done"}
        BY <3>2, <1>4, StepsTxDone
      <4>2. Moved(c, c.tx, t.chip)
        BY <4>1, <1>5 DEF Moved
      <4> QED
        BY <4>1, <4>2, <3>2, <1>5
    <3> QED
      BY <2>2, <3>1, <3>2
  <2>4. sx1262!TxIdle(t.chip) = TxIdle(t.chip)
    BY DEF sx1262!TxIdle, TxIdle
  <2>5. Kept(t.chip, TxIdle(t.chip)) /\ TxIdle(t.chip) \in Chips
    BY <2>3, StepsActive, StaysChip
  <2>6. Kept(TxIdle(t.chip), r.chip) /\ r.got = <<>> /\ (r.ok => r.chip.mode = "rx")
    BY <2>1, <2>2, <2>4, <2>5, Sx1262Receive
  <2>7. Kept(t.chip, r.chip)
    BY <2>5, <2>6, KeptTwice
  <2>8. Moved(c, c.tx, r.chip)
    BY <2>3, <2>7, MovedKept
  <2> QED
    BY <2>3, <2>6, <2>7, <2>8 DEF Kept, SameFrames
<1> QED
  BY <1>6, <1>7

\* TX_DONE was not seen.
LEMMA Sx1262GivenUp ==
  ASSUME NEW c \in Chips, NEW r, r \in sx1262!GivenUp(c)
  PROVE  Calm(c, r) /\ ~r.ok
<1>1. PICK s : /\ s \in sx1262!clear_irq_status(c, sx1262!Irqs)
               /\ \/ ~s.ok /\ r = s
                  \/ s.ok /\ r \in sx1262!Then(sx1262!write_command(s.chip, sx1262!SetMode(s.chip, "standby")),
                                     LAMBDA e : {sx1262!Err(sx1262!TxIdle(e))})
  BY DEF sx1262!GivenUp, sx1262!Then
<1>2. s.ok => \E t : /\ t \in sx1262!write_command(s.chip, sx1262!SetMode(s.chip, "standby"))
                     /\ (~t.ok /\ r = t) \/ (t.ok /\ r = sx1262!Err(sx1262!TxIdle(t.chip)))
  BY <1>1 DEF sx1262!Then
<1>3. ~s.ok => r = s
  BY <1>1 DEF sx1262!Then
<1>4. Calm(c, s) /\ s.chip \in Chips
  BY <1>1, Sx1262Clear, StaysChip DEF Calm
<1>5. CASE s.ok
  <2>1. PICK t : /\ t \in sx1262!write_command(s.chip, sx1262!SetMode(s.chip, "standby"))
                 /\ (~t.ok /\ r = t) \/ (t.ok /\ r = sx1262!Err(sx1262!TxIdle(t.chip)))
    BY <1>2, <1>5
  <2>2. Calm(c, t) /\ t.chip \in Chips
    BY <2>1, <1>4, Sx1262Mode, CalmTwice, StaysChip DEF Calm
  <2>3. sx1262!TxIdle(t.chip) = TxIdle(t.chip)
    BY DEF sx1262!TxIdle, TxIdle
  <2>4. CASE t.ok
    <3>1. r.chip = TxIdle(t.chip) /\ r.got = <<>> /\ ~r.ok
      BY <2>1, <2>3, <2>4 DEF sx1262!Err
    <3> QED
      BY <3>1, <2>2, StepsActive, QuietTwice, KeptTwice DEF Calm
  <2> QED
    BY <2>1, <2>2, <2>4
<1>6. CASE ~s.ok
  BY <1>3, <1>4, <1>6
<1> QED
  BY <1>5, <1>6

\* The wait for TX_DONE: without an old one in the register, success means that
\* the frame went out.
LEMMA Sx1262Await ==
  ASSUME NEW c \in Chips, c.mode = "tx", NEW r, r \in sx1262!AwaitTxDone(c)
  PROVE  /\ Moved(c, c.tx, r.chip) /\ r.got = <<>> /\ (r.ok => r.chip.mode # "tx")
         /\ r.chip.tx = c.tx /\ Sent(c, r.chip)
         /\ r.ok /\ "tx_done" \notin c.irq => r.chip.sent = Append(c.sent, c.tx)
<1>1. PICK d \in sx1262!Polling(c) :
        r \in sx1262!Then(sx1262!read_command(d),
                LAMBDA e : IF "tx_done" \in e.irq THEN sx1262!Confirmed(e) ELSE sx1262!GivenUp(e))
  BY DEF sx1262!AwaitTxDone
<1>2. PICK s : /\ s \in sx1262!read_command(d)
               /\ \/ ~s.ok /\ r = s
                  \/ s.ok /\ r \in (IF "tx_done" \in s.chip.irq THEN sx1262!Confirmed(s.chip)
                                                                ELSE sx1262!GivenUp(s.chip))
  BY <1>1 DEF sx1262!Then
<1>3. d = c \/ d = TxDone(c) \/ d = SetMode(c, "standby")
  BY <1>1 DEF sx1262!Polling, sx1262!TxDone, TxDone, sx1262!SetMode, SetMode
<1>4. /\ d \in Chips /\ d.tx = c.tx /\ Moved(c, c.tx, d)
      /\ \/ d.sent = c.sent /\ d.irq = c.irq
         \/ d.sent = Append(c.sent, c.tx) /\ d.mode = "standby" /\ "tx_done" \in d.irq
  <2>1. CASE d = c
    BY <2>1 DEF Moved
  <2>2. CASE d = TxDone(c)
    BY <2>2, StepsTxDone DEF Moved
  <2>3. CASE d = SetMode(c, "standby")
    BY <2>3 DEF Moved, SetMode, Chips
  <2> QED
    BY <1>3, <2>1, <2>2, <2>3
<1>5. s.chip = d /\ s.got = <<>>
  BY <1>2, <1>4, Sx1262Reads
<1>6. CASE ~s.ok
  <2>1. r = s
    BY <1>2, <1>6
  <2> QED
    BY <2>1, <1>4, <1>5, <1>6 DEF Sent
<1>7. CASE s.ok /\ "tx_done" \in d.irq
  <2>1. r \in sx1262!Confirmed(d)
    BY <1>2, <1>5, <1>7
  <2>2. /\ Moved(d, d.tx, r.chip) /\ r.got = <<>> /\ (r.ok => r.chip.mode = "rx")
        /\ r.chip.tx = d.tx
        /\ r.chip.sent = d.sent \/ (d.mode = "tx" /\ r.chip.sent = Append(d.sent, d.tx))
    BY <2>1, <1>4, Sx1262Confirmed
  <2>3. Moved(c, c.tx, r.chip)
    BY <2>2, <1>4 DEF Moved
  <2>4. Sent(c, r.chip) /\ ("tx_done" \notin c.irq => r.chip.sent = Append(c.sent, c.tx))
    BY <2>2, <1>4, <1>7 DEF Sent
  <2> QED
    BY <2>2, <2>3, <2>4, <1>4
<1>8. CASE s.ok /\ "tx_done" \notin d.irq
  <2>1. r \in sx1262!GivenUp(d)
    BY <1>2, <1>5, <1>8
  <2>2. Calm(d, r) /\ ~r.ok
    BY <2>1, <1>4, Sx1262GivenUp
  <2>3. Moved(c, c.tx, r.chip)
    BY <2>2, <1>4, MovedKept DEF Calm
  <2> QED
    BY <2>2, <2>3, <1>4 DEF Calm, Kept, SameFrames, Sent
<1> QED
  BY <1>6, <1>7, <1>8

\* A transmission from standby on.
LEMMA Sx1262Send ==
  ASSUME NEW c \in Chips, NEW f \in AllFrames, NEW r, NEW s,
         s \in sx1262!enter_standby_xosc(c),
         \/ ~s.ok /\ r = s
         \/ s.ok /\ r \in sx1262!Then(sx1262!write_buffer(s.chip, f),
                       LAMBDA e : sx1262!Then(sx1262!Then(sx1262!Set(e, "packet_params"), sx1262!fix_errata),
                         LAMBDA g : sx1262!Then(sx1262!write_command(g, sx1262!SetMode(g, "tx")),
                                                sx1262!AwaitTxDone)))
  PROVE  /\ Moved(c, f, r.chip) /\ r.got = <<>>
         /\ r.ok => r.chip.mode # "tx"
         /\ r.chip.mode = "tx" => r.chip.tx = f \/ (c.mode = "tx" /\ r.chip.tx = c.tx)
         /\ r.chip.sent \in {c.sent, Append(c.sent, f)}
         /\ r.ok /\ "tx_done" \notin c.irq => r.chip.sent = Append(c.sent, f)
<1>2. s.ok => \E t : /\ t \in sx1262!write_buffer(s.chip, f)
                     /\ \/ ~t.ok /\ r = t
                        \/ t.ok /\ r \in sx1262!Then(
                             sx1262!Then(sx1262!Set(t.chip, "packet_params"), sx1262!fix_errata),
                             LAMBDA g : sx1262!Then(sx1262!write_command(g, sx1262!SetMode(g, "tx")),
                                                    sx1262!AwaitTxDone))
  BY DEF sx1262!Then
<1>3. ~s.ok => r = s
  OBVIOUS
<1>5. Calm(c, s) /\ s.chip \in Chips /\ (s.ok => s.chip.mode = "standby")
  BY Sx1262Mode, StaysChip DEF sx1262!enter_standby_xosc, Calm
<1>6. Kept(c, s.chip)
  BY <1>5 DEF Calm
<1>7. CASE ~s.ok
  <2>1. r.chip.mode = "tx" => c.mode = "tx" /\ r.chip.tx = c.tx
    BY <1>3, <1>5, <1>7 DEF Calm, Quiet, Kept, SameFrames
  <2>2. r.got = <<>> /\ r.chip.sent = c.sent
    BY <1>3, <1>5, <1>6, <1>7 DEF Calm, Kept, SameFrames
  <2> QED
    BY <2>1, <2>2, <1>3, <1>6, <1>7, KeptMoved
<1>8. CASE s.ok
  <2>1. PICK t : /\ t \in sx1262!write_buffer(s.chip, f)
                 /\ \/ ~t.ok /\ r = t
                    \/ t.ok /\ r \in sx1262!Then(
                             sx1262!Then(sx1262!Set(t.chip, "packet_params"), sx1262!fix_errata),
                             LAMBDA g : sx1262!Then(sx1262!write_command(g, sx1262!SetMode(g, "tx")),
                                                    sx1262!AwaitTxDone))
    BY <1>2, <1>8 DEF sx1262!Then
  <2>2. ~t.ok => r = t
    BY <2>1 DEF sx1262!Then
  <2>3. t.ok => \E u : /\ u \in sx1262!Then(sx1262!Set(t.chip, "packet_params"), sx1262!fix_errata)
                       /\ \/ ~u.ok /\ r = u
                          \/ u.ok /\ r \in sx1262!Then(
                                       sx1262!write_command(u.chip, sx1262!SetMode(u.chip, "tx")),
                                       sx1262!AwaitTxDone)
    BY <2>1 DEF sx1262!Then
  <2>4. Leads(t, s.chip, WriteFifo(s.chip, f))
    <3>1. sx1262!WriteFifo(s.chip, f) = WriteFifo(s.chip, f)
      BY DEF sx1262!WriteFifo, WriteFifo
    <3>2. t \in sx1262!write_command(s.chip, WriteFifo(s.chip, f))
      BY <2>1, <3>1 DEF sx1262!write_buffer
    <3> QED
      BY <3>2, Sx1262Commands
  <2>5. /\ t.chip \in Chips /\ t.got = <<>> /\ t.chip.mode = "standby" /\ t.chip.sent = c.sent
        /\ Moved(c, f, t.chip) /\ t.chip.irq \subseteq c.irq
        /\ t.ok => t.chip.tx = f
    BY <2>4, <1>5, <1>6, <1>8, StepsFifo DEF Leads, Kept, SameFrames, Moved
  <2>6. CASE ~t.ok
    BY <2>2, <2>5, <2>6
  <2>7. CASE t.ok
    <3>1. PICK u : /\ u \in sx1262!Then(sx1262!Set(t.chip, "packet_params"), sx1262!fix_errata)
                   /\ \/ ~u.ok /\ r = u
                      \/ u.ok /\ r \in sx1262!Then(
                                   sx1262!write_command(u.chip, sx1262!SetMode(u.chip, "tx")),
                                   sx1262!AwaitTxDone)
      BY <2>3, <2>7 DEF sx1262!Then
    <3>2. ~u.ok => r = u
      BY <3>1 DEF sx1262!Then
    <3>3. u.ok => \E v : /\ v \in sx1262!write_command(u.chip, sx1262!SetMode(u.chip, "tx"))
                         /\ (~v.ok /\ r = v) \/ (v.ok /\ r \in sx1262!AwaitTxDone(v.chip))
      BY <3>1 DEF sx1262!Then
    <3>4. PICK w : /\ w \in sx1262!Set(t.chip, "packet_params")
                   /\ (~w.ok /\ u = w) \/ (w.ok /\ u \in sx1262!fix_errata(w.chip))
      BY <3>1 DEF sx1262!Then
    <3>5. Calm(t.chip, w)
      BY <3>4, <2>5, Sx1262Set
    <3>6. Calm(t.chip, u) /\ u.chip \in Chips
      BY <3>4, <3>5, Sx1262Reads, StaysChip DEF Calm
    <3>7. /\ u.got = <<>> /\ u.chip.mode # "tx" /\ u.chip.sent = c.sent /\ u.chip.tx = f
          /\ Moved(c, f, u.chip) /\ u.chip.irq \subseteq c.irq
      BY <3>6, <2>5, <2>7, MovedKept DEF Calm, Quiet, Kept, SameFrames
    <3>8. CASE ~u.ok
      BY <3>2, <3>7, <3>8
    <3>9. CASE u.ok
      <4>1. PICK v : /\ v \in sx1262!write_command(u.chip, sx1262!SetMode(u.chip, "tx"))
                     /\ (~v.ok /\ r = v) \/ (v.ok /\ r \in sx1262!AwaitTxDone(v.chip))
        BY <3>3, <3>9
      <4>2. Leads(v, u.chip, SetMode(u.chip, "tx"))
        <5>1. sx1262!SetMode(u.chip, "tx") = SetMode(u.chip, "tx")
          BY DEF sx1262!SetMode, SetMode
        <5>2. v \in sx1262!write_command(u.chip, SetMode(u.chip, "tx"))
          BY <4>1, <5>1
        <5> QED
          BY <5>2, Sx1262Commands
      <4>3. /\ v.chip \in Chips /\ v.got = <<>> /\ v.chip.sent = c.sent /\ v.chip.tx = f
            /\ Moved(c, f, v.chip) /\ v.chip.irq \subseteq c.irq /\ (v.ok => v.chip.mode = "tx")
        BY <4>2, <3>6, <3>7, StepsSend DEF Leads, Moved
      <4>4. CASE ~v.ok
        BY <4>1, <4>3, <4>4
      <4>5. CASE v.ok
        <5>1. /\ Moved(v.chip, f, r.chip) /\ r.got = <<>> /\ (r.ok => r.chip.mode # "tx")
              /\ r.chip.tx = f /\ r.chip.sent \in {c.sent, Append(c.sent, f)}
              /\ r.ok /\ "tx_done" \notin c.irq => r.chip.sent = Append(c.sent, f)
          BY <4>1, <4>3, <4>5, Sx1262Await DEF Sent
        <5>2. Moved(c, f, r.chip)
          BY <5>1, <4>3 DEF Moved
        <5> QED
          BY <5>1, <5>2
      <4> QED
        BY <4>4, <4>5
    <3> QED
      BY <3>8, <3>9
  <2> QED
    BY <2>6, <2>7
<1> QED
  BY <1>7, <1>8

\* What is on air as a whole after a transmission starts: an earlier frame
\* left on air may have ended.
Begun(c) == {c.sent} \cup {Append(c.sent, c.tx) : m \in {c.mode} \cap {"tx"}}

\* A transmission that succeeds put the frame on air as a whole, if no earlier
\* one was unfinished; one that fails may have, or may have left it on air.
LEMMA Sx1262Transmit ==
  ASSUME NEW c \in Chips, NEW f \in AllFrames, NEW r, r \in sx1262!transmit(c, f)
  PROVE  /\ Moved(c, f, r.chip) /\ r.got = <<>>
         /\ r.ok => r.chip.mode # "tx"
         /\ r.chip.mode = "tx" => r.chip.tx = f \/ (c.mode = "tx" /\ r.chip.tx = c.tx)
         /\ \E b \in Begun(c) : r.chip.sent \in {b, Append(b, f)}
         /\ r.ok /\ c.mode # "tx" /\ "tx_done" \notin c.irq => r.chip.sent = Append(c.sent, f)
<1> DEFINE start == sx1262!Then(sx1262!Meanwhile(sx1262!TxActive(c)), sx1262!enter_standby_xosc)
<1>1. \A s : s \in start => \E e : /\ e \in sx1262!Meanwhile(sx1262!TxActive(c))
                                   /\ (~e.ok /\ s = e) \/ (e.ok /\ s \in sx1262!enter_standby_xosc(e.chip))
  BY DEF sx1262!Then
<1> HIDE DEF start
<1>2. PICK s : /\ s \in start
               /\ \/ ~s.ok /\ r = s
                  \/ s.ok /\ r \in sx1262!Then(sx1262!write_buffer(s.chip, f),
                       LAMBDA e : sx1262!Then(sx1262!Then(sx1262!Set(e, "packet_params"), sx1262!fix_errata),
                         LAMBDA g : sx1262!Then(sx1262!write_command(g, sx1262!SetMode(g, "tx")),
                                                sx1262!AwaitTxDone)))
  <2>1. r \in sx1262!Then(start, LAMBDA d : sx1262!Then(sx1262!write_buffer(d, f),
                LAMBDA e : sx1262!Then(sx1262!Then(sx1262!Set(e, "packet_params"), sx1262!fix_errata),
                  LAMBDA g : sx1262!Then(sx1262!write_command(g, sx1262!SetMode(g, "tx")),
                                         sx1262!AwaitTxDone))))
    BY DEF sx1262!transmit, start
  <2> QED
    BY <2>1 DEF sx1262!Then
<1>3. PICK e : /\ e \in sx1262!Meanwhile(sx1262!TxActive(c))
               /\ (~e.ok /\ s = e) \/ (e.ok /\ s \in sx1262!enter_standby_xosc(e.chip))
  BY <1>1, <1>2
<1>4. /\ Kept(c, TxActive(c)) /\ TxActive(c) \in Chips /\ TxActive(c).mode = c.mode
      /\ TxActive(c).tx = c.tx /\ TxActive(c).sent = c.sent /\ TxActive(c).irq = c.irq
  <2>1. Kept(c, TxActive(c)) /\ TxActive(c) \in Chips
    BY StepsActive, StaysChip
  <2> QED
    BY <2>1 DEF TxActive, Chips
<1>5. e.ok /\ (e.chip = TxActive(c) \/ (c.mode = "tx" /\ e.chip = TxDone(TxActive(c))))
  <2>1. sx1262!TxActive(c) = TxActive(c)
    BY DEF sx1262!TxActive, TxActive
  <2> QED
    BY <2>1, <1>3, <1>4, Sx1262Meanwhile
<1>6. /\ e.chip \in Chips /\ Moved(c, f, e.chip) /\ e.chip.sent \in Begun(c)
      /\ e.chip.mode = "tx" => c.mode = "tx" /\ e.chip.tx = c.tx
      /\ c.mode # "tx" => e.chip.sent = c.sent /\ e.chip.irq = c.irq
  <2>1. CASE e.chip = TxActive(c)
    BY <2>1, <1>4, KeptMoved DEF Begun
  <2>2. CASE c.mode = "tx" /\ e.chip = TxDone(TxActive(c))
    <3>1. /\ e.chip \in Chips /\ e.chip.mode = "standby" /\ e.chip.sent = Append(c.sent, c.tx)
          /\ e.chip.rx = TxActive(c).rx /\ e.chip.cfg = TxActive(c).cfg
          /\ e.chip.irq = c.irq \cup {"tx_done"}
      BY <2>2, <1>4, StepsTxDone
    <3>2. Moved(c, f, e.chip)
      BY <3>1, <1>4 DEF Moved, Kept, SameFrames
    <3> QED
      BY <3>1, <3>2, <2>2 DEF Begun
  <2> QED
    BY <1>5, <2>1, <2>2
<1>7. /\ Moved(e.chip, f, r.chip) /\ r.got = <<>>
      /\ r.ok => r.chip.mode # "tx"
      /\ r.chip.mode = "tx" => r.chip.tx = f \/ (e.chip.mode = "tx" /\ r.chip.tx = e.chip.tx)
      /\ r.chip.sent \in {e.chip.sent, Append(e.chip.sent, f)}
      /\ r.ok /\ "tx_done" \notin e.chip.irq => r.chip.sent = Append(e.chip.sent, f)
  BY <1>2, <1>3, <1>5, <1>6, Sx1262Send
<1>8. Moved(c, f, r.chip)
  BY <1>6, <1>7 DEF Moved
<1> QED
  BY <1>6, <1>7, <1>8

\* The interrupts are cleared and reception is armed again.
LEMMA Sx1262Rearm ==
  ASSUME NEW c \in Chips, NEW S, NEW r,
         r \in sx1262!Then(sx1262!clear_irq_status(c, S), sx1262!start_receive)
  PROVE  Kept(c, r.chip) /\ r.got = <<>> /\ (r.ok => r.chip.irq \cap S = {})
<1>1. PICK s : /\ s \in sx1262!clear_irq_status(c, S)
               /\ (~s.ok /\ r = s) \/ (s.ok /\ r \in sx1262!start_receive(s.chip))
  BY DEF sx1262!Then
<1>2. Kept(c, s.chip) /\ s.got = <<>> /\ s.chip \in Chips /\ (s.ok => s.chip = ClearIrq(c, S))
  BY <1>1, Sx1262Clear, StaysChip DEF Calm
<1>3. CASE ~s.ok
  BY <1>1, <1>2, <1>3
<1>4. CASE s.ok
  <2>1. Kept(s.chip, r.chip) /\ r.got = <<>>
    BY <1>1, <1>2, <1>4, Sx1262Receive
  <2>2. r.chip.irq \subseteq c.irq \ S
    BY <2>1, <1>2, <1>4, StepsClear DEF Kept, SameFrames
  <2> QED
    BY <2>1, <2>2, <1>2, KeptTwice
<1> QED
  BY <1>3, <1>4

\* A poll gives out at most the frame the chip holds, and then clears RX_DONE.
LEMMA Sx1262ProcessIrq ==
  ASSUME NEW c \in Chips, NEW r, r \in sx1262!process_irq(c)
  PROVE  Polled(c, r)
<1> DEFINE frame == IF "rx_done" \in c.irq /\ "crc_err" \notin c.irq THEN <<c.rx>> ELSE <<>>
           read == IF "rx_done" \in c.irq THEN sx1262!Then(sx1262!read_command(c), sx1262!read_buffer)
                                          ELSE sx1262!read_command(c)
           both == sx1262!Then(sx1262!read_command(c),
                     LAMBDA d : sx1262!Then(sx1262!clear_irq_status(d, sx1262!Irqs), sx1262!start_receive))
           calls == sx1262!Then(read,
                     LAMBDA d : sx1262!Then(sx1262!clear_irq_status(d, c.irq), sx1262!start_receive))
<1>1. \/ r \in sx1262!read_command(c)
      \/ r \in both
      \/ r \in sx1262!Returning(frame, calls)
  BY DEF sx1262!process_irq
<1>2. ASSUME NEW s, s \in read PROVE s.chip = c /\ s.got = <<>>
  <2>1. CASE s \in sx1262!read_command(c)
    BY <2>1, Sx1262Reads
  <2>2. CASE s \in sx1262!Then(sx1262!read_command(c), sx1262!read_buffer)
    <3>1. PICK t : /\ t \in sx1262!read_command(c)
                   /\ (~t.ok /\ s = t) \/ (t.ok /\ s \in sx1262!read_buffer(t.chip))
      BY <2>2 DEF sx1262!Then
    <3> QED
      BY <3>1, Sx1262Reads
  <2> QED
    BY <1>2, <2>1, <2>2
<1> HIDE DEF read
<1>3. CASE r \in both
  <2>1. PICK t : /\ t \in sx1262!read_command(c)
                 /\ \/ ~t.ok /\ r = t
                    \/ t.ok /\ r \in sx1262!Then(sx1262!clear_irq_status(t.chip, sx1262!Irqs), sx1262!start_receive)
    BY <1>3 DEF sx1262!Then
  <2>2. ~t.ok => r = t
    BY <2>1 DEF sx1262!Then
  <2>3. t.chip = c /\ t.got = <<>>
    BY <2>1, Sx1262Reads
  <2>4. t.ok => Kept(c, r.chip) /\ r.got = <<>>
    BY <2>1, <2>3, Sx1262Rearm DEF sx1262!Then
  <2> QED
    BY <2>2, <2>3, <2>4, StepsStay DEF Polled
<1>4. ASSUME NEW s, s \in calls
      PROVE  Kept(c, s.chip) /\ s.got = <<>> /\ (s.ok => s.chip.irq \cap c.irq = {})
  <2>1. PICK t : /\ t \in read
                 /\ \/ ~t.ok /\ s = t
                    \/ t.ok /\ s \in sx1262!Then(sx1262!clear_irq_status(t.chip, c.irq), sx1262!start_receive)
    BY <1>4 DEF sx1262!Then
  <2>2. ~t.ok => s = t
    BY <2>1 DEF sx1262!Then
  <2>3. t.chip = c /\ t.got = <<>>
    BY <2>1, <1>2
  <2>4. t.ok => Kept(c, s.chip) /\ s.got = <<>> /\ (s.ok => s.chip.irq \cap c.irq = {})
    BY <2>1, <2>3, Sx1262Rearm DEF sx1262!Then
  <2> QED
    BY <2>2, <2>3, <2>4, StepsStay
<1> HIDE DEF both, calls
<1>5. CASE r \in sx1262!Returning(frame, calls)
  <2>1. PICK s : /\ s \in calls
                 /\ \/ ~s.ok /\ r = s
                    \/ s.ok /\ r.chip = s.chip /\ r.got = frame
    BY <1>5 DEF sx1262!Returning, sx1262!Ok
  <2> QED
    BY <2>1, <1>4 DEF Polled
<1>6. CASE r \in sx1262!read_command(c)
  BY <1>6, Sx1262Reads, StepsStay DEF Polled
<1> QED
  BY <1>1, <1>3, <1>5, <1>6

\* Dropping the driver.
LEMMA Sx1262Drop ==
  ASSUME NEW c \in Chips, NEW d, d \in sx1262!drop(c)
  PROVE  Quiet(c, d)
BY StepsStay, StepsMode DEF sx1262!drop, sx1262!SetMode, SetMode

-----------------------------------------------------------------------------
(* LoRa: the SX1276 *)

\* A command has its effect or none.
LEMMA Sx1276Commands ==
  ASSUME NEW c, NEW d
  PROVE  /\ \A r \in sx1276!write_register(c, d) : Leads(r, c, d)
         /\ \A r \in sx1276!read_register(c) : Leads(r, c, c)
BY DEF Leads, sx1276!write_register, sx1276!read_register, sx1276!xfer, sx1276!Ok, sx1276!Err

\* What only reads leaves the chip as it was.
LEMMA Sx1276Reads ==
  ASSUME NEW c \in Chips, NEW r,
         r \in sx1276!read_register(c)
         \/ r \in sx1276!ping(c)
         \/ r \in sx1276!read_fifo_payload(c)
  PROVE  r.chip = c /\ r.got = <<>> /\ Calm(c, r)
<1>1. Leads(r, c, c)
  BY Sx1276Commands DEF sx1276!ping, sx1276!read_fifo_payload
<1>2. r.chip = c /\ r.got = <<>>
  BY <1>1 DEF Leads
<1>3. Quiet(c, c) /\ Kept(c, c)
  BY StepsStay
<1> QED
  BY <1>2, <1>3 DEF Calm

\* Leaving the air.
LEMMA Sx1276Mode ==
  ASSUME NEW c \in Chips, NEW m \in {"standby", "sleep"}, NEW r, r \in sx1276!set_op_mode(c, m)
  PROVE  Calm(c, r) /\ (r.ok => r.chip.mode = m /\ r.chip.cfg = c.cfg)
<1>1. Leads(r, c, SetMode(c, m))
  BY Sx1276Commands DEF sx1276!set_op_mode, sx1276!SetMode, SetMode
<1> QED
  BY <1>1, StepsMode, LeadsCalm DEF Leads

\* Clearing interrupts.
LEMMA Sx1276Clear ==
  ASSUME NEW c \in Chips, NEW S, NEW r, r \in sx1276!clear_irq_flags(c, S)
  PROVE  Calm(c, r) /\ (r.ok => r.chip = ClearIrq(c, S))
<1>1. Leads(r, c, ClearIrq(c, S))
  BY Sx1276Commands DEF sx1276!clear_irq_flags, sx1276!ClearIrq, ClearIrq
<1> QED
  BY <1>1, StepsClear, LeadsCalm DEF Leads

\* start_receive: settings are kept, and success means the chip listens.
LEMMA Sx1276Receive ==
  ASSUME NEW c \in Chips, NEW r, r \in sx1276!start_receive(c)
  PROVE  Kept(c, r.chip) /\ r.got = <<>> /\ (r.ok => r.chip.mode = "rx")
<1>1. PICK s : /\ s \in sx1276!set_op_mode(c, "rx")
               /\ (~s.ok /\ r = s) \/ (s.ok /\ r = sx1276!Ok(sx1276!TxIdle(s.chip)))
  BY DEF sx1276!start_receive, sx1276!Then
<1>2. Leads(s, c, SetMode(c, "rx"))
  BY <1>1, Sx1276Commands DEF sx1276!set_op_mode, sx1276!SetMode, SetMode
<1>3. Kept(c, s.chip) /\ s.got = <<>> /\ (s.ok => s.chip.mode = "rx") /\ s.chip \in Chips
  BY <1>2, StepsReceive, LeadsKept, StaysChip DEF Leads
<1>4. CASE ~s.ok
  BY <1>1, <1>3, <1>4
<1>5. CASE s.ok
  <2>1. r.ok /\ r.chip = TxIdle(s.chip) /\ r.got = <<>>
    BY <1>1, <1>5 DEF sx1276!Ok, sx1276!TxIdle, TxIdle
  <2>2. Kept(s.chip, r.chip) /\ r.chip.mode = "rx"
    BY <2>1, <1>3, <1>5, StepsActive
  <2> QED
    BY <2>1, <2>2, <1>3, KeptTwice
<1> QED
  BY <1>4, <1>5

\* The settings in a row: success means all of them.
LEMMA Sx1276SetAll ==
  ASSUME NEW c \in Chips, NEW r, r \in sx1276!SetAll(c, 1, 9)
  PROVE  /\ Calm(c, r)
         /\ r.ok => Settings("sx1276") \subseteq r.chip.cfg
<1>0. \A S : sx1276!Configure(c, S) = Configure(c, S)
  BY DEF sx1276!Configure, Configure
<1> DEFINE Upto(n) == {sx1276!Settings[i] : i \in 1..n}
<1>1. PICK n : n \in 0..9 /\ r.chip = Configure(c, Upto(n)) /\ r.got = <<>> /\ (r.ok => n = 9)
  <2>1. \/ r = sx1276!Ok(sx1276!Configure(c, Upto(9)))
        \/ \E n \in (1 - 1)..(9 - 1) : r = sx1276!Err(sx1276!Configure(c, Upto(n)))
    BY DEF sx1276!SetAll
  <2> HIDE DEF Upto
  <2>2. CASE r = sx1276!Ok(sx1276!Configure(c, Upto(9)))
    <3>1. r.chip = Configure(c, Upto(9)) /\ r.got = <<>>
      BY <2>2, <1>0 DEF sx1276!Ok
    <3> QED
      BY <3>1
  <2>3. ASSUME NEW n \in 0..9, r = sx1276!Err(sx1276!Configure(c, Upto(n)))
        PROVE  r.chip = Configure(c, Upto(n)) /\ r.got = <<>> /\ ~r.ok
    BY <2>3, <1>0 DEF sx1276!Err
  <2>4. \A n \in (1 - 1)..(9 - 1) : n \in 0..9
    OBVIOUS
  <2> QED
    BY <2>1, <2>2, <2>3, <2>4
<1>2. Upto(n) \in SUBSET SettingNames
  BY <1>1, SettingsNamed DEF SettingNames
<1>3. Upto(9) = Settings("sx1276")
  BY SettingsNamed
<1> HIDE DEF Upto
<1> QED
  BY <1>1, <1>2, <1>3, StepsConfigure DEF Calm

\* The reset line loses settings off air.
LEMMA Sx1276Reset ==
  ASSUME NEW c \in Chips, NEW r, r \in sx1276!hardware_reset(c)
  PROVE  Quiet(c, r.chip) /\ r.got = <<>>
<1>1. r.chip \in {c, ColdStart(c)} /\ r.got = <<>>
  BY DEF sx1276!hardware_reset, sx1276!ResetLine, sx1276!Ok, sx1276!Err, sx1276!ColdStart, ColdStart
<1> QED
  BY <1>1, StepsStay, StepsCold

\* init: settings may be lost only off air, and success means all are written.
LEMMA Sx1276Init ==
  ASSUME NEW c \in Chips, NEW r, r \in sx1276!init(c)
  PROVE  Quiet(c, r.chip) /\ r.got = <<>> /\ (r.ok => Settings("sx1276") \subseteq r.chip.cfg)
<1> DEFINE reset  == sx1276!hardware_reset(sx1276!TxIdle(c))
           asleep == sx1276!Then(reset, LAMBDA d : sx1276!set_op_mode(d, "sleep"))
           awake  == sx1276!Then(asleep, sx1276!ping)
           tuned  == sx1276!Then(awake, LAMBDA d : sx1276!SetAll(d, 1, Len(sx1276!Settings)))
           ready(d) == sx1276!Then(sx1276!set_op_mode(d, "standby"),
                         LAMBDA e : {sx1276!Ok(sx1276!ClearIrq(e, sx1276!Irqs)), sx1276!Ok(e)})
<1>1. \A s : s \in asleep => \E t : /\ t \in reset
                                    /\ (~t.ok /\ s = t) \/ (t.ok /\ s \in sx1276!set_op_mode(t.chip, "sleep"))
  <2> HIDE DEF reset
  <2> QED BY DEF sx1276!Then
<1>2. \A s : s \in awake => \E t : /\ t \in asleep
                                   /\ (~t.ok /\ s = t) \/ (t.ok /\ s \in sx1276!ping(t.chip))
  <2> HIDE DEF asleep
  <2> QED BY DEF sx1276!Then
<1>3. \A s : s \in tuned => \E t : /\ t \in awake
                                   /\ \/ ~t.ok /\ s = t
                                      \/ t.ok /\ s \in sx1276!SetAll(t.chip, 1, Len(sx1276!Settings))
  <2> HIDE DEF awake
  <2> QED BY DEF sx1276!Then
<1>4. PICK s : s \in tuned /\ ((~s.ok /\ r = s) \/ (s.ok /\ r \in ready(s.chip)))
  <2>1. r \in sx1276!Then(tuned, LAMBDA d : ready(d))
    BY DEF sx1276!init
  <2> HIDE DEF tuned, ready
  <2> QED BY <2>1 DEF sx1276!Then
<1>5. \A d : r \in ready(d) =>
        \E t : /\ t \in sx1276!set_op_mode(d, "standby")
               /\ \/ ~t.ok /\ r = t
                  \/ r = sx1276!Ok(sx1276!ClearIrq(t.chip, sx1276!Irqs))
                  \/ r = sx1276!Ok(t.chip)
  BY DEF sx1276!Then
<1> HIDE DEF asleep, awake, tuned, ready
<1>6. Quiet(c, TxIdle(c)) /\ TxIdle(c) \in Chips
  BY StepsActive, StaysChip
<1>7. ASSUME NEW t, t \in reset PROVE Quiet(c, t.chip) /\ t.got = <<>>
  <2>1. sx1276!TxIdle(c) = TxIdle(c)
    BY DEF sx1276!TxIdle, TxIdle
  <2> QED
    BY <1>6, <1>7, <2>1, Sx1276Reset, QuietTwice
<1>8. ASSUME NEW t, t \in asleep PROVE Quiet(c, t.chip) /\ t.got = <<>>
  <2>1. PICK u : /\ u \in reset
                 /\ (~u.ok /\ t = u) \/ (u.ok /\ t \in sx1276!set_op_mode(u.chip, "sleep"))
    BY <1>1, <1>8
  <2>2. Quiet(c, u.chip) /\ u.got = <<>> /\ u.chip \in Chips
    BY <2>1, <1>7, StaysChip
  <2>3. CASE t \in sx1276!set_op_mode(u.chip, "sleep")
    <3>1. Calm(u.chip, t)
      BY <2>2, <2>3, Sx1276Mode
    <3> QED
      BY <3>1, <2>2, QuietTwice DEF Calm
  <2> QED
    BY <2>1, <2>2, <2>3
<1>9. ASSUME NEW t, t \in awake PROVE Quiet(c, t.chip) /\ t.got = <<>>
  BY <1>2, <1>8, <1>9, Sx1276Reads, StaysChip
<1>10. ASSUME NEW t, t \in tuned
       PROVE  Quiet(c, t.chip) /\ t.got = <<>> /\ (t.ok => Settings("sx1276") \subseteq t.chip.cfg)
  <2>1. PICK u : /\ u \in awake
                 /\ (~u.ok /\ t = u) \/ (u.ok /\ t \in sx1276!SetAll(u.chip, 1, 9))
    BY <1>3, <1>10, SettingsNamed
  <2>2. Quiet(c, u.chip) /\ u.got = <<>> /\ u.chip \in Chips
    BY <2>1, <1>9, StaysChip
  <2>3. CASE t \in sx1276!SetAll(u.chip, 1, 9)
    <3>1. Calm(u.chip, t) /\ (t.ok => Settings("sx1276") \subseteq t.chip.cfg)
      BY <2>2, <2>3, Sx1276SetAll
    <3> QED
      BY <3>1, <2>2, QuietTwice DEF Calm
  <2> QED
    BY <2>1, <2>2, <2>3
<1>11. Quiet(c, s.chip) /\ s.got = <<>> /\ s.chip \in Chips
  BY <1>4, <1>10, StaysChip
<1>12. CASE s.ok /\ r \in ready(s.chip)
  <2>1. PICK t : /\ t \in sx1276!set_op_mode(s.chip, "standby")
                 /\ \/ ~t.ok /\ r = t
                    \/ r = sx1276!Ok(sx1276!ClearIrq(t.chip, sx1276!Irqs))
                    \/ r = sx1276!Ok(t.chip)
    BY <1>5, <1>12
  <2>2. Calm(s.chip, t) /\ t.chip \in Chips
    BY <2>1, <1>11, Sx1276Mode, StaysChip DEF Calm
  <2>3. sx1276!ClearIrq(t.chip, sx1276!Irqs) = ClearIrq(t.chip, Irqs)
    BY DEF sx1276!ClearIrq, ClearIrq, sx1276!Irqs, Irqs
  <2>4. r.chip \in {t.chip, ClearIrq(t.chip, Irqs)} /\ r.got = <<>>
    BY <2>1, <2>2, <2>3 DEF sx1276!Ok, Calm
  <2>5. Quiet(t.chip, r.chip) /\ Kept(t.chip, r.chip)
    BY <2>2, <2>4, StepsStay, StepsClear
  <2>6. Quiet(c, r.chip) /\ s.chip.cfg \subseteq r.chip.cfg
    BY <2>2, <2>5, <1>11, QuietTwice DEF Calm, Kept
  <2> QED
    BY <2>4, <2>6, <1>4, <1>10, <1>12
<1> QED
  BY <1>4, <1>10, <1>12

\* A transmission writes the one buffer there is.
LEMMA Sx1276Transmit ==
  ASSUME NEW c \in Chips, NEW f \in AllFrames, NEW r, r \in sx1276!transmit(c, f)
  PROVE  Moved(c, f, r.chip) /\ r.got = <<>>
<1>1. PICK s : /\ s \in sx1276!set_op_mode(sx1276!TxActive(c), "standby")
               /\ \/ ~s.ok /\ r = s
                  \/ s.ok /\ r \in sx1276!Then(
                                 sx1276!write_register(s.chip, sx1276!WriteFifo(s.chip, f)),
                                 LAMBDA e : sx1276!set_op_mode(e, "tx"))
  BY DEF sx1276!transmit, sx1276!Then
<1>2. ~s.ok => r = s
  BY <1>1 DEF sx1276!Then
<1>3. s.ok => \E t : /\ t \in sx1276!write_register(s.chip, sx1276!WriteFifo(s.chip, f))
                     /\ (~t.ok /\ r = t) \/ (t.ok /\ r \in sx1276!set_op_mode(t.chip, "tx"))
  BY <1>1 DEF sx1276!Then
<1>4. Kept(c, TxActive(c)) /\ TxActive(c) \in Chips
  BY StepsActive, StaysChip
<1>5. Kept(c, s.chip) /\ s.chip \in Chips /\ s.got = <<>>
  <2>1. sx1276!TxActive(c) = TxActive(c)
    BY DEF sx1276!TxActive, TxActive
  <2>2. Calm(TxActive(c), s)
    BY <1>1, <1>4, <2>1, Sx1276Mode
  <2> QED
    BY <2>2, <1>4, KeptTwice, StaysChip DEF Calm
<1>6. CASE s.ok
  <2>1. PICK t : /\ t \in sx1276!write_register(s.chip, sx1276!WriteFifo(s.chip, f))
                 /\ (~t.ok /\ r = t) \/ (t.ok /\ r \in sx1276!set_op_mode(t.chip, "tx"))
    BY <1>3, <1>6
  <2>2. sx1276!WriteFifo(s.chip, f) = WriteFifo(s.chip, f)
    BY DEF sx1276!WriteFifo, WriteFifo
  <2>3. Leads(t, s.chip, WriteFifo(s.chip, f))
    BY <2>1, <2>2, Sx1276Commands
  <2>4. t.chip \in Chips /\ t.got = <<>> /\ Moved(c, f, t.chip)
    BY <2>3, <1>5, StepsFifo DEF Leads, Kept, SameFrames, Moved
  <2>5. CASE r \in sx1276!set_op_mode(t.chip, "tx")
    <3>1. sx1276!SetMode(t.chip, "tx") = SetMode(t.chip, "tx")
      BY DEF sx1276!SetMode, SetMode
    <3>2. r \in sx1276!write_register(t.chip, SetMode(t.chip, "tx"))
      BY <2>5, <3>1 DEF sx1276!set_op_mode
    <3>3. Leads(r, t.chip, SetMode(t.chip, "tx"))
      BY <3>2, Sx1276Commands
    <3> QED
      BY <3>3, <2>4, StepsSend DEF Leads, Moved
  <2> QED
    BY <2>1, <2>4, <2>5
<1> QED
  BY <1>2, <1>5, <1>6, KeptMoved

\* A poll gives out at most the frame the chip holds, and then clears RX_DONE.
LEMMA Sx1276ProcessIrq ==
  ASSUME NEW c \in Chips, NEW r, r \in sx1276!process_irq(c)
  PROVE  Polled(c, r)
<1> DEFINE acted == {"tx_done", "rx_done", "crc_err"} \cap c.irq
           frame == IF "rx_done" \in c.irq /\ "crc_err" \notin c.irq THEN <<c.rx>> ELSE <<>>
           again(e) == IF acted = {} THEN {sx1276!Ok(e)} ELSE sx1276!start_receive(e)
           clear(d) == sx1276!Then(sx1276!clear_irq_flags(d, c.irq), LAMBDA e : again(e))
           calls == sx1276!Then(sx1276!read_fifo_payload(c), LAMBDA d : clear(d))
<1>1. r \in sx1276!read_register(c) \/ r \in sx1276!Returning(frame, calls)
  BY DEF sx1276!process_irq
<1>2. \A d : \A s : s \in again(d) => s = sx1276!Ok(d) \/ s \in sx1276!start_receive(d)
  OBVIOUS
<1> HIDE DEF again
<1>3. \A d : \A s : s \in clear(d) => \E t : /\ t \in sx1276!clear_irq_flags(d, c.irq)
                                             /\ (~t.ok /\ s = t) \/ (t.ok /\ s \in again(t.chip))
  BY DEF sx1276!Then
<1> HIDE DEF clear
<1>4. \A s : s \in calls => \E t : /\ t \in sx1276!read_fifo_payload(c)
                                   /\ (~t.ok /\ s = t) \/ (t.ok /\ s \in clear(t.chip))
  BY DEF sx1276!Then
<1> HIDE DEF calls
<1>5. ASSUME NEW s, s \in clear(c)
      PROVE  Kept(c, s.chip) /\ s.got = <<>> /\ (s.ok => s.chip.irq \cap c.irq = {})
  <2>1. PICK t : /\ t \in sx1276!clear_irq_flags(c, c.irq)
                 /\ (~t.ok /\ s = t) \/ (t.ok /\ s \in again(t.chip))
    BY <1>3, <1>5
  <2>2. Kept(c, t.chip) /\ t.got = <<>> /\ t.chip \in Chips /\ (t.ok => t.chip = ClearIrq(c, c.irq))
    BY <2>1, Sx1276Clear, StaysChip DEF Calm
  <2>3. CASE t.ok /\ s \in again(t.chip)
    <3>1. Kept(t.chip, s.chip) /\ s.got = <<>>
      <4>1. CASE s = sx1276!Ok(t.chip)
        BY <4>1, <2>2, StepsStay DEF sx1276!Ok
      <4>2. CASE s \in sx1276!start_receive(t.chip)
        BY <4>2, <2>2, Sx1276Receive
      <4> QED
        BY <4>1, <4>2, <2>3, <1>2
    <3>2. s.chip.irq \subseteq c.irq \ c.irq
      BY <3>1, <2>2, <2>3, StepsClear DEF Kept, SameFrames
    <3> QED
      BY <3>1, <3>2, <2>2, KeptTwice
  <2> QED
    BY <2>1, <2>2, <2>3
<1>6. ASSUME NEW s, s \in calls
      PROVE  Kept(c, s.chip) /\ s.got = <<>> /\ (s.ok => s.chip.irq \cap c.irq = {})
  <2>1. PICK t : /\ t \in sx1276!read_fifo_payload(c)
                 /\ (~t.ok /\ s = t) \/ (t.ok /\ s \in clear(t.chip))
    BY <1>4, <1>6
  <2>2. t.chip = c /\ t.got = <<>>
    BY <2>1, Sx1276Reads
  <2> QED
    BY <2>1, <2>2, <1>5, StepsStay
<1>7. CASE r \in sx1276!Returning(frame, calls)
  <2>1. PICK s : /\ s \in calls
                 /\ \/ ~s.ok /\ r = s
                    \/ s.ok /\ r.chip = s.chip /\ r.got = frame
    BY <1>7 DEF sx1276!Returning, sx1276!Ok
  <2> QED
    BY <2>1, <1>6 DEF Polled
<1>8. CASE r \in sx1276!read_register(c)
  BY <1>8, Sx1276Reads, StepsStay DEF Polled
<1> QED
  BY <1>1, <1>7, <1>8

\* Dropping the driver.
LEMMA Sx1276Drop ==
  ASSUME NEW c \in Chips, NEW d, d \in sx1276!drop(c)
  PROVE  Quiet(c, d)
BY StepsStay, StepsMode DEF sx1276!drop, sx1276!SetMode, SetMode

-----------------------------------------------------------------------------
(* LoRa: the LR1121 *)

\* A command has its effect or none.
LEMMA Lr1121Commands ==
  ASSUME NEW c, NEW d
  PROVE  /\ \A r \in lr1121!write_command(c, d) : Leads(r, c, d)
         /\ \A r \in lr1121!read_command(c) : Leads(r, c, c)
BY DEF Leads, lr1121!write_command, lr1121!read_command, lr1121!Then, lr1121!wait_ready, lr1121!xfer,
       lr1121!Ok, lr1121!Err

\* What only reads leaves the chip as it was.
LEMMA Lr1121Reads ==
  ASSUME NEW c \in Chips, NEW r,
         r \in lr1121!read_command(c)
         \/ r \in lr1121!ping(c)
         \/ r \in lr1121!apply_high_acp_workaround(c)
         \/ r \in lr1121!read_buffer(c)
  PROVE  r.chip = c /\ r.got = <<>> /\ Calm(c, r)
<1>1. Leads(r, c, c)
  BY Lr1121Commands DEF lr1121!ping, lr1121!apply_high_acp_workaround, lr1121!read_buffer
<1>2. r.chip = c /\ r.got = <<>>
  BY <1>1 DEF Leads
<1>3. Quiet(c, c) /\ Kept(c, c)
  BY StepsStay
<1> QED
  BY <1>2, <1>3 DEF Calm

\* Leaving the air.
LEMMA Lr1121Mode ==
  ASSUME NEW c \in Chips, NEW m \in {"standby", "sleep"}, NEW r,
         r \in lr1121!write_command(c, lr1121!SetMode(c, m))
  PROVE  Calm(c, r) /\ (r.ok => r.chip.mode = m /\ r.chip.cfg = c.cfg)
<1>1. Leads(r, c, SetMode(c, m))
  BY Lr1121Commands DEF lr1121!SetMode, SetMode
<1> QED
  BY <1>1, StepsMode, LeadsCalm DEF Leads

\* Clearing interrupts.
LEMMA Lr1121Clear ==
  ASSUME NEW c \in Chips, NEW S, NEW r, r \in lr1121!clear_irq_status(c, S)
  PROVE  Calm(c, r) /\ (r.ok => r.chip = ClearIrq(c, S))
<1>1. Leads(r, c, ClearIrq(c, S))
  BY Lr1121Commands DEF lr1121!clear_irq_status, lr1121!ClearIrq, ClearIrq
<1> QED
  BY <1>1, StepsClear, LeadsCalm DEF Leads

\* The command that starts reception.
LEMMA Lr1121Receives ==
  ASSUME NEW c \in Chips, NEW r, r \in lr1121!write_command(c, lr1121!SetMode(c, "rx"))
  PROVE  Kept(c, r.chip) /\ r.got = <<>> /\ (r.ok => r.chip.mode = "rx")
<1>1. Leads(r, c, SetMode(c, "rx"))
  BY Lr1121Commands DEF lr1121!SetMode, SetMode
<1> QED
  BY <1>1, StepsReceive, LeadsKept DEF Leads

\* The settings in a row: success means all of them.
LEMMA Lr1121SetAll ==
  ASSUME NEW c \in Chips, NEW first \in 1..13, NEW last \in 1..13, first <= last,
         NEW r, r \in lr1121!SetAll(c, first, last)
  PROVE  /\ Calm(c, r)
         /\ r.ok => r.chip.cfg = c.cfg \cup {lr1121!Settings[i] : i \in first..last}
<1>0. \A S : lr1121!Configure(c, S) = Configure(c, S)
  BY DEF lr1121!Configure, Configure
<1>1. PICK n : /\ n \in (first - 1)..last
               /\ r.chip = Configure(c, {lr1121!Settings[i] : i \in first..n})
               /\ r.got = <<>> /\ (r.ok => n = last)
  <2>1. last \in (first - 1)..last
    OBVIOUS
  <2>2. \/ r = lr1121!Ok(lr1121!Configure(c, {lr1121!Settings[i] : i \in first..last}))
        \/ \E n \in (first - 1)..last :
             r = lr1121!Err(lr1121!Configure(c, {lr1121!Settings[i] : i \in first..n}))
    BY DEF lr1121!SetAll
  <2> DEFINE Upto(n) == {lr1121!Settings[i] : i \in first..n}
  <2> HIDE DEF Upto
  <2>3. CASE r = lr1121!Ok(lr1121!Configure(c, Upto(last)))
    <3>1. r.chip = Configure(c, Upto(last)) /\ r.got = <<>>
      BY <2>3, <1>0 DEF lr1121!Ok
    <3> QED
      BY <3>1, <2>1 DEF Upto
  <2>4. ASSUME NEW n \in (first - 1)..last, r = lr1121!Err(lr1121!Configure(c, Upto(n)))
        PROVE  r.chip = Configure(c, Upto(n)) /\ r.got = <<>> /\ ~r.ok
    BY <2>4, <1>0 DEF lr1121!Err
  <2> QED
    BY <2>2, <2>3, <2>4 DEF Upto
<1>2. {lr1121!Settings[i] : i \in first..n} \in SUBSET SettingNames
  BY <1>1, SettingsNamed DEF SettingNames
<1> QED
  BY <1>1, <1>2, StepsConfigure DEF Calm

\* The reset line loses settings off air.
LEMMA Lr1121Reset ==
  ASSUME NEW c \in Chips, NEW r, r \in lr1121!hardware_reset(c)
  PROVE  Quiet(c, r.chip) /\ r.got = <<>>
<1>1. r.chip \in {c, ColdStart(c)} /\ r.got = <<>>
  BY DEF lr1121!hardware_reset, lr1121!ResetLine, lr1121!Ok, lr1121!Err, lr1121!ColdStart, ColdStart
<1> QED
  BY <1>1, StepsStay, StepsCold

\* start_receive: settings are kept, and success means the chip listens.
LEMMA Lr1121Receive ==
  ASSUME NEW c \in Chips, NEW r, r \in lr1121!start_receive(c)
  PROVE  Kept(c, r.chip) /\ r.got = <<>> /\ (r.ok => r.chip.mode = "rx")
<1> DEFINE ready == lr1121!Then(lr1121!apply_high_acp_workaround(c),
                       LAMBDA d : lr1121!write_command(d, lr1121!SetMode(d, "standby")))
           listen(d) == lr1121!Then(lr1121!write_command(d, lr1121!SetMode(d, "rx")),
                          LAMBDA e : {lr1121!Ok(lr1121!TxIdle(e))})
<1>1. \A s : s \in ready =>
        \E t : /\ t \in lr1121!apply_high_acp_workaround(c)
               /\ \/ ~t.ok /\ s = t
                  \/ t.ok /\ s \in lr1121!write_command(t.chip, lr1121!SetMode(t.chip, "standby"))
  BY DEF lr1121!Then
<1>2. \A d : \A s : s \in listen(d) =>
        \E t : /\ t \in lr1121!write_command(d, lr1121!SetMode(d, "rx"))
               /\ (~t.ok /\ s = t) \/ (t.ok /\ s = lr1121!Ok(lr1121!TxIdle(t.chip)))
  BY DEF lr1121!Then
<1>3. PICK s : s \in ready /\ ((~s.ok /\ r = s) \/ (s.ok /\ r \in listen(s.chip)))
  <2>1. r \in lr1121!Then(ready, LAMBDA d : listen(d))
    BY DEF lr1121!start_receive
  <2> HIDE DEF ready, listen
  <2> QED BY <2>1 DEF lr1121!Then
<1> HIDE DEF ready, listen
<1>4. Kept(c, s.chip) /\ s.got = <<>> /\ s.chip \in Chips
  <2>1. PICK t : /\ t \in lr1121!apply_high_acp_workaround(c)
                 /\ \/ ~t.ok /\ s = t
                    \/ t.ok /\ s \in lr1121!write_command(t.chip, lr1121!SetMode(t.chip, "standby"))
    BY <1>1, <1>3
  <2>2. t.chip = c /\ t.got = <<>>
    BY <2>1, Lr1121Reads
  <2>3. CASE s \in lr1121!write_command(t.chip, lr1121!SetMode(t.chip, "standby"))
    <3>1. Calm(c, s)
      BY <2>2, <2>3, Lr1121Mode
    <3> QED
      BY <3>1, StaysChip DEF Calm
  <2> QED
    BY <2>1, <2>2, <2>3, StepsStay
<1>5. CASE r \in listen(s.chip)
  <2>1. PICK u : /\ u \in lr1121!write_command(s.chip, lr1121!SetMode(s.chip, "rx"))
                 /\ (~u.ok /\ r = u) \/ (u.ok /\ r = lr1121!Ok(lr1121!TxIdle(u.chip)))
    BY <1>2, <1>5
  <2>2. Kept(s.chip, u.chip) /\ u.got = <<>> /\ (u.ok => u.chip.mode = "rx") /\ u.chip \in Chips
    BY <2>1, <1>4, Lr1121Receives, StaysChip
  <2>3. CASE ~u.ok
    BY <2>1, <2>2, <2>3, <1>4, KeptTwice
  <2>4. CASE u.ok
    <3>1. r.ok /\ r.chip = TxIdle(u.chip) /\ r.got = <<>>
      BY <2>1, <2>4 DEF lr1121!Ok, lr1121!TxIdle, TxIdle
    <3>2. Kept(u.chip, r.chip) /\ r.chip.mode = "rx"
      BY <3>1, <2>2, <2>4, StepsActive
    <3> QED
      BY <3>1, <3>2, <2>2, <1>4, KeptTwice
  <2> QED
    BY <2>3, <2>4
<1> QED
  BY <1>3, <1>4, <1>5

\* The interrupts are cleared and reception is armed again.
LEMMA Lr1121Rearm ==
  ASSUME NEW c \in Chips, NEW S, NEW r,
         r \in lr1121!Then(lr1121!clear_irq_status(c, S), lr1121!start_receive)
  PROVE  Kept(c, r.chip) /\ r.got = <<>> /\ (r.ok => r.chip.irq \cap S = {})
<1>1. PICK s : /\ s \in lr1121!clear_irq_status(c, S)
               /\ (~s.ok /\ r = s) \/ (s.ok /\ r \in lr1121!start_receive(s.chip))
  BY DEF lr1121!Then
<1>2. Kept(c, s.chip) /\ s.got = <<>> /\ s.chip \in Chips /\ (s.ok => s.chip = ClearIrq(c, S))
  BY <1>1, Lr1121Clear, StaysChip DEF Calm
<1>3. CASE ~s.ok
  BY <1>1, <1>2, <1>3
<1>4. CASE s.ok
  <2>1. Kept(s.chip, r.chip) /\ r.got = <<>>
    BY <1>1, <1>2, <1>4, Lr1121Receive
  <2>2. r.chip.irq \subseteq c.irq \ S
    BY <2>1, <1>2, <1>4, StepsClear DEF Kept, SameFrames
  <2> QED
    BY <2>1, <2>2, <1>2, KeptTwice
<1> QED
  BY <1>3, <1>4

\* A poll gives out at most the frame the chip holds, and then clears RX_DONE.
LEMMA Lr1121ProcessIrq ==
  ASSUME NEW c \in Chips, NEW r, r \in lr1121!process_irq(c)
  PROVE  Polled(c, r)
<1> DEFINE frame == IF "rx_done" \in c.irq /\ "crc_err" \notin c.irq THEN <<c.rx>> ELSE <<>>
           rearm(d) == lr1121!Then(lr1121!clear_irq_status(d, c.irq), lr1121!start_receive)
           calls == lr1121!Then(lr1121!read_buffer(c), LAMBDA d : rearm(d))
<1>1. r \in lr1121!read_command(c) \/ r \in lr1121!Returning(frame, calls)
  BY DEF lr1121!process_irq
<1>2. ASSUME NEW s, s \in rearm(c)
      PROVE  Kept(c, s.chip) /\ s.got = <<>> /\ (s.ok => s.chip.irq \cap c.irq = {})
  BY <1>2, Lr1121Rearm DEF lr1121!Then
<1> HIDE DEF rearm
<1>3. \A s : s \in calls => \E t : /\ t \in lr1121!read_buffer(c)
                                   /\ (~t.ok /\ s = t) \/ (t.ok /\ s \in rearm(t.chip))
  BY DEF lr1121!Then
<1> HIDE DEF calls
<1>4. ASSUME NEW s, s \in calls
      PROVE  Kept(c, s.chip) /\ s.got = <<>> /\ (s.ok => s.chip.irq \cap c.irq = {})
  <2>1. PICK t : /\ t \in lr1121!read_buffer(c)
                 /\ (~t.ok /\ s = t) \/ (t.ok /\ s \in rearm(t.chip))
    BY <1>3, <1>4
  <2>2. t.chip = c /\ t.got = <<>>
    BY <2>1, Lr1121Reads
  <2> QED
    BY <2>1, <2>2, <1>2, StepsStay
<1>5. CASE r \in lr1121!Returning(frame, calls)
  <2>1. PICK s : /\ s \in calls
                 /\ \/ ~s.ok /\ r = s
                    \/ s.ok /\ r.chip = s.chip /\ r.got = frame
    BY <1>5 DEF lr1121!Returning, lr1121!Ok
  <2> QED
    BY <2>1, <1>4 DEF Polled
<1>6. CASE r \in lr1121!read_command(c)
  BY <1>6, Lr1121Reads, StepsStay DEF Polled
<1> QED
  BY <1>1, <1>5, <1>6

\* Dropping the driver.
LEMMA Lr1121Drop ==
  ASSUME NEW c \in Chips, NEW d, d \in lr1121!drop(c)
  PROVE  Quiet(c, d)
BY StepsStay, StepsMode DEF lr1121!drop, lr1121!SetMode, SetMode

\* init: settings may be lost only off air, and success means all are written.
LEMMA Lr1121Init ==
  ASSUME NEW c \in Chips, NEW r, r \in lr1121!init(c)
  PROVE  Quiet(c, r.chip) /\ r.got = <<>> /\ (r.ok => Settings("lr1121") \subseteq r.chip.cfg)
<1> DEFINE reset == lr1121!hardware_reset(lr1121!TxIdle(c))
           woken == lr1121!Then(reset, lr1121!wake_to_standby_rc)
           awake == lr1121!Then(woken, lr1121!ping)
           base  == lr1121!Then(awake, LAMBDA d : lr1121!SetAll(d, 1, 6))
           tuned(d) == lr1121!Then(lr1121!enter_standby_xosc(d),
                                   LAMBDA e : lr1121!SetAll(e, 7, Len(lr1121!Settings)))
           done(d) == lr1121!Then(tuned(d), LAMBDA e : lr1121!clear_irq_status(e, lr1121!Irqs))
<1>1. \A s : s \in woken => \E t : /\ t \in reset
                                   /\ (~t.ok /\ s = t) \/ (t.ok /\ s \in lr1121!wake_to_standby_rc(t.chip))
  <2> HIDE DEF reset
  <2> QED BY DEF lr1121!Then
<1>2. \A s : s \in awake => \E t : /\ t \in woken
                                   /\ (~t.ok /\ s = t) \/ (t.ok /\ s \in lr1121!ping(t.chip))
  <2> HIDE DEF woken
  <2> QED BY DEF lr1121!Then
<1>3. \A s : s \in base => \E t : /\ t \in awake
                                  /\ (~t.ok /\ s = t) \/ (t.ok /\ s \in lr1121!SetAll(t.chip, 1, 6))
  <2> HIDE DEF awake
  <2> QED BY DEF lr1121!Then
<1>4. \A d : \A s : s \in tuned(d) =>
        \E t : /\ t \in lr1121!enter_standby_xosc(d)
               /\ \/ ~t.ok /\ s = t
                  \/ t.ok /\ s \in lr1121!SetAll(t.chip, 7, Len(lr1121!Settings))
  BY DEF lr1121!Then
<1>5. \A d : \A s : s \in done(d) =>
        \E t : /\ t \in tuned(d)
               /\ (~t.ok /\ s = t) \/ (t.ok /\ s \in lr1121!clear_irq_status(t.chip, lr1121!Irqs))
  <2> HIDE DEF tuned
  <2> QED BY DEF lr1121!Then
<1>6. PICK s : s \in base /\ ((~s.ok /\ r = s) \/ (s.ok /\ r \in done(s.chip)))
  <2>1. r \in lr1121!Then(base, LAMBDA d : done(d))
    BY DEF lr1121!init
  <2> HIDE DEF base, done
  <2> QED BY <2>1 DEF lr1121!Then
<1> HIDE DEF woken, awake, base, tuned, done
<1>7. Quiet(c, TxIdle(c)) /\ TxIdle(c) \in Chips
  BY StepsActive, StaysChip
<1>8. ASSUME NEW t, t \in reset PROVE Quiet(c, t.chip) /\ t.got = <<>>
  <2>1. lr1121!TxIdle(c) = TxIdle(c)
    BY DEF lr1121!TxIdle, TxIdle
  <2> QED
    BY <1>7, <1>8, <2>1, Lr1121Reset, QuietTwice
<1>9. ASSUME NEW t, t \in woken PROVE Quiet(c, t.chip) /\ t.got = <<>>
  <2>1. PICK u : /\ u \in reset
                 /\ (~u.ok /\ t = u) \/ (u.ok /\ t \in lr1121!wake_to_standby_rc(u.chip))
    BY <1>1, <1>9
  <2>2. Quiet(c, u.chip) /\ u.got = <<>> /\ u.chip \in Chips
    BY <2>1, <1>8, StaysChip
  <2>3. CASE t \in lr1121!wake_to_standby_rc(u.chip)
    <3>1. Calm(u.chip, t)
      BY <2>2, <2>3, Lr1121Mode DEF lr1121!wake_to_standby_rc
    <3> QED
      BY <3>1, <2>2, QuietTwice DEF Calm
  <2> QED
    BY <2>1, <2>2, <2>3
<1>10. ASSUME NEW t, t \in awake PROVE Quiet(c, t.chip) /\ t.got = <<>>
  BY <1>2, <1>9, <1>10, Lr1121Reads, StaysChip
<1>11. ASSUME NEW t, t \in base
       PROVE  /\ Quiet(c, t.chip) /\ t.got = <<>>
              /\ t.ok => {lr1121!Settings[i] : i \in 1..6} \subseteq t.chip.cfg
  <2>1. PICK u : /\ u \in awake
                 /\ (~u.ok /\ t = u) \/ (u.ok /\ t \in lr1121!SetAll(u.chip, 1, 6))
    BY <1>3, <1>11
  <2>2. Quiet(c, u.chip) /\ u.got = <<>> /\ u.chip \in Chips
    BY <2>1, <1>10, StaysChip
  <2>3. CASE t \in lr1121!SetAll(u.chip, 1, 6)
    <3>1. /\ Calm(u.chip, t)
          /\ t.ok => t.chip.cfg = u.chip.cfg \cup {lr1121!Settings[i] : i \in 1..6}
      BY <2>2, <2>3, Lr1121SetAll
    <3> QED
      BY <3>1, <2>2, QuietTwice DEF Calm
  <2> QED
    BY <2>1, <2>2, <2>3
<1>12. Quiet(c, s.chip) /\ s.got = <<>> /\ s.chip \in Chips
  BY <1>6, <1>11, StaysChip
<1>13. CASE s.ok /\ r \in done(s.chip)
  <2>1. {lr1121!Settings[i] : i \in 1..6} \subseteq s.chip.cfg
    BY <1>6, <1>11, <1>13
  <2>2. PICK t : /\ t \in tuned(s.chip)
                 /\ (~t.ok /\ r = t) \/ (t.ok /\ r \in lr1121!clear_irq_status(t.chip, lr1121!Irqs))
    BY <1>5, <1>13
  <2>3. PICK u : /\ u \in lr1121!enter_standby_xosc(s.chip)
                 /\ (~u.ok /\ t = u) \/ (u.ok /\ t \in lr1121!SetAll(u.chip, 7, 13))
    BY <2>2, <1>4, SettingsNamed
  <2>4. Calm(s.chip, u) /\ u.chip \in Chips
    BY <2>3, <1>12, Lr1121Mode, StaysChip DEF lr1121!enter_standby_xosc, Calm
  <2>5. Calm(s.chip, t) /\ (t.ok => Settings("lr1121") \subseteq t.chip.cfg)
    <3>1. CASE u.ok /\ t \in lr1121!SetAll(u.chip, 7, 13)
      <4>1. /\ Calm(u.chip, t)
            /\ t.ok => t.chip.cfg = u.chip.cfg \cup {lr1121!Settings[i] : i \in 7..13}
        BY <2>4, <3>1, Lr1121SetAll
      <4>2. \A i \in 1..13 : i \in 1..6 \/ i \in 7..13
        OBVIOUS
      <4>3. s.chip.cfg \subseteq u.chip.cfg
        BY <2>4 DEF Calm, Kept
      <4>4. t.ok => Settings("lr1121") \subseteq t.chip.cfg
        BY <4>1, <4>2, <4>3, <2>1, SettingsNamed
      <4> QED
        BY <4>1, <4>4, <2>4, CalmTwice
    <3> QED
      BY <3>1, <2>3, <2>4
  <2>6. t.chip \in Chips
    BY <2>5, StaysChip DEF Calm
  <2>7. CASE t.ok /\ r \in lr1121!clear_irq_status(t.chip, lr1121!Irqs)
    <3>1. Calm(t.chip, r)
      BY <2>6, <2>7, Lr1121Clear
    <3>2. Quiet(s.chip, r.chip) /\ r.got = <<>>
      BY <3>1, <2>5, CalmTwice DEF Calm
    <3>3. Settings("lr1121") \subseteq r.chip.cfg
      BY <3>1, <2>5, <2>7 DEF Calm, Kept
    <3> QED
      BY <3>2, <3>3, <1>12, QuietTwice
  <2> QED
    BY <2>2, <2>5, <2>7, <1>12, QuietTwice DEF Calm
<1> QED
  BY <1>6, <1>11, <1>13

\* A transmission leaves the receive buffer alone.
LEMMA Lr1121Transmit ==
  ASSUME NEW c \in Chips, NEW f \in AllFrames, NEW r, r \in lr1121!transmit(c, f)
  PROVE  Moved(c, f, r.chip) /\ r.got = <<>>
<1> DEFINE loaded == lr1121!write_buffer(lr1121!TxActive(c), f)
           ready(d) == lr1121!Then(lr1121!apply_high_acp_workaround(d),
                         LAMBDA e : lr1121!write_command(e, lr1121!SetMode(e, "standby")))
           send(d) == lr1121!Then(ready(d), LAMBDA e : lr1121!write_command(e, lr1121!SetMode(e, "tx")))
<1>1. \A d : \A s : s \in ready(d) =>
        \E t : /\ t \in lr1121!apply_high_acp_workaround(d)
               /\ \/ ~t.ok /\ s = t
                  \/ t.ok /\ s \in lr1121!write_command(t.chip, lr1121!SetMode(t.chip, "standby"))
  BY DEF lr1121!Then
<1>2. \A d : \A s : s \in send(d) =>
        \E t : /\ t \in ready(d)
               /\ \/ ~t.ok /\ s = t
                  \/ t.ok /\ s \in lr1121!write_command(t.chip, lr1121!SetMode(t.chip, "tx"))
  <2> HIDE DEF ready
  <2> QED BY DEF lr1121!Then
<1>3. PICK s : s \in loaded /\ ((~s.ok /\ r = s) \/ (s.ok /\ r \in send(s.chip)))
  <2>1. r \in lr1121!Then(loaded, LAMBDA d : send(d))
    BY DEF lr1121!transmit
  <2> HIDE DEF loaded, send
  <2> QED BY <2>1 DEF lr1121!Then
<1> HIDE DEF ready, send
<1>4. Kept(c, TxActive(c)) /\ TxActive(c) \in Chips
  BY StepsActive, StaysChip
<1>5. s.chip \in Chips /\ s.got = <<>> /\ Moved(c, f, s.chip)
  <2>1. lr1121!TxActive(c) = TxActive(c)
    BY DEF lr1121!TxActive, TxActive
  <2> DEFINE d == [TxActive(c) EXCEPT !.tx = f]
  <2>2. Leads(s, TxActive(c), d)
    BY <1>3, <2>1, Lr1121Commands DEF lr1121!write_buffer
  <2>3. d \in Chips /\ d.rx = TxActive(c).rx /\ d.irq = TxActive(c).irq /\ d.cfg = TxActive(c).cfg
    BY <1>4 DEF Chips, Buffers
  <2> HIDE DEF d
  <2> QED
    BY <2>2, <2>3, <1>4 DEF Leads, Kept, SameFrames, Moved
<1>6. CASE s.ok /\ r \in send(s.chip)
  <2>1. PICK t : /\ t \in ready(s.chip)
                 /\ \/ ~t.ok /\ r = t
                    \/ t.ok /\ r \in lr1121!write_command(t.chip, lr1121!SetMode(t.chip, "tx"))
    BY <1>2, <1>6
  <2>2. PICK u : /\ u \in lr1121!apply_high_acp_workaround(s.chip)
                 /\ \/ ~u.ok /\ t = u
                    \/ u.ok /\ t \in lr1121!write_command(u.chip, lr1121!SetMode(u.chip, "standby"))
    BY <2>1, <1>1
  <2>3. u.chip = s.chip /\ u.got = <<>>
    BY <2>2, <1>5, Lr1121Reads
  <2>4. Kept(s.chip, t.chip) /\ t.got = <<>>
    <3>1. CASE t \in lr1121!write_command(u.chip, lr1121!SetMode(u.chip, "standby"))
      BY <3>1, <2>3, <1>5, Lr1121Mode DEF Calm
    <3> QED
      BY <3>1, <2>2, <2>3, <1>5, StepsStay
  <2>5. t.chip \in Chips /\ Moved(c, f, t.chip)
    BY <2>4, <1>5, MovedKept, StaysChip
  <2>6. CASE r \in lr1121!write_command(t.chip, lr1121!SetMode(t.chip, "tx"))
    <3>1. lr1121!SetMode(t.chip, "tx") = SetMode(t.chip, "tx")
      BY DEF lr1121!SetMode, SetMode
    <3>2. Leads(r, t.chip, SetMode(t.chip, "tx"))
      BY <2>6, <3>1, Lr1121Commands
    <3> QED
      BY <3>2, <2>5, StepsSend DEF Leads, Moved
  <2> QED
    BY <2>1, <2>4, <2>5, <2>6
<1> QED
  BY <1>3, <1>5, <1>6

-----------------------------------------------------------------------------
(* LoRa: the driver in use *)

\* LoRaChipset::init settles every setting when it succeeds.
LEMMA CallInit ==
  ASSUME chipset \in ChipsetNames, NEW c \in Chips, NEW r, r \in ChipInit(c)
  PROVE  Quiet(c, r.chip) /\ r.got = <<>> /\ (r.ok => Settings(chipset) \subseteq r.chip.cfg)
<1>1. CASE chipset = "sx1262"
  BY <1>1, Sx1262Init DEF ChipInit
<1>2. CASE chipset = "sx1276"
  BY <1>2, Sx1276Init DEF ChipInit
<1>3. CASE chipset = "lr1121"
  BY <1>3, Lr1121Init DEF ChipInit
<1> QED
  BY <1>1, <1>2, <1>3 DEF ChipsetNames

\* LoRaChipset::start_receive.
LEMMA CallReceive ==
  ASSUME chipset \in ChipsetNames, NEW c \in Chips, NEW r, r \in StartReceive(c)
  PROVE  Kept(c, r.chip) /\ r.got = <<>> /\ (r.ok => r.chip.mode = "rx")
<1>1. CASE chipset = "sx1262"
  BY <1>1, Sx1262Receive DEF StartReceive
<1>2. CASE chipset = "sx1276"
  BY <1>2, Sx1276Receive DEF StartReceive
<1>3. CASE chipset = "lr1121"
  BY <1>3, Lr1121Receive DEF StartReceive
<1> QED
  BY <1>1, <1>2, <1>3 DEF ChipsetNames

\* LoRaChipset::transmit.
LEMMA CallTransmit ==
  ASSUME chipset \in ChipsetNames, NEW c \in Chips, NEW f \in AllFrames, NEW r, r \in Transmit(c, f)
  PROVE  Moved(c, f, r.chip) /\ r.got = <<>>
<1>1. CASE chipset = "sx1262"
  BY <1>1, Sx1262Transmit DEF Transmit
<1>2. CASE chipset = "sx1276"
  BY <1>2, Sx1276Transmit DEF Transmit
<1>3. CASE chipset = "lr1121"
  BY <1>3, Lr1121Transmit DEF Transmit
<1> QED
  BY <1>1, <1>2, <1>3 DEF ChipsetNames

\* LoRaChipset::process_irq.
LEMMA CallProcessIrq ==
  ASSUME chipset \in ChipsetNames, NEW c \in Chips, NEW r, r \in ProcessIrq(c)
  PROVE  Polled(c, r)
<1>1. CASE chipset = "sx1262"
  BY <1>1, Sx1262ProcessIrq DEF ProcessIrq
<1>2. CASE chipset = "sx1276"
  BY <1>2, Sx1276ProcessIrq DEF ProcessIrq
<1>3. CASE chipset = "lr1121"
  BY <1>3, Lr1121ProcessIrq DEF ProcessIrq
<1> QED
  BY <1>1, <1>2, <1>3 DEF ChipsetNames

\* The driver dropped.
LEMMA CallDrop ==
  ASSUME chipset \in ChipsetNames, NEW c \in Chips, NEW d, d \in Dropped(c)
  PROVE  Quiet(c, d)
<1>1. CASE chipset = "sx1262"
  BY <1>1, Sx1262Drop DEF Dropped
<1>2. CASE chipset = "sx1276"
  BY <1>2, Sx1276Drop DEF Dropped
<1>3. CASE chipset = "lr1121"
  BY <1>3, Lr1121Drop DEF Dropped
<1> QED
  BY <1>1, <1>2, <1>3 DEF ChipsetNames

\* The last user lets go of the chip, or another one keeps it.
LEMMA CallRelease ==
  ASSUME chipset \in ChipsetNames, NEW c \in Chips, NEW users, NEW d, d \in Released(c, users)
  PROVE  /\ Quiet(c, d)
         /\ phase \in {"run", "closing"} \/ users # {} => d = c
<1>1. d = c => Quiet(c, d)
  BY StepsStay
<1>2. d \in Dropped(c) => Quiet(c, d)
  BY CallDrop
<1> QED
  BY <1>1, <1>2 DEF Released

\* open_chipset: build, init, start_receive.
LEMMA CallOpen ==
  ASSUME chipset \in ChipsetNames, NEW c \in Chips, NEW r,
         r \in Then(Then(build(c), ChipInit), StartReceive)
  PROVE  /\ SameFrames(c, r.chip) /\ r.got = <<>>
         /\ r.chip.mode = "tx" => c.mode = "tx"
         /\ r.ok => Settings(chipset) \subseteq r.chip.cfg
         /\ r.chip.mode \in {"rx", "tx"} =>
              Settings(chipset) \subseteq r.chip.cfg \/ (c.mode \in {"rx", "tx"} /\ c.cfg \subseteq r.chip.cfg)
<1> DEFINE ready == Then(build(c), ChipInit)
<1>1. \A s : s \in ready => \E t : /\ t \in build(c)
                                   /\ (~t.ok /\ s = t) \/ (t.ok /\ s \in ChipInit(t.chip))
  BY DEF Then
<1> HIDE DEF ready
<1>2. PICK s : s \in ready /\ ((~s.ok /\ r = s) \/ (s.ok /\ r \in StartReceive(s.chip)))
  <2>1. r \in Then(ready, StartReceive)
    BY DEF ready
  <2> QED BY <2>1 DEF Then
<1>3. /\ Quiet(c, s.chip) /\ s.got = <<>> /\ s.chip \in Chips
      /\ s.ok => Settings(chipset) \subseteq s.chip.cfg
  <2>1. PICK t : /\ t \in build(c)
                 /\ (~t.ok /\ s = t) \/ (t.ok /\ s \in ChipInit(t.chip))
    BY <1>1, <1>2
  <2>2. t.chip = c /\ t.got = <<>>
    BY <2>1 DEF build, Ok, Err
  <2>3. CASE t.ok /\ s \in ChipInit(t.chip)
    BY <2>2, <2>3, CallInit, StaysChip
  <2>4. CASE ~t.ok /\ s = t
    BY <2>2, <2>4, StepsStay
  <2> QED
    BY <2>1, <2>3, <2>4
<1>4. CASE ~s.ok /\ r = s
  BY <1>3, <1>4 DEF Quiet, SameFrames
<1>5. CASE s.ok /\ r \in StartReceive(s.chip)
  <2>1. Kept(s.chip, r.chip) /\ r.got = <<>>
    BY <1>3, <1>5, CallReceive
  <2>2. Settings(chipset) \subseteq r.chip.cfg
    BY <2>1, <1>3, <1>5 DEF Kept
  <2>3. SameFrames(c, r.chip)
    BY <2>1, <1>3 DEF Kept, Quiet, SameFrames
  <2>4. r.chip.mode = "tx" => c.mode = "tx"
    BY <2>1, <1>3 DEF Kept, Quiet
  <2> QED
    BY <2>1, <2>2, <2>3, <2>4
<1> QED
  BY <1>2, <1>4, <1>5

-----------------------------------------------------------------------------
(* LoRa: frames *)

\* What a packet is.
LEMMA OwnPackets ==
  /\ \A n \in 1..Own : <<"own", n>> \in Packets
  /\ \A n \in 1..Peer : <<"peer", n>> \in Packets
  /\ \A p \in Packets : \/ p[1] = "own" /\ p[2] \in 1..Own /\ p = <<"own", p[2]>>
                        \/ p[1] = "peer" /\ p[2] \in 1..Peer /\ p = <<"peer", p[2]>>
BY DEF Packets

\* frames_for_tx: one frame, or two halves.
LEMMA FramesOf ==
  ASSUME NEW p \in Packets
  PROVE  /\ frames_for_tx(p) \in Seq(AllFrames) /\ frames_for_tx(p) # <<>>
         /\ \/ p \in Split /\ frames_for_tx(p) = <<Frame(p, 1), Frame(p, 2)>>
            \/ p \notin Split /\ frames_for_tx(p) = <<Frame(p, 0)>>
         /\ Range(frames_for_tx(p)) \subseteq AllFrames
<1>1. Range(frames_for_tx(p)) \subseteq AllFrames
  BY DEF AllFrames
<1>2. \/ p \in Split /\ frames_for_tx(p) = <<Frame(p, 1), Frame(p, 2)>>
      \/ p \notin Split /\ frames_for_tx(p) = <<Frame(p, 0)>>
  BY DEF frames_for_tx
<1>3. CASE p \in Split
  <2>1. Frame(p, 1) \in Range(frames_for_tx(p)) /\ Frame(p, 2) \in Range(frames_for_tx(p))
    BY <1>2, <1>3 DEF Range
  <2>2. Frame(p, 1) \in AllFrames /\ Frame(p, 2) \in AllFrames
    BY <2>1, <1>1
  <2>3. <<Frame(p, 1), Frame(p, 2)>> \in Seq(AllFrames) /\ <<Frame(p, 1), Frame(p, 2)>> # <<>>
    BY <2>2
  <2> QED
    BY <2>3, <1>1, <1>2, <1>3
<1>4. CASE p \notin Split
  <2>1. Frame(p, 0) \in Range(frames_for_tx(p))
    BY <1>2, <1>4 DEF Range
  <2>2. Frame(p, 0) \in AllFrames
    BY <2>1, <1>1
  <2>3. <<Frame(p, 0)>> \in Seq(AllFrames) /\ <<Frame(p, 0)>> # <<>>
    BY <2>2
  <2> QED
    BY <2>3, <1>1, <1>2, <1>4
<1> QED
  BY <1>3, <1>4

\* What a frame is.
LEMMA FrameParts ==
  /\ \A p \in Packets : /\ p \in Split => Frame(p, 1) \in AllFrames /\ Frame(p, 2) \in AllFrames
                        /\ p \notin Split => Frame(p, 0) \in AllFrames
  /\ \A f \in AllFrames :
       /\ f.packet \in Packets /\ f = Frame(f.packet, f.half)
       /\ \/ f.packet \in Split /\ f.half \in {1, 2}
          \/ f.packet \notin Split /\ f.half = 0
<1>1. ASSUME NEW p \in Packets
      PROVE  /\ p \in Split => Frame(p, 1) \in AllFrames /\ Frame(p, 2) \in AllFrames
             /\ p \notin Split => Frame(p, 0) \in AllFrames
             /\ \A f \in Range(frames_for_tx(p)) :
                  \/ p \in Split /\ f \in {Frame(p, 1), Frame(p, 2)}
                  \/ p \notin Split /\ f = Frame(p, 0)
  <2>1. CASE p \in Split
    <3>1. Range(frames_for_tx(p)) = {Frame(p, 1), Frame(p, 2)}
      BY <2>1 DEF Range, frames_for_tx
    <3> QED
      BY <3>1, <2>1, FramesOf
  <2>2. CASE p \notin Split
    <3>1. Range(frames_for_tx(p)) = {Frame(p, 0)}
      BY <2>2 DEF Range, frames_for_tx
    <3> QED
      BY <3>1, <2>2, FramesOf
  <2> QED
    BY <2>1, <2>2
<1>2. ASSUME NEW f \in AllFrames
      PROVE  /\ f.packet \in Packets /\ f = Frame(f.packet, f.half)
             /\ \/ f.packet \in Split /\ f.half \in {1, 2}
                \/ f.packet \notin Split /\ f.half = 0
  <2>1. PICK p : p \in Packets /\ f \in Range(frames_for_tx(p))
    BY DEF AllFrames
  <2>2. \/ p \in Split /\ f \in {Frame(p, 1), Frame(p, 2)}
        \/ p \notin Split /\ f = Frame(p, 0)
    BY <2>1, <1>1
  <2> QED
    BY <2>1, <2>2 DEF Frame
<1> QED
  BY <1>1, <1>2

\* The peer's frames in turn.
LEMMA NextFrame ==
  ASSUME NEW n \in Nat \ {0}
  PROVE  /\ FirstOf(n).packet = <<"peer", n>> /\ FirstOf(n).half \in {0, 1}
         /\ FirstOf(n).half = 1 <=> <<"peer", n>> \in Split
         /\ n <= Peer => FirstOf(n) \in AllFrames
<1>1. /\ FirstOf(n).packet = <<"peer", n>> /\ FirstOf(n).half \in {0, 1}
      /\ FirstOf(n).half = 1 <=> <<"peer", n>> \in Split
  BY DEF FirstOf, frames_for_tx, Frame
<1>2. CASE n <= Peer
  <2>1. <<"peer", n>> \in Packets
    BY <1>2, OwnPackets, LoRaAssumption
  <2>2. FirstOf(n) = Frame(<<"peer", n>>, FirstOf(n).half)
    BY DEF FirstOf, frames_for_tx, Frame
  <2> QED
    BY <2>1, <2>2, <1>1, FrameParts
<1> QED
  BY <1>1, <1>2

\* What follows the next frame is the next frame.
LEMMA AfterNext ==
  ASSUME NextType
  PROVE  /\ AfterFrame(next).packet = <<"peer", AfterFrame(next).packet[2]>>
         /\ AfterFrame(next).packet[2] \in Nat \ {0}
         /\ AfterFrame(next).half \in 0..2
         /\ AfterFrame(next).packet[2] <= Peer => AfterFrame(next) \in AllFrames
         /\ AfterFrame(next).half = 1 => AfterFrame(next).packet \in Split
         /\ \/ AfterFrame(next).packet = next.packet /\ next.half = 1 /\ AfterFrame(next).half = 2
            \/ AfterFrame(next).packet[2] = next.packet[2] + 1
<1>1. CASE next.half = 1
  <2>1. AfterFrame(next) = Frame(next.packet, 2)
    BY <1>1 DEF AfterFrame
  <2>2. AfterFrame(next).packet = next.packet /\ AfterFrame(next).half = 2
    BY <2>1 DEF Frame
  <2>3. next.packet \in Split /\ next.packet \in Packets
    BY <1>1, LoRaAssumption DEF NextType
  <2>4. AfterFrame(next) \in AllFrames
    BY <2>1, <2>3, FrameParts
  <2> QED
    BY <2>2, <2>4, <1>1 DEF NextType
<1>2. CASE next.half # 1
  <2>1. next.packet[2] + 1 \in Nat \ {0}
    BY DEF NextType
  <2>2. AfterFrame(next) = FirstOf(next.packet[2] + 1)
    BY <1>2 DEF AfterFrame
  <2> DEFINE n == next.packet[2] + 1
  <2> HIDE DEF n
  <2>3. n \in Nat \ {0} /\ AfterFrame(next) = FirstOf(n)
    BY <2>1, <2>2 DEF n
  <2>4. AfterFrame(next).packet = <<"peer", n>> /\ AfterFrame(next).packet[2] = n
    <3>1. FirstOf(n).packet = <<"peer", n>>
      BY <2>3, NextFrame
    <3>2. <<"peer", n>>[2] = n
      OBVIOUS
    <3>3. AfterFrame(next).packet = <<"peer", n>>
      BY <3>1, <2>3
    <3> QED
      BY <3>3, <3>2
  <2>5. AfterFrame(next).half \in 0..2 /\ (AfterFrame(next).half = 1 => <<"peer", n>> \in Split)
    BY <2>3, NextFrame
  <2>6. n <= Peer => AfterFrame(next) \in AllFrames
    BY <2>3, NextFrame
  <2> QED
    BY <2>3, <2>4, <2>5, <2>6 DEF n
<1> QED
  BY <1>1, <1>2

\* What the air does to the chip.
LEMMA StepsRxDone ==
  ASSUME NEW c \in Chips, NEW f \in AllFrames
  PROVE  /\ RxDone(c, f) \in Chips
         /\ RxDone(c, f).mode = c.mode /\ RxDone(c, f).cfg = c.cfg /\ RxDone(c, f).rx = f
         /\ RxDone(c, f).sent = c.sent /\ RxDone(c, f).tx = c.tx
<1>1. c.irq \cup {"rx_done"} \in SUBSET Irqs
  BY DEF Chips, Irqs
<1> QED
  BY <1>1 DEF Chips, RxDone, Buffers

\* A broken frame is latched as a frame, or not at all.
LEMMA StepsRxBroken ==
  ASSUME NEW c \in Chips, NEW f \in AllFrames, NEW how \in {"crc_err", "header_err"}
  PROVE  /\ RxBroken(c, f, how) \in Chips
         /\ RxBroken(c, f, how).mode = c.mode /\ RxBroken(c, f, how).cfg = c.cfg
         /\ RxBroken(c, f, how).sent = c.sent /\ RxBroken(c, f, how).tx = c.tx
         /\ \/ RxBroken(c, f, how).rx = f
            \/ /\ RxBroken(c, f, how).rx = c.rx
               /\ "rx_done" \in RxBroken(c, f, how).irq => "rx_done" \in c.irq
<1>1. CASE how = "crc_err"
  <2>1. c.irq \cup {"rx_done", "crc_err"} \in SUBSET Irqs
    BY DEF Chips, Irqs
  <2>2. RxBroken(c, f, how) = [c EXCEPT !.rx = f, !.irq = @ \cup {"rx_done", "crc_err"}]
    BY <1>1 DEF RxBroken
  <2> QED
    BY <2>1, <2>2 DEF Chips, Buffers
<1>2. CASE how = "header_err"
  <2>1. c.irq \cup {"header_err"} \in SUBSET Irqs
    BY DEF Chips, Irqs
  <2>2. RxBroken(c, f, how) = [c EXCEPT !.irq = @ \cup {"header_err"}]
    BY <1>2 DEF RxBroken
  <2> QED
    BY <2>1, <2>2 DEF Chips
<1> QED
  BY <1>1, <1>2

-----------------------------------------------------------------------------
(* LoRa: in service the chip is configured *)

\* Initially the chip is off air.
LEMMA ServiceStart ==
  ASSUME LoRaInit
  PROVE  ServiceInv
<1>1. radio \in Chips
  <2>1. {} \in SUBSET Irqs /\ {} \in SUBSET SettingNames /\ <<>> \in Seq(Buffers) /\ NoFrame \in Buffers
    BY DEF Buffers
  <2> QED
    BY <2>1 DEF LoRaInit, PowerUp, Chips
<1>2. radio.mode = "standby"
  BY DEF LoRaInit, PowerUp
<1>3. SendType
  BY LoRaAssumption DEF LoRaInit, SendType
<1>4. NextType
  <2>1. next = FirstOf(1) /\ 1 \in Nat \ {0}
    BY DEF LoRaInit
  <2>2. FirstOf(1).packet = <<"peer", 1>> /\ <<"peer", 1>>[2] = 1
    <3>1. FirstOf(1).packet = <<"peer", 1>>
      BY <2>1, NextFrame
    <3> QED
      BY <3>1, Zenon
  <2>3. next.packet = <<"peer", 1>> /\ next.packet[2] = 1
    BY <2>1, <2>2
  <2>4. next.half \in {0, 1} /\ (next.half = 1 <=> <<"peer", 1>> \in Split) /\ (1 <= Peer => next \in AllFrames)
    BY <2>1, NextFrame
  <2> QED
    BY <2>1, <2>3, <2>4 DEF NextType
<1>5. chipset \in ChipsetNames
  BY LoRaAssumption DEF LoRaInit, ChipsetNames
<1>6. phase = "start" /\ tasks = {} /\ frames = <<>>
  BY DEF LoRaInit
<1> QED
  BY <1>1, <1>2, <1>3, <1>4, <1>5, <1>6 DEF ServiceInv, TasksType, InUse

\* A step of the service loop or of the channel that leaves the chip alone.
LEMMA ServiceAside ==
  ASSUME ServiceInv, UNCHANGED <<chipset, radio, next>>, SendType', TasksType', InUse' => InUse
  PROVE  ServiceInv'
<1>1. NextType'
  BY DEF ServiceInv, NextType
<1> QED
  BY <1>1 DEF ServiceInv

\* A driver call that may lose settings, but not on air.
LEMMA ServiceQuiet ==
  ASSUME ServiceInv, UNCHANGED <<chipset, next>>, SendType', TasksType', ~InUse',
         NEW c \in Chips, c.mode \in {"rx", "tx"} => Settings(chipset) \subseteq c.cfg,
         Quiet(c, radio')
  PROVE  ServiceInv'
<1>1. NextType'
  BY DEF ServiceInv, NextType
<1>2. radio'.mode \in {"rx", "tx"} => Settings(chipset) \subseteq radio'.cfg
  BY DEF Quiet
<1>3. radio' \in Chips
  BY StaysChip
<1> QED
  BY <1>1, <1>2, <1>3 DEF ServiceInv

\* A step in service that keeps the settings.
LEMMA ServiceKept ==
  ASSUME ServiceInv, UNCHANGED <<chipset, next>>, SendType', TasksType', radio' \in Chips,
         Settings(chipset) \subseteq radio'.cfg
  PROVE  ServiceInv'
<1>1. NextType'
  BY DEF ServiceInv, NextType
<1> QED
  BY <1>1 DEF ServiceInv

\* A call of a task, which may be the last user of the chip.
LEMMA ServiceReleased ==
  ASSUME ServiceInv, UNCHANGED <<chipset, next>>, SendType', TasksType',
         NEW c \in Chips, Settings(chipset) \subseteq c.cfg, radio' \in Released(c, tasks'),
         phase' \in {"run", "closing"} => phase \in {"run", "closing"}
  PROVE  ServiceInv'
<1>1. chipset \in ChipsetNames
  BY DEF ServiceInv
<1>2. Quiet(c, radio') /\ (phase \in {"run", "closing"} \/ tasks' # {} => radio' = c)
  BY <1>1, CallRelease
<1>3. CASE InUse'
  BY <1>2, <1>3, ServiceKept DEF InUse
<1>4. CASE ~InUse'
  BY <1>2, <1>4, ServiceQuiet
<1> QED
  BY <1>3, <1>4

\* open_chipset comes into service configured, or stays off air.
LEMMA ServiceOpen ==
  ASSUME ServiceInv, OpenChipset
  PROVE  ServiceInv'
<1>1. PICK r : /\ r \in Then(Then(build(radio), ChipInit), StartReceive)
               /\ \/ r.ok /\ phase' = "run" /\ tasks' = {"poll", "tx"} /\ radio' = r.chip
                  \/ ~r.ok /\ phase' = "wait" /\ tasks' = tasks /\ radio' \in Dropped(r.chip)
  BY DEF OpenChipset
<1>2. /\ chipset \in ChipsetNames /\ radio \in Chips /\ UNCHANGED <<chipset, next>>
      /\ tasks = {} /\ frames = <<>> /\ frames' = <<>>
  BY DEF ServiceInv, OpenChipset, TasksType, fixed, air, sending
<1>3. /\ SameFrames(radio, r.chip)
      /\ r.ok => Settings(chipset) \subseteq r.chip.cfg
      /\ r.chip.mode \in {"rx", "tx"} =>
           Settings(chipset) \subseteq r.chip.cfg \/ (radio.mode \in {"rx", "tx"} /\ radio.cfg \subseteq r.chip.cfg)
  BY <1>1, <1>2, CallOpen DEF Then
<1>4. r.chip \in Chips
  BY <1>3 DEF SameFrames
<1>5. SendType'
  BY DEF ServiceInv, OpenChipset, SendType, sending
<1>6. r.chip.mode \in {"rx", "tx"} => Settings(chipset) \subseteq r.chip.cfg
  BY <1>3 DEF ServiceInv
<1>7. CASE r.ok
  <2>1. radio' = r.chip /\ tasks' = {"poll", "tx"}
    BY <1>1, <1>7 DEF Then
  <2>2. TasksType'
    BY <2>1 DEF TasksType
  <2> QED
    BY <2>1, <2>2, <1>2, <1>3, <1>4, <1>5, <1>7, ServiceKept
<1>8. CASE ~r.ok
  <2>1. phase' = "wait" /\ tasks' = {} /\ radio' \in Dropped(r.chip)
    BY <1>1, <1>2, <1>8 DEF Then
  <2>2. Quiet(r.chip, radio')
    BY <2>1, <1>2, <1>4, CallDrop
  <2>3. TasksType' /\ ~InUse'
    BY <2>1, <1>2 DEF TasksType, InUse
  <2> QED
    BY <2>2, <2>3, <1>2, <1>4, <1>5, <1>6, ServiceQuiet
<1> QED
  BY <1>7, <1>8

\* A poll keeps the settings.
LEMMA ServicePoll ==
  ASSUME ServiceInv, Poll
  PROVE  ServiceInv'
<1>1. PICK r : /\ r \in ProcessIrq(radio) /\ radio' \in Released(r.chip, tasks')
               /\ tasks' \in {tasks, tasks \ {"poll"}}
               /\ phase' = phase \/ (phase = "run" /\ phase' = "closing")
  BY DEF Poll
<1>2. chipset \in ChipsetNames /\ radio \in Chips /\ UNCHANGED <<chipset, next>> /\ InUse
  BY DEF ServiceInv, Poll, InUse, fixed, air
<1>3. Kept(radio, r.chip) /\ r.chip \in Chips
  BY <1>1, <1>2, CallProcessIrq, StaysChip DEF Polled
<1>4. SendType'
  BY DEF ServiceInv, Poll, SendType, sending
<1>5. TasksType'
  BY <1>1 DEF ServiceInv, TasksType, Poll, sending
<1>6. Settings(chipset) \subseteq r.chip.cfg
  BY <1>2, <1>3 DEF Kept, ServiceInv
<1> QED
  BY <1>1, <1>2, <1>3, <1>4, <1>5, <1>6, ServiceReleased

\* So does a transmission.
LEMMA ServiceTransmit ==
  ASSUME ServiceInv, TransmitFrame
  PROVE  ServiceInv'
<1>1. PICK r : /\ r \in Transmit(radio, Head(frames)) /\ radio' \in Released(r.chip, tasks')
               /\ frames' = IF r.ok THEN Tail(frames) ELSE <<>>
               /\ tasks' = IF frames' = <<>> /\ phase # "run" THEN tasks \ {"tx"} ELSE tasks
  BY DEF TransmitFrame
<1>2. chipset \in ChipsetNames /\ radio \in Chips /\ UNCHANGED <<chipset, next, phase>>
  BY DEF ServiceInv, TransmitFrame, fixed, air
<1>3. frames \in Seq(AllFrames) /\ frames # <<>> /\ "tx" \in tasks /\ InUse
  BY DEF ServiceInv, SendType, TasksType, TransmitFrame, InUse
<1>4. Head(frames) \in AllFrames /\ Tail(frames) \in Seq(AllFrames) /\ <<>> \in Seq(AllFrames)
  BY <1>3
<1>5. Moved(radio, Head(frames), r.chip)
  BY <1>1, <1>2, <1>4, CallTransmit
<1>6. SendType'
  <2>1. frames' \in Seq(AllFrames)
    BY <1>1, <1>4
  <2> QED
    BY <2>1 DEF ServiceInv, TransmitFrame, SendType
<1>7. TasksType'
  BY <1>1, <1>2, <1>3 DEF ServiceInv, TasksType
<1>8. Settings(chipset) \subseteq r.chip.cfg /\ r.chip \in Chips
  BY <1>3, <1>5 DEF Moved, ServiceInv
<1> QED
  BY <1>1, <1>2, <1>6, <1>7, <1>8, ServiceReleased

\* Going out of service, or leaving the chip to a transmission.
LEMMA ServiceClose ==
  ASSUME ServiceInv, Close
  PROVE  ServiceInv'
<1>1. /\ chipset \in ChipsetNames /\ radio \in Chips /\ UNCHANGED <<chipset, next, frames>>
      /\ phase' = "open" /\ InUse
  BY DEF ServiceInv, Close, InUse, fixed, air
<1>2. SendType'
  BY DEF ServiceInv, Close, SendType
<1>3. CASE frames = <<>>
  <2>1. tasks' = {} /\ radio' \in Dropped(radio)
    BY <1>3 DEF Close
  <2>2. Quiet(radio, radio')
    BY <2>1, <1>1, CallDrop
  <2>3. TasksType' /\ ~InUse'
    BY <2>1, <1>1, <1>3 DEF TasksType, InUse
  <2>4. radio.mode \in {"rx", "tx"} => Settings(chipset) \subseteq radio.cfg
    BY DEF ServiceInv
  <2> QED
    BY <2>2, <2>3, <2>4, <1>1, <1>2, ServiceQuiet
<1>4. CASE frames # <<>>
  <2>1. UNCHANGED <<tasks, radio>>
    BY <1>4 DEF Close
  <2>2. TasksType'
    BY <2>1, <1>1 DEF ServiceInv, TasksType
  <2> QED
    BY <2>1, <2>2, <1>1, <1>2, ServiceAside
<1> QED
  BY <1>3, <1>4

\* What is taken off the channel is a packet.
LEMMA ServiceTake ==
  ASSUME ServiceInv, TakePacket \/ TakeQueued
  PROVE  SendType' /\ TasksType' /\ UNCHANGED <<chipset, radio, next, phase>> /\ (InUse' => InUse)
<1>1. UNCHANGED <<chipset, radio, next, phase>>
  BY DEF TakePacket, TakeQueued, fixed, air
<1>2. CASE TakePacket
  <2> DEFINE p == <<"own", taken + 1>>
  <2>1. taken + 1 \in 1..Own /\ taken' = taken + 1 /\ taken' <= submitted' /\ submitted' = submitted
    BY <1>2, LoRaAssumption DEF ServiceInv, SendType, TakePacket
  <2>2. p \in Packets
    BY <2>1, OwnPackets
  <2> HIDE DEF p
  <2>3. \/ queued' = <<p>> /\ frames' = frames /\ tasks' = tasks
        \/ frames' = frames_for_tx(p) /\ queued' = queued /\ tasks' = tasks
        \/ frames' = frames /\ queued' = queued /\ tasks' = tasks \ {"tx"} /\ phase = "closing"
    BY <1>2 DEF TakePacket, p
  <2>4. <<p>> \in Seq(Packets) /\ frames_for_tx(p) \in Seq(AllFrames)
    BY <2>2, FramesOf
  <2>5. queued \in Seq(Packets) /\ frames \in Seq(AllFrames)
    BY DEF ServiceInv, SendType
  <2>6. queued' \in Seq(Packets) /\ frames' \in Seq(AllFrames)
    BY <2>3, <2>4, <2>5
  <2>7. SendType'
    BY <2>1, <2>6 DEF ServiceInv, SendType
  <2>8. TasksType' /\ (InUse' => InUse)
    <3>1. "tx" \in tasks /\ frames = <<>> /\ tasks \subseteq {"poll", "tx"}
      BY <1>2 DEF TakePacket, ServiceInv, TasksType
    <3> QED
      BY <3>1, <2>3, <1>1 DEF TasksType, InUse
  <2> QED
    BY <1>1, <2>7, <2>8
<1>3. CASE TakeQueued
  <2>1. Head(queued) \in Packets /\ Tail(queued) \in Seq(Packets)
    BY <1>3 DEF TakeQueued, ServiceInv, SendType
  <2>2. frames' \in Seq(AllFrames) /\ queued' \in Seq(Packets)
    BY <1>3, <2>1, FramesOf DEF TakeQueued
  <2>3. SendType'
    BY <1>3, <2>2 DEF TakeQueued, ServiceInv, SendType
  <2>4. TasksType' /\ (InUse' => InUse)
    BY <1>1, <1>3 DEF TakeQueued, ServiceInv, TasksType, InUse
  <2> QED
    BY <1>1, <2>3, <2>4
<1> QED
  BY <1>2, <1>3

\* The radio itself keeps the settings.
LEMMA ServiceAir ==
  ASSUME ServiceInv, FrameOnAirEnds \/ PeerFrame
  PROVE  ServiceInv'
<1>1. chipset \in ChipsetNames /\ radio \in Chips /\ UNCHANGED <<chipset, phase, tasks, frames>>
  BY DEF ServiceInv, FrameOnAirEnds, PeerFrame, fixed, sending
<1>2. SendType'
  BY DEF ServiceInv, FrameOnAirEnds, PeerFrame, SendType, sending
<1>3. NextType'
  <2>1. CASE FrameOnAirEnds
    BY <2>1 DEF FrameOnAirEnds, air, ServiceInv, NextType
  <2>2. CASE PeerFrame
    <3>1. next' = AfterFrame(next)
      BY <2>2 DEF PeerFrame
    <3>2. NextType
      BY DEF ServiceInv
    <3> QED
      BY <3>1, <3>2, AfterNext DEF NextType
  <2> QED
    BY <2>1, <2>2
<1>4. radio' \in Chips /\ radio'.cfg = radio.cfg /\ radio'.mode \in {radio.mode, "standby"}
  <2>1. CASE FrameOnAirEnds
    BY <2>1, <1>1, StepsTxDone DEF FrameOnAirEnds
  <2>2. CASE PeerFrame
    <3>1. next \in AllFrames
      BY <2>2 DEF PeerFrame, ServiceInv, NextType
    <3>2. \/ radio' = RxDone(radio, next)
          \/ \E how \in {"crc_err", "header_err"} : radio' = RxBroken(radio, next, how)
          \/ radio' = radio
      BY <2>2 DEF PeerFrame
    <3> QED
      BY <3>1, <3>2, <1>1, StepsRxDone, StepsRxBroken
  <2> QED
    BY <2>1, <2>2
<1>5. radio'.mode \in {"rx", "tx"} => Settings(chipset) \subseteq radio'.cfg
  BY <1>1, <1>4 DEF ServiceInv
<1>6. TasksType' /\ (InUse' => InUse)
  BY <1>1 DEF ServiceInv, TasksType, InUse
<1> QED
  BY <1>1, <1>2, <1>3, <1>4, <1>5, <1>6 DEF ServiceInv

\* Every step keeps the invariant.
LEMMA ServiceStep ==
  ASSUME ServiceInv, [LoRaNext]_loraVars
  PROVE  ServiceInv'
<1>1. CASE Validate \/ OpenTooEarly \/ EndSession \/ Delay \/ Stop \/ Cancel \/ Forward
  <2>1. UNCHANGED <<chipset, radio, next>>
    BY <1>1 DEF Validate, OpenTooEarly, EndSession, Delay, Stop, Cancel, Forward, fixed, air
  <2>2. SendType'
    BY <1>1 DEF ServiceInv, SendType, Validate, OpenTooEarly, EndSession, Delay, Stop, Cancel, Forward, sending
  <2>3. /\ UNCHANGED frames /\ tasks' \in {tasks, tasks \ {"poll"}}
        /\ phase' = "run" => phase = "run"
        /\ phase' \in {"run", "closing"} => phase \in {"run", "closing"}
    BY <1>1 DEF Validate, OpenTooEarly, EndSession, Delay, Stop, Cancel, Forward, sending
  <2>4. TasksType' /\ (InUse' => InUse)
    BY <2>3 DEF ServiceInv, TasksType, InUse
  <2> QED
    BY <2>1, <2>2, <2>4, ServiceAside
<1>2. CASE Submit
  <2>1. UNCHANGED <<chipset, radio, next, phase, tasks, frames>>
    BY <1>2 DEF Submit, fixed, air, sending
  <2>2. SendType'
    BY <1>2, LoRaAssumption DEF ServiceInv, SendType, Submit, sending
  <2>3. TasksType' /\ (InUse' => InUse)
    BY <2>1 DEF ServiceInv, TasksType, InUse
  <2> QED
    BY <2>1, <2>2, <2>3, ServiceAside
<1>3. CASE TakePacket \/ TakeQueued
  BY <1>3, ServiceTake, ServiceAside
<1>4. CASE UNCHANGED loraVars
  <2>1. UNCHANGED <<chipset, radio, next, phase, tasks, frames>>
    BY <1>4 DEF loraVars
  <2>2. SendType'
    BY <1>4 DEF ServiceInv, SendType, loraVars
  <2>3. TasksType' /\ (InUse' => InUse)
    BY <2>1 DEF ServiceInv, TasksType, InUse
  <2> QED
    BY <2>1, <2>2, <2>3, ServiceAside
<1> QED
  BY <1>1, <1>2, <1>3, <1>4, ServiceOpen, ServicePoll, ServiceTransmit, ServiceClose, ServiceAir
  DEF LoRaNext, SessionStep, TransmitStep

\* In service, and before and after, a chip that listens or sends has every
\* setting of init, for all three drivers, any number of faults and any number
\* of reconnections, also while a transmission outlasts its session, unless
\* the next session opens the chip beside it (LoRaChipset::init, spawn).
THEOREM OnAirIsConfigured == LoRaSpec => []OnAirConfigured
<1>1. LoRaInit => ServiceInv
  BY ServiceStart
<1>2. ServiceInv /\ [LoRaNext]_loraVars => ServiceInv'
  BY ServiceStep
<1>3. ServiceInv => OnAirConfigured
  BY DEF ServiceInv, OnAirConfigured
<1> QED
  BY <1>1, <1>2, <1>3, PTL DEF LoRaSpec

-----------------------------------------------------------------------------
(* LoRa: what the SX1262 counts was sent *)

\* One more frame on air.
LEMMA PlacesAppend ==
  ASSUME NEW s \in Seq(Buffers), NEW f \in AllFrames, NEW p
  PROVE  /\ Append(s, f) \in Seq(Buffers)
         /\ DOMAIN Append(s, f) = DOMAIN s \cup {Len(s) + 1} /\ Len(s) + 1 \notin DOMAIN s
         /\ Append(s, f)[Len(s) + 1] = f
         /\ \A i \in DOMAIN s : Append(s, f)[i] = s[i] /\ i < Len(s) + 1 /\ i \in Nat
         /\ f.packet = p => PlacesOf(Append(s, f), p) = PlacesOf(s, p) \cup {Len(s) + 1}
         /\ f.packet # p => PlacesOf(Append(s, f), p) = PlacesOf(s, p)
<1>1. /\ Append(s, f) \in Seq(Buffers)
      /\ DOMAIN Append(s, f) = DOMAIN s \cup {Len(s) + 1} /\ Len(s) + 1 \notin DOMAIN s
      /\ Append(s, f)[Len(s) + 1] = f
      /\ \A i \in DOMAIN s : Append(s, f)[i] = s[i] /\ i < Len(s) + 1 /\ i \in Nat
  BY DEF Buffers
<1> QED
  BY <1>1 DEF PlacesOf

\* Another packet's frame changes nothing for p.
LEMMA WholeAside ==
  ASSUME NEW s \in Seq(Buffers), NEW f \in AllFrames, NEW p, f.packet # p, Whole(s, p)
  PROVE  Whole(Append(s, f), p)
<1>1. PlacesOf(Append(s, f), p) = PlacesOf(s, p) /\ PlacesOf(s, p) \subseteq DOMAIN s
  BY PlacesAppend DEF PlacesOf
<1>2. \A i \in PlacesOf(s, p) : Append(s, f)[i] = s[i]
  BY <1>1, PlacesAppend
<1>3. {Append(s, f)[i] : i \in PlacesOf(s, p)} = {s[i] : i \in PlacesOf(s, p)}
  BY <1>2
<1> QED
  BY <1>1, <1>2, <1>3 DEF Whole

LEMMA HalfAside ==
  ASSUME NEW s \in Seq(Buffers), NEW f \in AllFrames, NEW p, f.packet # p, HalfSent(s, p)
  PROVE  HalfSent(Append(s, f), p)
<1>1. PICK i \in DOMAIN s : PlacesOf(s, p) = {i} /\ s[i] = Frame(p, 1)
  BY DEF HalfSent
<1>2. PlacesOf(Append(s, f), p) = {i} /\ Append(s, f)[i] = Frame(p, 1) /\ i \in DOMAIN Append(s, f)
  BY <1>1, PlacesAppend
<1> QED
  BY <1>2 DEF HalfSent

\* The only frame of p makes p whole.
LEMMA WholeSingle ==
  ASSUME NEW s \in Seq(Buffers), NEW p \in Packets, p \notin Split, PlacesOf(s, p) = {}
  PROVE  Whole(Append(s, Frame(p, 0)), p)
<1> DEFINE t == Append(s, Frame(p, 0))
<1>1. Frame(p, 0) \in AllFrames /\ Frame(p, 0).packet = p
  BY FrameParts DEF Frame
<1>2. PlacesOf(t, p) = {Len(s) + 1} /\ t[Len(s) + 1] = Frame(p, 0)
  BY <1>1, PlacesAppend
<1>3. Range(frames_for_tx(p)) = {Frame(p, 0)}
  BY DEF Range, frames_for_tx
<1> HIDE DEF t
<1>4. Whole(t, p)
  BY <1>2, <1>3 DEF Whole
<1> QED
  BY <1>4 DEF t

\* The first half of p.
LEMMA HalfFirst ==
  ASSUME NEW s \in Seq(Buffers), NEW p \in Split, PlacesOf(s, p) = {}
  PROVE  HalfSent(Append(s, Frame(p, 1)), p)
<1> DEFINE t == Append(s, Frame(p, 1))
<1>1. Frame(p, 1) \in AllFrames /\ Frame(p, 1).packet = p
  BY FrameParts, LoRaAssumption DEF Frame
<1>2. PlacesOf(t, p) = {Len(s) + 1} /\ t[Len(s) + 1] = Frame(p, 1) /\ Len(s) + 1 \in DOMAIN t
  BY <1>1, PlacesAppend
<1> HIDE DEF t
<1>3. HalfSent(t, p)
  BY <1>2 DEF HalfSent
<1> QED
  BY <1>3 DEF t

\* The second half makes p whole.
LEMMA WholeSecond ==
  ASSUME NEW s \in Seq(Buffers), NEW p, HalfSent(s, p)
  PROVE  Whole(Append(s, Frame(p, 2)), p)
<1> DEFINE t == Append(s, Frame(p, 2))
           n == Len(s) + 1
<1>1. PICK i \in DOMAIN s : p \in Split /\ PlacesOf(s, p) = {i} /\ s[i] = Frame(p, 1)
  BY DEF HalfSent
<1>2. Frame(p, 2) \in AllFrames /\ Frame(p, 2).packet = p /\ Frame(p, 1).half = 1 /\ Frame(p, 2).half = 2
  BY <1>1, FrameParts, LoRaAssumption DEF Frame
<1>3. /\ PlacesOf(t, p) = {i, n} /\ t[n] = Frame(p, 2) /\ t[i] = Frame(p, 1)
      /\ i < n /\ i \in Nat /\ n \in Nat
  <2>1. n \in Nat
    OBVIOUS
  <2>2. PlacesOf(t, p) = PlacesOf(s, p) \cup {n} /\ t[n] = Frame(p, 2)
    BY <1>2, PlacesAppend
  <2>3. t[i] = s[i] /\ i < n /\ i \in Nat
    BY <1>2, PlacesAppend
  <2> QED
    BY <2>1, <2>2, <2>3, <1>1
<1>4. Range(frames_for_tx(p)) = {Frame(p, 1), Frame(p, 2)}
  BY <1>1 DEF Range, frames_for_tx
<1> HIDE DEF t, n
<1>5. {t[j] : j \in {i, n}} = {Frame(p, 1), Frame(p, 2)}
  BY <1>3
<1>6. \A j, k \in {i, n} : j < k => t[j].half < t[k].half
  BY <1>2, <1>3
<1>7. Whole(t, p)
  BY <1>3, <1>4, <1>5, <1>6 DEF Whole
<1> QED
  BY <1>7 DEF t

\* Initially nothing was sent.
LEMMA SentStart ==
  ASSUME LoRaInit
  PROVE  SentInv
BY DEF LoRaInit, PowerUp, SentInv, Sending, LeftOnAir, Busy

\* A step that sends nothing and takes nothing.
LEMMA SentAside ==
  ASSUME SentInv, UNCHANGED <<chipset, taken, acked, unsure, frames>>,
         queued' \in {queued, <<>>},
         radio'.sent = radio.sent, radio'.tx = radio.tx, radio'.mode = "tx" => radio.mode = "tx"
  PROVE  SentInv'
<1>1. SUFFICES ASSUME chipset = "sx1262"
               PROVE  SentInv'
  BY DEF SentInv
<1>2. Busy' => Busy
  BY DEF Busy
<1>3. Sending'
  BY <1>1 DEF SentInv, Sending
<1>4. LeftOnAir'
  BY <1>1, <1>2 DEF SentInv, LeftOnAir
<1> QED
  BY <1>1, <1>2, <1>3, <1>4 DEF SentInv

\* A packet taken is a new one.
LEMMA SentTake ==
  ASSUME ServiceInv, SentInv, TakePacket
  PROVE  SentInv'
<1>1. SUFFICES ASSUME chipset = "sx1262"
               PROVE  SentInv'
  BY DEF SentInv, TakePacket, fixed
<1> DEFINE p == <<"own", taken + 1>>
<1>2. /\ taken' = taken + 1 /\ taken \in Nat /\ UNCHANGED <<chipset, radio, acked, unsure>>
      /\ queued = <<>> /\ frames = <<>>
      /\ \/ queued' = <<p>> /\ frames' = frames
         \/ frames' = frames_for_tx(p) /\ queued' = queued
         \/ frames' = frames /\ queued' = queued
  BY DEF ServiceInv, SendType, TakePacket, fixed
<1>3. /\ \A i \in DOMAIN radio.sent : /\ radio.sent[i] \in AllFrames
                                       /\ radio.sent[i].packet[2] <= taken
                                       /\ radio.sent[i].packet[2] \in Int
      /\ \A q \in acked : q[2] <= taken /\ q[2] \in Int
  BY <1>1, FrameParts, OwnPackets DEF SentInv
<1>4. \A i \in DOMAIN radio.sent : radio.sent[i].packet # p
  <2>1. p[2] = taken + 1
    OBVIOUS
  <2> HIDE DEF p
  <2> QED
    BY <1>2, <1>3, <2>1
<1>5. PlacesOf(radio.sent, p) = {}
  BY <1>4 DEF PlacesOf
<1>6. Sending'
  BY <1>2, <1>5 DEF Sending
<1> HIDE DEF p
<1>7. LeftOnAir'
  <2>1. SUFFICES ASSUME radio'.mode = "tx" PROVE LeftOnAir'
    BY DEF LeftOnAir
  <2>2. radio.tx \in AllFrames /\ radio.tx.packet[2] <= taken /\ radio.tx.packet \notin acked
    BY <1>1, <1>2, <2>1 DEF SentInv, LeftOnAir
  <2>3. radio.tx.packet[2] \in Int
    BY <2>2, FrameParts, OwnPackets
  <2> QED
    BY <1>2, <2>2, <2>3 DEF LeftOnAir
<1> QED
  BY <1>1, <1>2, <1>3, <1>6, <1>7 DEF SentInv

\* So is the one that waited for flow control.
LEMMA SentTakeQueued ==
  ASSUME ServiceInv, SentInv, TakeQueued
  PROVE  SentInv'
<1>1. SUFFICES ASSUME chipset = "sx1262"
               PROVE  SentInv'
  BY DEF SentInv, TakeQueued, fixed
<1> DEFINE p == <<"own", taken>>
<1> HIDE DEF p
<1>2. queued = <<p>> /\ frames = <<>> /\ PlacesOf(radio.sent, p) = {}
  BY <1>1 DEF SentInv, Sending, TakeQueued, p
<1>3. /\ frames' = frames_for_tx(p) /\ queued' = <<>>
      /\ UNCHANGED <<chipset, radio, acked, unsure, taken>>
  BY <1>2 DEF TakeQueued, fixed
<1>4. Busy
  BY <1>2 DEF Busy
<1>5. Sending'
  BY <1>2, <1>3 DEF Sending, p
<1>6. LeftOnAir'
  BY <1>1, <1>3, <1>4 DEF SentInv, LeftOnAir
<1> QED
  BY <1>1, <1>3, <1>4, <1>5, <1>6 DEF SentInv

\* The frame an SX1262 was left sending ends.
LEMMA SentEnds ==
  ASSUME ServiceInv, SentInv, FrameOnAirEnds
  PROVE  SentInv'
<1>1. SUFFICES ASSUME chipset = "sx1262"
               PROVE  SentInv'
  BY DEF SentInv, FrameOnAirEnds, fixed
<1>2. /\ radio.sent \in Seq(Buffers) /\ radio.mode = "tx" /\ radio'.mode # "tx"
      /\ radio'.sent = Append(radio.sent, radio.tx)
      /\ UNCHANGED <<chipset, taken, acked, unsure, queued, frames>>
  <2>1. radio \in Chips /\ radio' = TxDone(radio)
    BY DEF ServiceInv, FrameOnAirEnds
  <2>2. radio.sent \in Seq(Buffers)
    BY <2>1 DEF Chips
  <2> QED
    BY <2>1, <2>2, StepsTxDone DEF FrameOnAirEnds, fixed, sending
<1> DEFINE f == radio.tx
           s == radio.sent
           p == <<"own", taken>>
<1>3. /\ f \in AllFrames /\ f.packet[2] <= taken /\ f.packet \notin acked
      /\ Busy => f.packet[2] < taken
  BY <1>1, <1>2 DEF SentInv, LeftOnAir
<1>4. Busy => f.packet # p
  <2>1. taken \in Nat /\ p[2] = taken
    BY DEF ServiceInv, SendType
  <2> HIDE DEF p
  <2> QED
    BY <1>3, <2>1
<1>5. Sending'
  <2>1. ASSUME Busy
        PROVE  /\ PlacesOf(s, p) = {} => PlacesOf(Append(s, f), p) = {}
               /\ HalfSent(s, p) => HalfSent(Append(s, f), p)
    BY <2>1, <1>2, <1>3, <1>4, PlacesAppend, HalfAside
  <2>2. Sending
    BY <1>1 DEF SentInv
  <2> QED
    BY <1>2, <2>1, <2>2 DEF Sending, Busy
<1>6. LeftOnAir'
  BY <1>2 DEF LeftOnAir
<1>7. \A i \in DOMAIN radio'.sent : radio'.sent[i] \in AllFrames /\ radio'.sent[i].packet[2] <= taken
  BY <1>1, <1>2, <1>3, PlacesAppend DEF SentInv
<1>8. ASSUME NEW q \in acked \ unsure
      PROVE  Whole(Append(s, f), q)
  <2>1. Whole(s, q) /\ f.packet # q
    BY <1>1, <1>3 DEF SentInv
  <2> QED
    BY <2>1, <1>2, <1>3, WholeAside
<1>9. Busy' <=> Busy
  BY <1>2 DEF Busy
<1>10. \A q \in acked' : /\ q \in Packets /\ q[2] <= taken'
                         /\ q \notin unsure' => Whole(radio'.sent, q)
                         /\ Busy' => q[2] < taken'
  BY <1>1, <1>2, <1>8, <1>9 DEF SentInv
<1> QED
  BY <1>2, <1>5, <1>6, <1>7, <1>10 DEF SentInv

\* What a frame on air adds to what was sent, and what it leaves alone.
LEMMA SentMore ==
  ASSUME NEW s \in Seq(Buffers), NEW f \in AllFrames, NEW n \in Nat, f.packet[2] <= n,
         \A i \in DOMAIN s : s[i] \in AllFrames /\ s[i].packet[2] <= n
  PROVE  /\ Append(s, f) \in Seq(Buffers)
         /\ \A i \in DOMAIN Append(s, f) : Append(s, f)[i] \in AllFrames /\ Append(s, f)[i].packet[2] <= n
         /\ \A q : f.packet # q /\ Whole(s, q) => Whole(Append(s, f), q)
         /\ \A q : f.packet # q /\ PlacesOf(s, q) = {} => PlacesOf(Append(s, f), q) = {}
         /\ \A q : f.packet # q /\ HalfSent(s, q) => HalfSent(Append(s, f), q)
<1>1. \A i \in DOMAIN Append(s, f) : Append(s, f)[i] \in AllFrames /\ Append(s, f)[i].packet[2] <= n
  BY PlacesAppend
<1>2. \A q : f.packet # q /\ PlacesOf(s, q) = {} => PlacesOf(Append(s, f), q) = {}
  BY PlacesAppend
<1> QED
  BY <1>1, <1>2, PlacesAppend, WholeAside, HalfAside

\* A transmission puts the next frame on air, or gives the packet up, or takes
\* an earlier one's TX_DONE for its own.
LEMMA SentTransmit ==
  ASSUME ServiceInv, SentInv, TransmitFrame
  PROVE  SentInv'
<1>1. SUFFICES ASSUME chipset = "sx1262"
               PROVE  SentInv'
  BY DEF SentInv, TransmitFrame, fixed
<1> DEFINE f == Head(frames)
           s == radio.sent
           p == <<"own", taken>>
<1>2. PICK r : /\ r \in sx1262!transmit(radio, f) /\ radio' \in Released(r.chip, tasks')
               /\ frames' = (IF r.ok THEN Tail(frames) ELSE <<>>)
               /\ acked' = (IF r.ok /\ Len(frames) = 1 THEN acked \cup {f.packet} ELSE acked)
               /\ unsure' = (IF Unfinished THEN unsure \cup {f.packet} ELSE unsure)
  BY <1>1 DEF TransmitFrame, Transmit
<1>3. UNCHANGED <<chipset, taken, queued>> /\ frames # <<>>
  BY DEF TransmitFrame, fixed
<1>4. radio \in Chips /\ s \in Seq(Buffers) /\ f \in AllFrames /\ taken \in Nat
  <2>1. frames \in Seq(AllFrames) /\ radio \in Chips /\ taken \in Nat
    BY DEF ServiceInv, SendType
  <2>2. s \in Seq(Buffers)
    BY <2>1 DEF Chips
  <2> QED
    BY <2>1, <2>2, <1>3
<1>5. /\ r.ok => radio'.mode # "tx"
      /\ radio'.mode = "tx" => radio'.tx = f \/ (radio.mode = "tx" /\ radio'.tx = radio.tx)
      /\ \E b \in Begun(radio) : radio'.sent \in {b, Append(b, f)}
      /\ r.ok /\ ~Unfinished => radio'.sent = Append(s, f)
  <2>1. /\ Moved(radio, f, r.chip)
        /\ r.ok => r.chip.mode # "tx"
        /\ r.chip.mode = "tx" => r.chip.tx = f \/ (radio.mode = "tx" /\ r.chip.tx = radio.tx)
        /\ \E b \in Begun(radio) : r.chip.sent \in {b, Append(b, f)}
        /\ r.ok /\ radio.mode # "tx" /\ "tx_done" \notin radio.irq => r.chip.sent = Append(s, f)
    BY <1>2, <1>4, Sx1262Transmit
  <2>2. Quiet(r.chip, radio')
    <3>1. chipset \in ChipsetNames /\ r.chip \in Chips
      BY <2>1 DEF ServiceInv, Moved
    <3> QED
      BY <3>1, <1>2, CallRelease
  <2>3. radio'.sent = r.chip.sent /\ radio'.tx = r.chip.tx /\ (radio'.mode = "tx" => r.chip.mode = "tx")
    BY <2>2 DEF Quiet, SameFrames
  <2> QED
    BY <2>1, <2>3 DEF Unfinished
<1>6. /\ queued = <<>> /\ Busy
      /\ \/ frames = frames_for_tx(p) /\ PlacesOf(s, p) = {}
         \/ frames = <<Frame(p, 2)>> /\ (p \in unsure \/ HalfSent(s, p))
  BY <1>1, <1>3 DEF SentInv, Sending, Busy
<1>7. p[2] = taken /\ p[1] = "own"
  OBVIOUS
<1> HIDE DEF p
<1>8. f.packet = p
  <2>1. CASE frames = frames_for_tx(p)
    BY <2>1 DEF frames_for_tx, Frame
  <2>2. CASE frames = <<Frame(p, 2)>>
    BY <2>2 DEF Frame
  <2> QED
    BY <1>6, <2>1, <2>2
<1>9. p \in Packets /\ p \notin acked
  <2>1. p \in Packets
    BY <1>4, <1>8, FrameParts
  <2>2. p \in acked => p[2] < taken
    BY <1>1, <1>6 DEF SentInv
  <2> QED
    BY <2>1, <2>2, <1>4, <1>7
<1>10. \/ ~r.ok /\ frames' = <<>> /\ acked' = acked
       \/ /\ r.ok /\ p \in Split /\ f = Frame(p, 1) /\ PlacesOf(s, p) = {}
          /\ frames' = <<Frame(p, 2)>> /\ acked' = acked
       \/ /\ r.ok /\ p \notin Split /\ f = Frame(p, 0) /\ PlacesOf(s, p) = {}
          /\ frames' = <<>> /\ acked' = acked \cup {p}
       \/ /\ r.ok /\ f = Frame(p, 2) /\ (p \in unsure \/ HalfSent(s, p))
          /\ frames' = <<>> /\ acked' = acked \cup {p}
  <2>1. CASE r.ok /\ frames = <<Frame(p, 1), Frame(p, 2)>> /\ p \in Split /\ PlacesOf(s, p) = {}
    <3>1. f = Frame(p, 1) /\ Len(frames) = 2 /\ Tail(frames) = <<Frame(p, 2)>>
      BY <2>1
    <3> QED
      BY <3>1, <2>1, <1>2
  <2>2. CASE r.ok /\ frames = <<Frame(p, 0)>> /\ p \notin Split /\ PlacesOf(s, p) = {}
    <3>1. f = Frame(p, 0) /\ Len(frames) = 1 /\ Tail(frames) = <<>>
      BY <2>2
    <3> QED
      BY <3>1, <2>2, <1>2, <1>8
  <2>3. CASE r.ok /\ frames = <<Frame(p, 2)>> /\ (p \in unsure \/ HalfSent(s, p))
    <3>1. f = Frame(p, 2) /\ Len(frames) = 1 /\ Tail(frames) = <<>>
      BY <2>3
    <3> QED
      BY <3>1, <2>3, <1>2, <1>8
  <2>4. CASE ~r.ok
    BY <2>4, <1>2
  <2> QED
    BY <2>1, <2>2, <2>3, <2>4, <1>6, <1>9, FramesOf
<1> HIDE DEF f
<1>11. \A i \in DOMAIN s : s[i] \in AllFrames /\ s[i].packet[2] <= taken
  BY <1>1 DEF SentInv
<1>12. radio.mode = "tx" => /\ radio.tx \in AllFrames /\ radio.tx.packet[2] <= taken
                            /\ radio.tx.packet \notin acked /\ radio.tx.packet # p
  <2>1. radio.mode = "tx" => radio.tx \in AllFrames /\ radio.tx.packet[2] < taken /\ radio.tx.packet \notin acked
    BY <1>1, <1>6 DEF SentInv, LeftOnAir
  <2>2. radio.mode = "tx" => radio.tx.packet[2] \in Int
    BY <2>1, FrameParts, OwnPackets
  <2> QED
    BY <2>1, <2>2, <1>4, <1>7
<1>13. f.packet[2] <= taken
  BY <1>4, <1>7, <1>8
<1>14. ASSUME NEW b \in Begun(radio)
       PROVE  /\ b \in Seq(Buffers)
              /\ \A i \in DOMAIN b : b[i] \in AllFrames /\ b[i].packet[2] <= taken
              /\ \A q \in acked : Whole(s, q) => Whole(b, q)
  <2>1. CASE b = s
    BY <2>1, <1>4, <1>11
  <2>2. CASE radio.mode = "tx" /\ b = Append(s, radio.tx)
    BY <2>2, <1>4, <1>11, <1>12, SentMore
  <2> QED
    BY <1>14, <2>1, <2>2 DEF Begun
<1>15. /\ \A i \in DOMAIN radio'.sent : radio'.sent[i] \in AllFrames /\ radio'.sent[i].packet[2] <= taken
       /\ \A q \in acked : Whole(s, q) => Whole(radio'.sent, q)
  <2>1. PICK b \in Begun(radio) : radio'.sent \in {b, Append(b, f)}
    BY <1>5
  <2>2. /\ b \in Seq(Buffers)
        /\ \A i \in DOMAIN b : b[i] \in AllFrames /\ b[i].packet[2] <= taken
        /\ \A q \in acked : Whole(s, q) => Whole(b, q)
    BY <1>14
  <2>3. \A q \in acked : f.packet # q
    BY <1>8, <1>9
  <2>4. CASE radio'.sent = b
    BY <2>2, <2>4
  <2>5. CASE radio'.sent = Append(b, f)
    BY <2>2, <2>3, <2>5, <1>4, <1>13, SentMore
  <2> QED
    BY <2>1, <2>4, <2>5
<1>16. \/ p \in unsure' /\ Unfinished
       \/ unsure' = unsure /\ (r.ok => radio'.sent = Append(s, f))
  BY <1>2, <1>5, <1>8
<1>17. unsure \subseteq unsure'
  BY <1>2
<1>18. Busy' => frames' # <<>>
  BY <1>3, <1>6 DEF Busy
<1>19. Sending'
  <2>1. frames' # <<>> => frames' = <<Frame(p, 2)>> /\ (p \in unsure' \/ HalfSent(radio'.sent, p))
    BY <1>4, <1>10, <1>16, HalfFirst
  <2> QED
    BY <2>1, <1>3, <1>6 DEF Sending, p
<1>20. LeftOnAir'
  <2>1. SUFFICES ASSUME radio'.mode = "tx" PROVE LeftOnAir'
    BY DEF LeftOnAir
  <2>2. ~r.ok /\ (radio'.tx = f \/ (radio.mode = "tx" /\ radio'.tx = radio.tx))
    BY <2>1, <1>5
  <2>3. acked' = acked /\ frames' = <<>>
    BY <2>2, <1>2
  <2>4. radio'.tx \in AllFrames /\ radio'.tx.packet[2] <= taken /\ radio'.tx.packet \notin acked
    BY <2>2, <1>4, <1>8, <1>9, <1>12, <1>13
  <2> QED
    BY <2>3, <2>4, <1>3, <1>18 DEF LeftOnAir
<1>21. p \in acked' => frames' = <<>> /\ (p \notin unsure' => Whole(radio'.sent, p))
  <2>1. p \in acked' /\ p \notin unsure' =>
          /\ radio'.sent = Append(s, f)
          /\ \/ p \notin Split /\ f = Frame(p, 0) /\ PlacesOf(s, p) = {}
             \/ f = Frame(p, 2) /\ HalfSent(s, p)
    BY <1>9, <1>10, <1>16
  <2>2. p \in acked' /\ p \notin unsure' => Whole(radio'.sent, p)
    BY <2>1, <1>4, <1>9, WholeSingle, WholeSecond
  <2>3. p \in acked' => frames' = <<>>
    BY <1>9, <1>10
  <2> QED
    BY <2>2, <2>3
<1>22. ASSUME NEW q \in acked'
       PROVE  /\ q \in Packets /\ q[2] <= taken
              /\ q \notin unsure' => Whole(radio'.sent, q)
              /\ Busy' => q[2] < taken
  <2>1. CASE q = p
    BY <2>1, <1>4, <1>7, <1>9, <1>18, <1>21, <1>22
  <2>2. CASE q # p
    <3>1. q \in acked
      BY <2>2, <1>10, <1>22
    <3>2. q \in Packets /\ q[2] <= taken /\ q[2] < taken /\ (q \notin unsure => Whole(s, q))
      BY <3>1, <1>1, <1>6 DEF SentInv
    <3> QED
      BY <3>1, <3>2, <1>15, <1>17
  <2> QED
    BY <2>1, <2>2
<1> QED
  BY <1>3, <1>15, <1>19, <1>20, <1>22 DEF SentInv

\* Every step keeps the invariant.
LEMMA SentStep ==
  ASSUME ServiceInv, SentInv, [LoRaNext]_loraVars
  PROVE  SentInv'
<1>1. CASE \/ Validate \/ OpenTooEarly \/ EndSession \/ Delay \/ Stop \/ Cancel \/ Forward \/ Submit
           \/ UNCHANGED loraVars
  <2>1. UNCHANGED <<chipset, radio, queued, frames, taken, acked, unsure>>
    BY <1>1 DEF Validate, OpenTooEarly, EndSession, Delay, Stop, Cancel, Forward, Submit, loraVars, fixed, sending
  <2> QED
    BY <2>1, SentAside
<1>2. CASE OpenChipset
  <2>1. PICK r : /\ r \in Then(Then(build(radio), ChipInit), StartReceive)
                 /\ radio' = r.chip \/ radio' \in Dropped(r.chip)
    BY <1>2 DEF OpenChipset
  <2>2. chipset \in ChipsetNames /\ radio \in Chips
    BY DEF ServiceInv
  <2>3. SameFrames(radio, r.chip) /\ (r.chip.mode = "tx" => radio.mode = "tx")
    BY <2>1, <2>2, CallOpen DEF Then
  <2>4. radio' = r.chip \/ Quiet(r.chip, radio')
    <3>1. r.chip \in Chips
      BY <2>3 DEF SameFrames
    <3>2. radio' \in Dropped(r.chip) => Quiet(r.chip, radio')
      BY <3>1, <2>2, CallDrop
    <3> QED
      BY <3>2, <2>1 DEF Then
  <2>5. /\ radio'.sent = radio.sent /\ radio'.tx = radio.tx
        /\ radio'.mode = "tx" => radio.mode = "tx"
    BY <2>3, <2>4 DEF Quiet, SameFrames
  <2>6. UNCHANGED <<chipset, queued, frames, taken, acked, unsure>>
    BY <1>2 DEF OpenChipset, fixed, sending
  <2> QED
    BY <2>5, <2>6, SentAside
<1>3. CASE Poll
  <2>1. PICK r : r \in ProcessIrq(radio) /\ radio' \in Released(r.chip, tasks')
    BY <1>3 DEF Poll
  <2>2. chipset \in ChipsetNames /\ radio \in Chips
    BY DEF ServiceInv
  <2>3. Kept(radio, r.chip) /\ Quiet(r.chip, radio')
    <3>1. Kept(radio, r.chip) /\ r.chip \in Chips
      BY <2>1, <2>2, CallProcessIrq, StaysChip DEF Polled
    <3> QED
      BY <3>1, <2>1, <2>2, CallRelease
  <2>4. UNCHANGED <<chipset, queued, frames, taken, acked, unsure>>
    BY <1>3 DEF Poll, fixed, sending
  <2>5. /\ radio'.sent = radio.sent /\ radio'.tx = radio.tx
        /\ radio'.mode = "tx" => radio.mode = "tx"
    BY <2>3 DEF Kept, Quiet, SameFrames
  <2> QED
    BY <2>4, <2>5, SentAside
<1>4. CASE Close
  <2>1. chipset \in ChipsetNames /\ radio \in Chips
    BY DEF ServiceInv
  <2>2. Quiet(radio, radio')
    BY <1>4, <2>1, CallDrop, StepsStay DEF Close
  <2>3. UNCHANGED <<chipset, frames, taken, acked, unsure>> /\ queued' = <<>>
    BY <1>4 DEF Close, fixed
  <2> QED
    BY <2>2, <2>3, SentAside DEF Quiet, SameFrames
<1>5. CASE PeerFrame
  <2>1. radio \in Chips
    BY DEF ServiceInv
  <2>2. next \in AllFrames
    BY <1>5 DEF PeerFrame, ServiceInv, NextType
  <2>3. \/ radio' = RxDone(radio, next)
        \/ \E how \in {"crc_err", "header_err"} : radio' = RxBroken(radio, next, how)
        \/ radio' = radio
    BY <1>5 DEF PeerFrame
  <2>4. radio'.sent = radio.sent /\ radio'.tx = radio.tx /\ radio'.mode = radio.mode
    BY <2>1, <2>2, <2>3, StepsRxDone, StepsRxBroken
  <2>5. UNCHANGED <<chipset, queued, frames, taken, acked, unsure>>
    BY <1>5 DEF PeerFrame, fixed, sending
  <2> QED
    BY <2>4, <2>5, SentAside
<1> QED
  BY <1>1, <1>2, <1>3, <1>4, <1>5, SentTake, SentTakeQueued, SentEnds, SentTransmit DEF LoRaNext, SessionStep, TransmitStep

\* A packet the SX1262 interface counts as sent went on air as a whole and in
\* order, whatever calls failed before, unless one of its frames was started
\* on top of an unfinished transmission (SX1262::transmit, do_transmit).
THEOREM CountedWasSent == LoRaSpec => []AckedWasSent
<1>1. LoRaInit => ServiceInv /\ SentInv
  BY ServiceStart, SentStart
<1>2. ServiceInv /\ SentInv /\ [LoRaNext]_loraVars => ServiceInv' /\ SentInv'
  BY ServiceStep, SentStep
<1>3. SentInv => AckedWasSent
  BY DEF SentInv, AckedWasSent, WasOnAir, Whole, PlacesOf
<1> QED
  BY <1>1, <1>2, <1>3, PTL DEF LoRaSpec

\* The packet and the number of a frame.
LEMMA FrameNumbers ==
  /\ \A f \in AllFrames :
       /\ f.packet[2] \in Nat \ {0} /\ f.half \in 0..2 /\ f.packet[1] \in {"own", "peer"}
       /\ f.packet = <<f.packet[1], f.packet[2]>>
       /\ f.packet[1] = "peer" => f.packet[2] <= Peer
<1>1. ASSUME NEW p \in Packets
      PROVE  /\ p[2] \in Nat \ {0} /\ p[1] \in {"own", "peer"} /\ p = <<p[1], p[2]>>
             /\ p[1] = "peer" => p[2] <= Peer
  <2>1. \/ p[1] = "own" /\ p[2] \in 1..Own /\ p = <<"own", p[2]>>
        \/ p[1] = "peer" /\ p[2] \in 1..Peer /\ p = <<"peer", p[2]>>
    BY OwnPackets
  <2>2. CASE p[1] = "own" /\ p[2] \in 1..Own /\ p = <<"own", p[2]>>
    BY <2>2, LoRaAssumption
  <2>3. CASE p[1] = "peer" /\ p[2] \in 1..Peer /\ p = <<"peer", p[2]>>
    BY <2>3, LoRaAssumption
  <2> QED
    BY <2>1, <2>2, <2>3
<1> QED
  BY <1>1, FrameParts

\* The last frame of a packet is before every frame of a later packet.
LEMMA EarlierWhole ==
  ASSUME NEW f \in AllFrames, NEW g \in AllFrames, Earlier(f, g), f.half # 1,
         f.packet[1] = g.packet[1]
  PROVE  f.packet[2] < g.packet[2]
<1>1. SUFFICES ASSUME f.packet[2] = g.packet[2] /\ f.half < g.half
               PROVE  FALSE
  BY DEF Earlier
<1>2. f.packet = g.packet
  BY <1>1, FrameNumbers
<1>3. \/ f.packet \in Split /\ f.half = 2 /\ g.half \in {1, 2}
      \/ f.packet \notin Split /\ f.half = 0 /\ g.half = 0
  BY <1>2, FrameParts
<1> QED
  BY <1>1, <1>3

LEMMA EarlierNext ==
  ASSUME NextType, NEW f \in AllFrames, Earlier(f, next), f.half # 1, f.packet[1] = "peer"
  PROVE  f.packet[2] < next.packet[2]
<1>1. next.packet[1] = "peer" /\ next.packet[2] \in Nat
  BY DEF NextType
<1>2. CASE next.packet[2] <= Peer
  <2>1. next \in AllFrames
    BY <1>2 DEF NextType
  <2> QED
    BY <2>1, <1>1, EarlierWhole
<1>3. CASE ~(next.packet[2] <= Peer)
  BY <1>1, <1>3, FrameNumbers, LoRaAssumption
<1> QED
  BY <1>2, <1>3

\* The peer's frames follow one another.
LEMMA EarlierAfter ==
  ASSUME NextType, NEW f \in AllFrames, Earlier(f, next)
  PROVE  Earlier(f, AfterFrame(next))
<1>1. /\ next.packet[1] = "peer" /\ next.packet[2] \in Nat /\ next.half \in 0..2
      /\ AfterFrame(next).packet[1] = "peer"
      /\ \/ /\ AfterFrame(next).packet[2] = next.packet[2] /\ next.half = 1
            /\ AfterFrame(next).half = 2
         \/ AfterFrame(next).packet[2] = next.packet[2] + 1
  BY AfterNext DEF NextType
<1>2. f.packet[2] \in Nat /\ f.half \in 0..2
  BY FrameNumbers
<1> QED
  BY <1>1, <1>2 DEF Earlier

LEMMA NextBefore ==
  ASSUME NextType
  PROVE  /\ Earlier(next, AfterFrame(next))
         /\ AfterFrame(next).packet[1] = "peer" /\ next.packet[1] = "peer"
         /\ AfterFrame(next).packet[2] \in Nat /\ next.packet[2] \in Nat
         /\ next.packet[2] <= AfterFrame(next).packet[2]
<1>1. /\ next.packet[1] = "peer" /\ next.packet[2] \in Nat /\ next.half \in 0..2
      /\ AfterFrame(next).packet[1] = "peer"
      /\ \/ /\ AfterFrame(next).packet[2] = next.packet[2] /\ next.half = 1
            /\ AfterFrame(next).half = 2
         \/ AfterFrame(next).packet[2] = next.packet[2] + 1
  BY AfterNext DEF NextType
<1> QED
  BY <1>1 DEF Earlier

\* Initially nothing was received.
LEMMA UpStart ==
  ASSUME LoRaInit
  PROVE  UpInv
<1>1. /\ queued = <<>> /\ frames = <<>> /\ rx_queue = <<>> /\ pending = NoFrame /\ delivered = <<>>
      /\ radio.irq = {}
  BY DEF LoRaInit, PowerUp
<1> QED
  BY <1>1 DEF UpInv, ToSend, QueueInOrder, LatchedLast, HeldFirst, DeliveredWhole, Behind, Latched

\* A step that neither sends, nor receives, nor forwards.
LEMMA UpAside ==
  ASSUME UpInv, UNCHANGED <<queued, frames, taken, next, rx_queue, pending, delivered>>,
         radio'.rx = radio.rx, Latched' => Latched
  PROVE  UpInv'
<1>1. ToSend'
  BY DEF UpInv, ToSend
<1>2. QueueInOrder'
  BY DEF UpInv, QueueInOrder, WasSent
<1>3. LatchedLast' /\ HeldFirst'
  BY DEF UpInv, LatchedLast, HeldFirst, WasSent
<1>4. DeliveredWhole'
  BY DEF UpInv, DeliveredWhole
<1>5. Behind'
  BY DEF UpInv, Behind, Passed
<1> QED
  BY <1>1, <1>2, <1>3, <1>4, <1>5 DEF UpInv

\* What keeps a frame received in its place when the senders go on.
LEMMA SentBeforeMore ==
  ASSUME NEW f, NEW g, NEW n, NEW q, NEW s, NEW g2, NEW n2, NEW q2, NEW s2,
         SentBefore(f, g, n, q, s), n \in Nat, n2 \in Nat, n <= n2,
         Earlier(f, g2),
         \A i \in DOMAIN s2 : Earlier(f, s2[i]),
         q2 # <<>> => n < n2 \/ q # <<>>
  PROVE  SentBefore(f, g2, n2, q2, s2)
<1>1. f \in AllFrames /\ f.packet[2] \in Nat
  BY FrameNumbers DEF SentBefore
<1> QED
  BY <1>1 DEF SentBefore

\* The senders go on, and nothing is received.
LEMMA UpSend ==
  ASSUME UpInv, ToSend', UNCHANGED <<next, rx_queue, pending, delivered>>,
         radio'.rx = radio.rx, Latched' => Latched,
         \A f : WasSent(f) => SentBefore(f, next', taken', queued', frames')
  PROVE  UpInv'
<1>1. QueueInOrder'
  BY DEF UpInv, QueueInOrder, WasSent
<1>2. LatchedLast' /\ HeldFirst'
  BY DEF UpInv, LatchedLast, HeldFirst, WasSent
<1>3. DeliveredWhole'
  BY DEF UpInv, DeliveredWhole
<1>4. Behind'
  BY DEF UpInv, Behind, Passed
<1> QED
  BY <1>1, <1>2, <1>3, <1>4 DEF UpInv

\* The frames of one packet, in order.
LEMMA PacketInOrder ==
  ASSUME NEW p
  PROVE  /\ \A i \in DOMAIN frames_for_tx(p) : frames_for_tx(p)[i].packet = p
         /\ \A i, j \in DOMAIN frames_for_tx(p) :
              i < j => frames_for_tx(p)[i].half < frames_for_tx(p)[j].half
<1>1. CASE p \in Split
  <2>1. frames_for_tx(p) = <<Frame(p, 1), Frame(p, 2)>>
    BY <1>1 DEF frames_for_tx
  <2> QED
    BY <2>1 DEF Frame
<1>2. CASE p \notin Split
  <2>1. frames_for_tx(p) = <<Frame(p, 0)>>
    BY <1>2 DEF frames_for_tx
  <2> QED
    BY <2>1 DEF Frame
<1> QED
  BY <1>1, <1>2

\* A new packet of ours is behind what was received.
LEMMA UpTake ==
  ASSUME ServiceInv, UpInv, TakePacket
  PROVE  UpInv'
<1> DEFINE p == <<"own", taken + 1>>
<1>1. p[1] = "own" /\ p[2] = taken + 1
  OBVIOUS
<1>2. /\ taken \in Nat /\ taken' = taken + 1 /\ frames = <<>> /\ queued = <<>>
      /\ \/ queued' = <<p>> /\ frames' = <<>>
         \/ queued' = <<>> /\ frames' = frames_for_tx(p)
         \/ queued' = <<>> /\ frames' = <<>>
      /\ UNCHANGED <<radio, next, rx_queue, pending, delivered>>
  BY DEF ServiceInv, SendType, TakePacket, receiving, air
<1> HIDE DEF p
<1>3. \A i \in DOMAIN frames' : frames'[i].packet = p
  BY <1>2, PacketInOrder
<1>4. ToSend'
  BY <1>2, PacketInOrder DEF ToSend, p
<1>5. ASSUME NEW f, WasSent(f)
      PROVE  SentBefore(f, next', taken', queued', frames')
  <2>1. f \in AllFrames /\ (f.packet[1] = "own" => f.packet[2] <= taken) /\ Earlier(f, next)
    BY <1>5 DEF WasSent, SentBefore
  <2>2. f.packet[2] \in Nat
    BY <2>1, FrameNumbers
  <2>3. \A i \in DOMAIN frames' : Earlier(f, frames'[i])
    BY <1>1, <1>2, <1>3, <2>1, <2>2 DEF Earlier
  <2>4. SentBefore(f, next, taken, queued, frames)
    BY <1>5 DEF WasSent
  <2> QED
    BY <2>1, <2>3, <2>4, <1>2, SentBeforeMore
<1>6. radio'.rx = radio.rx /\ (Latched' => Latched)
  BY <1>2 DEF Latched
<1> QED
  BY <1>2, <1>4, <1>5, <1>6, UpSend

\* So is the one that waited.
LEMMA UpTakeQueued ==
  ASSUME ServiceInv, UpInv, TakeQueued
  PROVE  UpInv'
<1> DEFINE p == <<"own", taken>>
<1>1. p[1] = "own" /\ p[2] = taken
  OBVIOUS
<1>2. queued = <<p>> /\ frames = <<>> /\ queued # <<>>
  BY DEF UpInv, ToSend, TakeQueued
<1> HIDE DEF p
<1>3. /\ taken \in Nat /\ taken' = taken /\ queued' = <<>> /\ frames' = frames_for_tx(p)
      /\ UNCHANGED <<radio, next, rx_queue, pending, delivered>>
  BY <1>2 DEF ServiceInv, SendType, TakeQueued, receiving, air
<1>4. ToSend'
  BY <1>3, PacketInOrder DEF ToSend, p
<1>5. ASSUME NEW f, WasSent(f)
      PROVE  SentBefore(f, next', taken', queued', frames')
  <2>1. f \in AllFrames /\ (f.packet[1] = "own" => f.packet[2] < taken) /\ Earlier(f, next)
    BY <1>2, <1>5 DEF WasSent, SentBefore
  <2>2. \A i \in DOMAIN frames' : Earlier(f, frames'[i])
    BY <1>1, <1>3, <2>1, PacketInOrder DEF Earlier
  <2>3. SentBefore(f, next, taken, queued, frames)
    BY <1>5 DEF WasSent
  <2> QED
    BY <2>1, <2>2, <2>3, <1>3, SentBeforeMore
<1>6. radio'.rx = radio.rx /\ (Latched' => Latched)
  BY <1>3 DEF Latched
<1> QED
  BY <1>3, <1>4, <1>5, <1>6, UpSend

\* A transmission may put our own frame where a received one was.
LEMMA UpTransmit ==
  ASSUME ServiceInv, UpInv, TransmitFrame
  PROVE  UpInv'
<1> DEFINE f == Head(frames)
<1>1. PICK r : /\ r \in Transmit(radio, f) /\ radio' \in Released(r.chip, tasks')
               /\ frames' \in {Tail(frames), <<>>}
  BY DEF TransmitFrame
<1>2. /\ frames \in Seq(AllFrames) /\ frames # <<>> /\ f \in AllFrames /\ taken \in Nat
      /\ f = frames[1] /\ 1 \in DOMAIN frames
  BY DEF TransmitFrame, ServiceInv, SendType
<1>3. UNCHANGED <<taken, queued, next, rx_queue, pending, delivered>>
  BY DEF TransmitFrame, receiving, air
<1>4. radio'.rx \in {radio.rx, f} /\ (Latched' => Latched)
  <2>1. chipset \in ChipsetNames /\ radio \in Chips
    BY DEF ServiceInv
  <2>2. Moved(radio, f, r.chip)
    BY <2>1, <1>1, <1>2, CallTransmit
  <2>3. r.chip \in Chips
    BY <2>2 DEF Moved
  <2>4. Quiet(r.chip, radio')
    BY <2>1, <2>3, <1>1, CallRelease
  <2> QED
    BY <2>2, <2>4 DEF Moved, Quiet, SameFrames, Latched
<1>5. \A i \in DOMAIN frames' : i + 1 \in DOMAIN frames /\ frames'[i] = frames[i + 1] /\ i \in Nat /\ 1 < i + 1
  BY <1>1, <1>2
<1>6. queued = <<>> /\ (\A i \in DOMAIN frames : frames[i].packet = <<"own", taken>>)
      /\ (\A i, j \in DOMAIN frames : i < j => frames[i].half < frames[j].half)
  BY <1>2 DEF UpInv, ToSend
<1> HIDE DEF f
<1>7. ToSend'
  <2>1. \A i, j \in DOMAIN frames' : i < j => i + 1 < j + 1
    BY <1>5
  <2> QED
    BY <2>1, <1>3, <1>5, <1>6 DEF ToSend
<1>8. ASSUME NEW g, WasSent(g)
      PROVE  SentBefore(g, next', taken', queued', frames') /\ Earlier(g, f)
  <2>1. SentBefore(g, next, taken, queued, frames)
    BY <1>8 DEF WasSent
  <2>2. Earlier(g, next) /\ \A i \in DOMAIN frames : Earlier(g, frames[i])
    BY <2>1 DEF SentBefore
  <2>3. \A i \in DOMAIN frames' : Earlier(g, frames'[i])
    BY <2>2, <1>5
  <2>4. taken <= taken
    BY <1>2
  <2> QED
    BY <2>1, <2>2, <2>3, <2>4, <1>2, <1>3, <1>6, SentBeforeMore
<1>9. CASE radio'.rx = radio.rx
  BY <1>3, <1>4, <1>7, <1>8, <1>9, UpSend
<1>10. CASE radio'.rx = f
  <2>2. f.packet[1] = "own" /\ f.packet[2] = taken
    BY <1>2, <1>6
  <2>3. SentBefore(f, next', taken', queued', frames')
    <3>1. Earlier(f, next')
      BY <1>3, <2>2 DEF Earlier, ServiceInv, NextType
    <3>2. \A i \in DOMAIN frames' : Earlier(f, frames'[i])
      BY <1>2, <1>5, <1>6 DEF Earlier
    <3> QED
      BY <3>1, <3>2, <2>2, <1>2, <1>3, <1>6 DEF SentBefore
  <2>4. QueueInOrder'
    BY <1>3, <1>8 DEF UpInv, QueueInOrder, WasSent
  <2>5. \A i \in DOMAIN rx_queue : Earlier(rx_queue[i], f)
    BY <1>8 DEF UpInv, QueueInOrder
  <2>6. LatchedLast'
    BY <2>3, <2>5, <1>3, <1>10 DEF LatchedLast, WasSent
  <2>7. HeldFirst'
    <3>1. pending # NoFrame => /\ WasSent(pending) /\ pending.half # 0
                               /\ \A i \in DOMAIN rx_queue : Earlier(pending, rx_queue[i])
      BY DEF UpInv, HeldFirst
    <3>2. pending # NoFrame => Earlier(pending, f)
                               /\ SentBefore(pending, next', taken', queued', frames')
      BY <3>1, <1>8
    <3> QED
      BY <3>1, <3>2, <1>3, <1>10 DEF HeldFirst, WasSent
  <2>8. DeliveredWhole'
    BY <1>3 DEF UpInv, DeliveredWhole
  <2>9. Behind'
    <3>1. \A n : Below(n, f)
      BY <2>2 DEF Below
    <3> QED
      BY <3>1, <1>3, <1>10 DEF UpInv, Behind, Passed
  <2> QED
    BY <2>4, <2>6, <2>7, <2>8, <2>9, <1>3, <1>7 DEF UpInv
<1> QED
  BY <1>4, <1>9, <1>10

\* A frame moves from the chip to the queue.
LEMMA UpPoll ==
  ASSUME ServiceInv, UpInv, Poll
  PROVE  UpInv'
<1>1. PICK r : /\ r \in ProcessIrq(radio) /\ radio' \in Released(r.chip, tasks')
               /\ rx_queue' \in {rx_queue, rx_queue \o r.got}
  BY DEF Poll
<1>2. UNCHANGED <<taken, queued, frames, next, pending, delivered>>
  BY DEF Poll, sending, air
<1>3. /\ radio'.rx = radio.rx /\ (Latched' => Latched)
      /\ r.got = <<>> \/ (r.got = <<radio.rx>> /\ Latched /\ ~Latched')
  <2>1. chipset \in ChipsetNames /\ radio \in Chips
    BY DEF ServiceInv
  <2>2. Polled(radio, r) /\ r.chip \in Chips
    BY <2>1, <1>1, CallProcessIrq, StaysChip DEF Polled
  <2>3. Quiet(r.chip, radio')
    BY <2>1, <2>2, <1>1, CallRelease
  <2> QED
    BY <2>2, <2>3 DEF Polled, Kept, Quiet, SameFrames, Latched
<1>4. radio'.rx = radio.rx /\ (Latched' => Latched)
  BY <1>3
<1>5. rx_queue \in Seq(AllFrames)
  BY DEF UpInv, QueueInOrder
<1>6. CASE r.got = <<>> \/ rx_queue' = rx_queue
  <2>1. rx_queue' = rx_queue
    BY <1>1, <1>5, <1>6
  <2> QED
    BY <2>1, <1>2, <1>4, UpAside
<1>7. CASE r.got = <<radio.rx>> /\ Latched /\ ~Latched' /\ rx_queue' = rx_queue \o r.got
  <2> DEFINE n == Len(rx_queue) + 1
             f == radio.rx
  <2>1. WasSent(f) /\ f \in AllFrames /\ \A i \in DOMAIN rx_queue : Earlier(rx_queue[i], f)
    BY <1>7 DEF UpInv, LatchedLast, WasSent, SentBefore
  <2>2. /\ rx_queue' \in Seq(AllFrames)
        /\ DOMAIN rx_queue' = DOMAIN rx_queue \cup {n} /\ rx_queue'[n] = f
        /\ n \in Nat /\ n \notin DOMAIN rx_queue
        /\ \A i \in DOMAIN rx_queue : rx_queue'[i] = rx_queue[i] /\ i < n /\ i \in Nat
    <3>1. rx_queue' = rx_queue \o <<f>>
      BY <1>1, <1>7
    <3> HIDE DEF f
    <3> QED
      BY <3>1, <2>1, <1>5
  <2> HIDE DEF n, f
  <2>3. ToSend'
    BY <1>2 DEF UpInv, ToSend
  <2>4. QueueInOrder'
    <3>1. \A i \in DOMAIN rx_queue' : SentBefore(rx_queue'[i], next, taken, queued, frames)
      BY <2>1, <2>2 DEF UpInv, QueueInOrder, WasSent
    <3>2. \A i, j \in DOMAIN rx_queue' : i < j => Earlier(rx_queue'[i], rx_queue'[j])
      <4>1. SUFFICES ASSUME NEW i \in DOMAIN rx_queue', NEW j \in DOMAIN rx_queue', i < j
                     PROVE  Earlier(rx_queue'[i], rx_queue'[j])
        OBVIOUS
      <4>2. i \in DOMAIN rx_queue
        BY <4>1, <2>2
      <4>3. CASE j = n
        BY <4>2, <4>3, <2>1, <2>2
      <4>4. CASE j \in DOMAIN rx_queue
        BY <4>1, <4>2, <4>4, <2>2 DEF UpInv, QueueInOrder
      <4> QED
        BY <4>3, <4>4, <2>2
    <3> QED
      BY <3>1, <3>2, <2>2, <1>2 DEF QueueInOrder, WasSent
  <2>5. LatchedLast'
    BY <1>7 DEF LatchedLast
  <2>6. HeldFirst'
    <3>1. pending # NoFrame => /\ SentBefore(pending, next, taken, queued, frames) /\ pending.half # 0
                               /\ \A i \in DOMAIN rx_queue : Earlier(pending, rx_queue[i])
                               /\ Earlier(pending, f)
      BY <1>7 DEF UpInv, HeldFirst, WasSent, f
    <3>2. pending # NoFrame => \A i \in DOMAIN rx_queue' : Earlier(pending, rx_queue'[i])
      BY <3>1, <2>2
    <3> QED
      BY <3>1, <3>2, <1>2, <1>7 DEF HeldFirst, WasSent
  <2>7. DeliveredWhole'
    BY <1>2 DEF UpInv, DeliveredWhole
  <2>8. Behind'
    <3>1. ASSUME NEW i \in DOMAIN delivered, delivered[i][1].packet[1] = "peer"
          PROVE  Passed(delivered[i][1].packet[2])'
      <4> DEFINE m == delivered[i][1].packet[2]
      <4>1. /\ Below(m, next) /\ Below(m, f) /\ (pending # NoFrame => Below(m, pending))
            /\ \A k \in DOMAIN rx_queue : Below(m, rx_queue[k])
        BY <3>1, <1>7 DEF UpInv, Behind, Passed, f
      <4> HIDE DEF m
      <4>2. \A k \in DOMAIN rx_queue' : Below(m, rx_queue'[k])
        BY <4>1, <2>2
      <4> QED
        BY <4>1, <4>2, <1>2, <1>7 DEF Passed, m
    <3> QED
      BY <3>1, <1>2 DEF Behind
  <2> QED
    BY <2>3, <2>4, <2>5, <2>6, <2>7, <2>8, <1>2 DEF UpInv
<1> QED
  BY <1>1, <1>3, <1>6, <1>7

\* The peer sends its next frame.
LEMMA UpPeer ==
  ASSUME ServiceInv, UpInv, PeerFrame
  PROVE  UpInv'
<1>1. /\ next' = AfterFrame(next)
      /\ UNCHANGED <<taken, queued, frames, rx_queue, pending, delivered>>
  BY DEF PeerFrame, sending, receiving
<1>2. NextType /\ next \in AllFrames /\ taken \in Nat
  BY DEF ServiceInv, NextType, PeerFrame, SendType
<1>3. /\ radio'.rx = next \/ (radio'.rx = radio.rx /\ (Latched' => Latched))
  <2>1. \/ radio' = RxDone(radio, next)
        \/ \E how \in {"crc_err", "header_err"} : radio' = RxBroken(radio, next, how)
        \/ radio' = radio
    BY DEF PeerFrame
  <2>2. radio \in Chips
    BY DEF ServiceInv
  <2> QED
    BY <2>1, <2>2, <1>2, StepsRxDone, StepsRxBroken DEF Latched
<1>4. next.packet[1] = "peer" /\ next'.packet[1] = "peer" /\ next.packet[2] \in Nat
      /\ next'.packet[2] \in Nat /\ next.packet[2] <= next'.packet[2]
  BY <1>1, <1>2, NextBefore
<1>5. ASSUME NEW f, SentBefore(f, next, taken, queued, frames)
      PROVE  SentBefore(f, next', taken', queued', frames') /\ Earlier(f, next)
  <2>1. f \in AllFrames /\ Earlier(f, next) /\ \A i \in DOMAIN frames : Earlier(f, frames[i])
    BY <1>5 DEF SentBefore
  <2>2. Earlier(f, next')
    BY <2>1, <1>1, <1>2, EarlierAfter
  <2> QED
    BY <2>1, <2>2, <1>1, <1>5 DEF SentBefore
<1>6. SentBefore(next, next', taken', queued', frames')
  <2>1. Earlier(next, next')
    BY <1>1, <1>2, NextBefore
  <2>2. \A i \in DOMAIN frames : Earlier(next, frames[i])
    BY <1>4 DEF UpInv, ToSend, Earlier
  <2> QED
    BY <2>1, <2>2, <1>1, <1>2, <1>4 DEF SentBefore
<1>7. ToSend'
  BY <1>1 DEF UpInv, ToSend
<1>8. QueueInOrder'
  BY <1>1, <1>5 DEF UpInv, QueueInOrder, WasSent
<1>9. LatchedLast'
  <2>1. CASE radio'.rx = next
    <3>1. \A i \in DOMAIN rx_queue : Earlier(rx_queue[i], next)
      BY <1>5 DEF UpInv, QueueInOrder, WasSent
    <3> QED
      BY <2>1, <3>1, <1>1, <1>6 DEF LatchedLast, WasSent
  <2>2. CASE radio'.rx = radio.rx /\ (Latched' => Latched)
    BY <2>2, <1>1, <1>5 DEF UpInv, LatchedLast, WasSent
  <2> QED
    BY <2>1, <2>2, <1>3
<1>10. HeldFirst'
  <2>1. pending # NoFrame => /\ SentBefore(pending, next, taken, queued, frames) /\ pending.half # 0
                             /\ \A i \in DOMAIN rx_queue : Earlier(pending, rx_queue[i])
                             /\ Latched => Earlier(pending, radio.rx)
    BY DEF UpInv, HeldFirst, WasSent
  <2>2. pending # NoFrame => /\ SentBefore(pending, next', taken', queued', frames')
                             /\ Earlier(pending, next)
    BY <2>1, <1>5
  <2> QED
    BY <2>1, <2>2, <1>1, <1>3 DEF HeldFirst, WasSent
<1>11. DeliveredWhole'
  BY <1>1 DEF UpInv, DeliveredWhole
<1>12. Behind'
  <2>1. ASSUME NEW i \in DOMAIN delivered, delivered[i][1].packet[1] = "peer"
        PROVE  Passed(delivered[i][1].packet[2])'
    <3> DEFINE m == delivered[i][1].packet[2]
    <3>1. /\ Below(m, next) /\ (pending # NoFrame => Below(m, pending))
          /\ \A k \in DOMAIN rx_queue : Below(m, rx_queue[k])
          /\ Latched => Below(m, radio.rx)
      BY <2>1 DEF UpInv, Behind, Passed
    <3>2. m \in Nat
      <4>1. PICK p \in Packets : delivered[i] = frames_for_tx(p)
        BY <2>1 DEF UpInv, DeliveredWhole
      <4>2. delivered[i][1].packet = p
        BY <4>1, FramesOf, PacketInOrder
      <4> QED
        BY <4>2, OwnPackets, LoRaAssumption
    <3> HIDE DEF m
    <3>3. Below(m, next')
      BY <3>1, <3>2, <1>4 DEF Below
    <3> QED
      BY <3>1, <3>3, <1>1, <1>3 DEF Passed, m
  <2> QED
    BY <2>1, <1>1 DEF Behind
<1> QED
  BY <1>1, <1>7, <1>8, <1>9, <1>10, <1>11, <1>12 DEF UpInv

\* The chip is dropped, with what was not forwarded.
LEMMA UpClose ==
  ASSUME ServiceInv, UpInv, Close
  PROVE  UpInv'
<1>1. /\ queued' = <<>> /\ rx_queue' = <<>> /\ pending' = NoFrame
      /\ UNCHANGED <<next, taken, frames, delivered>>
  BY DEF Close, air
<1>2. radio'.rx = radio.rx /\ (Latched' => Latched)
  <2>1. chipset \in ChipsetNames /\ radio \in Chips
    BY DEF ServiceInv
  <2>2. Quiet(radio, radio')
    BY <2>1, CallDrop, StepsStay DEF Close
  <2> QED
    BY <2>2 DEF Quiet, SameFrames, Latched
<1>3. ToSend'
  BY <1>1 DEF UpInv, ToSend
<1>4. QueueInOrder' /\ HeldFirst'
  BY <1>1 DEF QueueInOrder, HeldFirst
<1>5. LatchedLast'
  <2>1. Latched => SentBefore(radio.rx, next, taken, queued, frames)
    BY DEF UpInv, LatchedLast, WasSent
  <2>2. Latched => SentBefore(radio.rx, next', taken', queued', frames')
    BY <2>1, <1>1 DEF SentBefore
  <2> QED
    BY <2>2, <1>1, <1>2 DEF LatchedLast, WasSent
<1>6. DeliveredWhole'
  BY <1>1 DEF UpInv, DeliveredWhole
<1>7. Behind'
  BY <1>1, <1>2 DEF UpInv, Behind, Passed
<1> QED
  BY <1>1, <1>3, <1>4, <1>5, <1>6, <1>7 DEF UpInv

\* What the queue keeps when its head is taken.
LEMMA QueueTail ==
  ASSUME NEW s \in Seq(AllFrames), s # <<>>
  PROVE  /\ Head(s) = s[1] /\ 1 \in DOMAIN s /\ Head(s) \in AllFrames
         /\ Tail(s) \in Seq(AllFrames)
         /\ \A i \in DOMAIN Tail(s) : /\ i + 1 \in DOMAIN s /\ Tail(s)[i] = s[i + 1]
                                      /\ i \in Nat /\ 1 < i + 1
OBVIOUS

\* A packet that is whole goes up behind the earlier ones.
LEMMA UpDeliver ==
  ASSUME UpInv, UNCHANGED <<taken, queued, frames, next>>, rx_queue # <<>>,
         radio'.rx = radio.rx, Latched' <=> Latched,
         rx_queue' = Tail(rx_queue), pending' = NoFrame,
         NEW d, delivered' = Append(delivered, d),
         NEW p \in Packets, d = frames_for_tx(p), d \in Seq(AllFrames),
         p[1] = "peer" => /\ Below(p[2], next)
                          /\ \A k \in DOMAIN Tail(rx_queue) : Below(p[2], Tail(rx_queue)[k])
                          /\ Latched => Below(p[2], radio.rx),
         p[1] = "peer" => \A n : Passed(n) => n < p[2]
  PROVE  ToSend' /\ HeldFirst' /\ delivered' \in Seq(Seq(AllFrames)) /\ DeliveredWhole' /\ Behind'
<1>1. ToSend'
  BY DEF UpInv, ToSend
<1>2. HeldFirst'
  BY DEF HeldFirst
<1> DEFINE m == Len(delivered) + 1
<1>3. delivered \in Seq(Seq(AllFrames))
  BY DEF UpInv
<1>4. /\ delivered' \in Seq(Seq(AllFrames))
      /\ DOMAIN delivered' = DOMAIN delivered \cup {m} /\ delivered'[m] = d
      /\ \A i \in DOMAIN delivered : delivered'[i] = delivered[i] /\ i < m /\ i \in Nat
      /\ m \in Nat
  BY <1>3
<1> HIDE DEF m
<1>5. d[1].packet = p
  BY FramesOf, PacketInOrder
<1>6. rx_queue \in Seq(AllFrames)
  BY DEF UpInv, QueueInOrder
<1>7. DeliveredWhole'
  <2>1. \A i \in DOMAIN delivered' : \E q \in Packets : delivered'[i] = frames_for_tx(q)
    BY <1>4 DEF UpInv, DeliveredWhole
  <2>2. ASSUME NEW i \in DOMAIN delivered', NEW j \in DOMAIN delivered', i < j,
               delivered'[i][1].packet[1] = "peer", delivered'[j][1].packet[1] = "peer"
        PROVE  delivered'[i][1].packet[2] < delivered'[j][1].packet[2]
    <3>1. i \in DOMAIN delivered
      BY <2>2, <1>4
    <3>2. CASE j \in DOMAIN delivered
      BY <2>2, <3>1, <3>2, <1>4 DEF UpInv, DeliveredWhole
    <3>3. CASE j = m
      <4>1. Passed(delivered[i][1].packet[2])
        BY <2>2, <3>1, <1>4 DEF UpInv, Behind
      <4>2. p[1] = "peer" /\ delivered'[j][1].packet = p
        BY <2>2, <3>3, <1>4, <1>5
      <4> QED
        BY <4>1, <4>2, <3>1, <1>4
    <3> QED
      BY <3>2, <3>3, <1>4
  <2> QED
    BY <2>1, <2>2 DEF DeliveredWhole
<1>8. Behind'
  <2>1. ASSUME NEW i \in DOMAIN delivered', delivered'[i][1].packet[1] = "peer",
               NEW n, n = delivered'[i][1].packet[2]
        PROVE  /\ Below(n, next') /\ (Latched' => Below(n, radio'.rx))
               /\ \A k \in DOMAIN rx_queue' : Below(n, rx_queue'[k])
    <3>1. /\ Below(n, next) /\ (Latched => Below(n, radio.rx))
          /\ \A k \in DOMAIN Tail(rx_queue) : Below(n, Tail(rx_queue)[k])
      <4>1. CASE i = m
        BY <4>1, <2>1, <1>4, <1>5
      <4>2. CASE i \in DOMAIN delivered
        <5>1. Passed(n)
          BY <4>2, <2>1, <1>4 DEF UpInv, Behind
        <5> QED
          BY <5>1, <1>6, QueueTail DEF Passed
      <4> QED
        BY <4>1, <4>2, <1>4
    <3> QED
      BY <3>1
  <2> QED
    BY <2>1 DEF Behind, Passed
<1> QED
  BY <1>1, <1>2, <1>4, <1>7, <1>8

\* The reassembler takes the head of the queue: a whole packet, the second half
\* of the one it holds, or a half to hold.
LEMMA UpForward ==
  ASSUME HalvesDiffer, ServiceInv, UpInv, Forward
  PROVE  UpInv'
<1> DEFINE f == Head(rx_queue)
<1>1. /\ rx_queue # <<>> /\ rx_queue' = Tail(rx_queue)
      /\ pending' = Held(f) /\ delivered' = delivered \o Accepted(f)
      /\ UNCHANGED <<radio, taken, queued, frames, next>>
  BY DEF Forward, sending, air
<1>2. rx_queue \in Seq(AllFrames) /\ delivered \in Seq(Seq(AllFrames)) /\ NextType
  BY DEF UpInv, QueueInOrder, ServiceInv
<1>3. /\ f = rx_queue[1] /\ 1 \in DOMAIN rx_queue /\ f \in AllFrames
      /\ Tail(rx_queue) \in Seq(AllFrames)
      /\ \A i \in DOMAIN Tail(rx_queue) : /\ i + 1 \in DOMAIN rx_queue /\ Tail(rx_queue)[i] = rx_queue[i + 1]
                                          /\ i \in Nat /\ 1 < i + 1
  BY <1>1, <1>2, QueueTail
<1> HIDE DEF f
<1>4. WasSent(f) /\ Earlier(f, next)
  BY <1>3 DEF UpInv, QueueInOrder, WasSent, SentBefore
<1>5. \A k \in DOMAIN Tail(rx_queue) : Earlier(f, Tail(rx_queue)[k]) /\ Tail(rx_queue)[k] \in AllFrames
  BY <1>2, <1>3 DEF UpInv, QueueInOrder
<1>6. Latched => Earlier(f, radio.rx) /\ radio.rx \in AllFrames
  BY <1>3 DEF UpInv, LatchedLast, WasSent, SentBefore
<1>7. (Latched' <=> Latched) /\ radio'.rx = radio.rx
  BY <1>1 DEF Latched
<1>8. QueueInOrder'
  <2>1. \A i \in DOMAIN Tail(rx_queue) : SentBefore(Tail(rx_queue)[i], next, taken, queued, frames)
    BY <1>3 DEF UpInv, QueueInOrder, WasSent
  <2>2. \A i, j \in DOMAIN Tail(rx_queue) : i < j => i + 1 < j + 1
    BY <1>3
  <2>3. \A i, j \in DOMAIN Tail(rx_queue) : i < j => Earlier(Tail(rx_queue)[i], Tail(rx_queue)[j])
    BY <2>2, <1>3 DEF UpInv, QueueInOrder
  <2> QED
    BY <2>1, <2>3, <1>1, <1>3 DEF QueueInOrder, WasSent
<1>9. LatchedLast'
  <2>1. Latched => /\ SentBefore(radio.rx, next, taken, queued, frames)
                   /\ \A i \in DOMAIN Tail(rx_queue) : Earlier(Tail(rx_queue)[i], radio.rx)
    BY <1>3 DEF UpInv, LatchedLast, WasSent
  <2> QED
    BY <2>1, <1>1, <1>7 DEF LatchedLast, WasSent
<1>10. ASSUME f.half # 1, f.packet[1] = "peer"
       PROVE  /\ Below(f.packet[2], next)
              /\ \A k \in DOMAIN Tail(rx_queue) : Below(f.packet[2], Tail(rx_queue)[k])
              /\ Latched => Below(f.packet[2], radio.rx)
  <2>1. Below(f.packet[2], next)
    BY <1>2, <1>3, <1>4, <1>10, EarlierNext DEF Below
  <2>2. ASSUME NEW g \in AllFrames, Earlier(f, g)
        PROVE  Below(f.packet[2], g)
    BY <2>2, <1>3, <1>10, EarlierWhole DEF Below
  <2> QED
    BY <2>1, <2>2, <1>5, <1>6
<1>11. CASE f.half = 0
  <2>1. f.packet \in Packets /\ frames_for_tx(f.packet) = <<f>>
    BY <1>3, <1>11, FrameParts, FramesOf
  <2>2. pending' = NoFrame /\ Accepted(f) = <<<<f>>>>
    BY <1>1, <1>11 DEF Held, Accepted
  <2>3. <<f>> \in Seq(AllFrames)
    BY <1>3
  <2>4. delivered' = Append(delivered, <<f>>)
    <3> DEFINE d == <<f>>
    <3>1. delivered' = delivered \o <<d>> /\ d \in Seq(AllFrames)
      BY <1>1, <2>2, <2>3
    <3> HIDE DEF d
    <3>2. delivered' = Append(delivered, d)
      BY <3>1, <1>2
    <3> QED
      BY <3>2 DEF d
  <2>5. f.packet[1] = "peer" => \A n : Passed(n) => n < f.packet[2]
    BY <1>3 DEF Passed, Below
  <2>6. f.packet[1] = "peer" => /\ Below(f.packet[2], next)
                                /\ \A k \in DOMAIN Tail(rx_queue) : Below(f.packet[2], Tail(rx_queue)[k])
                                /\ Latched => Below(f.packet[2], radio.rx)
    BY <1>10, <1>11
  <2>7. ToSend' /\ HeldFirst' /\ delivered' \in Seq(Seq(AllFrames)) /\ DeliveredWhole' /\ Behind'
    BY <2>1, <2>2, <2>3, <2>4, <2>5, <2>6, <1>1, <1>7, UpDeliver
  <2> QED
    BY <2>7, <1>8, <1>9 DEF UpInv
<1>12. CASE f.half # 0 /\ Joins(f)
  <2> DEFINE p == f.packet
             d == <<pending, f>>
  <2>1. pending \in AllFrames /\ pending.half # 0 /\ pending # NoFrame /\ Earlier(pending, f)
    BY <1>3, <1>12 DEF Joins, UpInv, HeldFirst, WasSent, SentBefore
  <2>2. pending.packet = p /\ p \in Split /\ p \in Packets
    <3>1. p \in Split /\ pending.packet \in Split /\ p \in Packets
      BY <2>1, <1>3, <1>12, FrameParts
    <3>2. Nibble[pending.packet] = Nibble[p]
      BY <1>12 DEF Joins
    <3> QED
      BY <3>1, <3>2, <2>1, <1>1, <1>12 DEF HalvesDiffer, f
  <2>3. pending.half = 1 /\ f.half = 2
    <3>1. pending.half < f.half
      BY <2>1, <2>2, FrameNumbers DEF Earlier
    <3>2. pending.half \in {1, 2} /\ f.half \in {1, 2}
      BY <2>1, <2>2, <1>3, FrameParts
    <3> QED
      BY <3>1, <3>2
  <2>4. d = frames_for_tx(p)
    <3>1. pending = Frame(p, 1) /\ f = Frame(p, 2)
      BY <2>1, <2>2, <2>3, <1>3, FrameParts
    <3> QED
      BY <3>1, <2>2, FramesOf
  <2>5. d \in Seq(AllFrames)
    BY <2>1, <1>3
  <2>6. pending' = NoFrame /\ Accepted(f) = <<d>>
    BY <1>1, <1>12 DEF Held, Accepted
  <2> HIDE DEF d
  <2>7. delivered' = Append(delivered, d)
    BY <2>5, <2>6, <1>1, <1>2
  <2>8. p[1] = "peer" => \A n : Passed(n) => n < p[2]
    BY <2>1, <2>2 DEF Passed, Below
  <2>9. p[1] = "peer" => /\ Below(p[2], next)
                         /\ \A k \in DOMAIN Tail(rx_queue) : Below(p[2], Tail(rx_queue)[k])
                         /\ Latched => Below(p[2], radio.rx)
    BY <2>3, <1>10
  <2> HIDE DEF p
  <2>10. ToSend' /\ HeldFirst' /\ delivered' \in Seq(Seq(AllFrames)) /\ DeliveredWhole' /\ Behind'
    BY <2>2, <2>4, <2>5, <2>6, <2>7, <2>8, <2>9, <1>1, <1>7, UpDeliver
  <2> QED
    BY <2>10, <1>8, <1>9 DEF UpInv
<1>13. CASE f.half # 0 /\ ~Joins(f)
  <2>1. pending' = f /\ Accepted(f) = <<>>
    BY <1>1, <1>13 DEF Held, Accepted
  <2>2. delivered' = delivered
    <3> DEFINE S == Seq(AllFrames)
    <3>1. delivered' = delivered \o <<>> /\ delivered \in Seq(S)
      BY <2>1, <1>1, <1>2
    <3> HIDE DEF S
    <3> QED
      BY <3>1
  <2>3. ToSend'
    BY <1>1 DEF UpInv, ToSend
  <2>4. HeldFirst'
    BY <2>1, <1>1, <1>4, <1>5, <1>6, <1>7, <1>13 DEF HeldFirst, WasSent
  <2>5. DeliveredWhole'
    BY <2>2 DEF UpInv, DeliveredWhole
  <2>6. Behind'
    <3>1. ASSUME NEW n, Passed(n)
          PROVE  /\ Below(n, next) /\ Below(n, f) /\ (Latched => Below(n, radio.rx))
                 /\ \A k \in DOMAIN Tail(rx_queue) : Below(n, Tail(rx_queue)[k])
      BY <3>1, <1>3 DEF Passed
    <3>2. ASSUME NEW n, Passed(n)
          PROVE  /\ Below(n, next') /\ Below(n, pending') /\ (Latched' => Below(n, radio'.rx))
                 /\ \A k \in DOMAIN rx_queue' : Below(n, rx_queue'[k])
      BY <3>1, <3>2, <2>1, <1>1, <1>7
    <3> QED
      BY <3>2, <2>2 DEF UpInv, Behind, Passed
  <2> QED
    BY <2>2, <2>3, <2>4, <2>5, <2>6, <1>2, <1>8, <1>9 DEF UpInv
<1> QED
  BY <1>11, <1>12, <1>13

\* Every step keeps the invariant.
LEMMA UpStep ==
  ASSUME HalvesDiffer, ServiceInv, UpInv, [LoRaNext]_loraVars
  PROVE  UpInv'
<1>1. CASE Validate \/ OpenTooEarly \/ EndSession \/ Delay \/ Stop \/ Cancel \/ Submit \/ UNCHANGED loraVars
  <2>1. UNCHANGED <<radio, queued, frames, taken, next, rx_queue, pending, delivered>>
    BY <1>1 DEF Validate, OpenTooEarly, EndSession, Delay, Stop, Cancel, Submit, loraVars, sending, receiving, air
  <2> QED
    BY <2>1, UpAside DEF Latched
<1>2. CASE OpenChipset
  <2>1. PICK r : /\ r \in Then(Then(build(radio), ChipInit), StartReceive)
                 /\ radio' = r.chip \/ radio' \in Dropped(r.chip)
    BY <1>2 DEF OpenChipset
  <2>2. chipset \in ChipsetNames /\ radio \in Chips
    BY DEF ServiceInv
  <2>3. SameFrames(radio, r.chip) /\ r.chip \in Chips
    BY <2>1, <2>2, CallOpen DEF Then, SameFrames
  <2>4. radio' = r.chip \/ Quiet(r.chip, radio')
    <3>1. radio' \in Dropped(r.chip) => Quiet(r.chip, radio')
      BY <2>2, <2>3, CallDrop
    <3> QED
      BY <3>1, <2>1 DEF Then
  <2>5. radio'.rx = radio.rx /\ (Latched' => Latched)
    BY <2>3, <2>4 DEF Quiet, SameFrames, Latched
  <2>6. UNCHANGED <<queued, frames, taken, next, rx_queue, pending, delivered>>
    BY <1>2 DEF OpenChipset, sending, receiving, air
  <2> QED
    BY <2>5, <2>6, UpAside
<1>3. CASE FrameOnAirEnds
  <2>1. radio \in Chips /\ radio' = TxDone(radio)
    BY <1>3 DEF ServiceInv, FrameOnAirEnds
  <2>2. radio'.rx = radio.rx /\ (Latched' => Latched)
    BY <2>1, StepsTxDone DEF Latched
  <2>3. UNCHANGED <<queued, frames, taken, next, rx_queue, pending, delivered>>
    BY <1>3 DEF FrameOnAirEnds, sending, receiving, air
  <2> QED
    BY <2>2, <2>3, UpAside
<1> QED
  BY <1>1, <1>2, <1>3, UpForward, UpPoll, UpTake, UpTakeQueued, UpTransmit, UpClose, UpPeer
  DEF LoRaNext, SessionStep, TransmitStep

\* As long as no halves of two packets with the same nibble meet in the
\* reassembler, what a LoRa interface passes up are packets, each whole, the
\* peer's in their order and once each, for any loss on air, any failure of a
\* driver and any number of reconnections (Reassembler::accept, process_irq,
\* spawn).
THEOREM DeliveredAreWhole == LoRaSpec /\ []HalvesDiffer => []DeliveredWhole
<1>1. LoRaInit => ServiceInv /\ UpInv
  BY ServiceStart, UpStart
<1>2. ServiceInv /\ UpInv /\ HalvesDiffer /\ [LoRaNext]_loraVars => ServiceInv' /\ UpInv'
  BY ServiceStep, UpStep
<1>3. UpInv => DeliveredWhole
  BY DEF UpInv
<1> QED
  BY <1>1, <1>2, <1>3, PTL DEF LoRaSpec

\* Between packets with different nibbles no such halves meet.
LEMMA DistinctHalves ==
  ASSUME \A p, q \in Split : Nibble[p] = Nibble[q] => p = q, UpInv
  PROVE  HalvesDiffer
<1> DEFINE f == Head(rx_queue)
<1> SUFFICES ASSUME pending # NoFrame, rx_queue # <<>>, f.half # 0, f.packet # pending.packet
             PROVE  Nibble[f.packet] # Nibble[pending.packet]
  BY DEF HalvesDiffer
<1>1. rx_queue \in Seq(AllFrames) /\ pending \in AllFrames /\ pending.half # 0
  BY DEF UpInv, QueueInOrder, HeldFirst, WasSent, SentBefore
<1>2. f \in AllFrames
  BY <1>1, QueueTail
<1>3. f.packet \in Split /\ pending.packet \in Split
  BY <1>1, <1>2, FrameParts
<1> QED
  BY <1>3

\* So it is between senders whose split packets have different nibbles: no
\* other packet, loss, failure or reconnection breaks what goes up.
COROLLARY WholeIfNibblesDiffer ==
  ASSUME \A p, q \in Split : Nibble[p] = Nibble[q] => p = q
  PROVE  LoRaSpec => []DeliveredWhole
<1>1. LoRaInit => ServiceInv /\ UpInv
  BY ServiceStart, UpStart
<1>2. ServiceInv /\ UpInv /\ [LoRaNext]_loraVars => ServiceInv' /\ UpInv'
  BY ServiceStep, UpStep, DistinctHalves
<1>3. UpInv => DeliveredWhole
  BY DEF UpInv
<1> QED
  BY <1>1, <1>2, <1>3, PTL DEF LoRaSpec

=============================================================================
