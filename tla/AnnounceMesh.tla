---------------------------- MODULE AnnounceMesh ----------------------------
(***************************************************************************)
(* How nodes learn the way to a destination: its owner announces it, nodes *)
(* install paths (module PathTable) and relays retransmit (module          *)
(* AnnounceTable); a node without a path asks for one, and relays search   *)
(* for it on its behalf (src/src/transport.rs, handle_announce and         *)
(* handle_path_request, src/src/transport/path_requests.rs).               *)
(*                                                                         *)
(* One destination is followed; the node that owns it stands for its       *)
(* address.  Interfaces are point to point: an interface of a node is      *)
(* named by the node at its other end.  Packets that the packet task and   *)
(* the retransmission task flush overtake each other.  An announce or a    *)
(* request that rate or burst limits refuse counts as lost; the limiter of *)
(* announce_limits.rs never blocks, for it is made without a rate.         *)
(***************************************************************************)
EXTENDS Integers, Sequences, FiniteSets, AnnounceTable

CONSTANTS
  Nodes,
  Owner,             \* the node that owns the destination
  TransportNodes,    \* the nodes whose configuration has retransmit set
  Edges,             \* the point-to-point connections, sets of two nodes
  Mode,              \* Mode[n][i]: the mode of interface i of node n
  NoTransport,       \* the transport id of a packet that has none
  MAX_RANDOM_BLOBS,  \* 64 in the code
  Times,             \* the seconds in which announces are emitted
  MaxEmissions,      \* bound: emissions of the owner
  Budget             \* bound: how often each kind of event may happen

Modes == {"Full", "PointToPoint", "AccessPoint", "Roaming", "Boundary", "Gateway",
          "Internal"}

\* What the environment does: packets get lost, paths and discovery requests
\* expire, old announces leave the cache, an operator drops the announce queues,
\* applications announce and ask for paths.
Kinds == {"announce", "request", "lose", "forget", "expire", "prune", "drop", "old"}

ASSUME AnnounceMeshAssumption ==
  /\ IsFiniteSet(Nodes)
  /\ Owner \in Nodes
  /\ TransportNodes \subseteq Nodes
  /\ Edges \subseteq {{a, b} : a, b \in Nodes}
  /\ Mode \in [Nodes -> [Nodes -> Modes]]
  /\ NoTransport \notin Nodes
  /\ Anyone \notin Nodes
  /\ LOCAL_REBROADCASTS_MAX \in Nat \ {0}
  /\ MAX_RANDOM_BLOBS \in Nat \ {0}
  /\ Times \subseteq Nat
  /\ MaxEmissions \in Nat
  /\ Budget \in [Kinds -> Nat]

VARIABLES
  path_table,      \* every node's path table
  announce_table,  \* every node's announce table, its slots for Owner
  tags,            \* the path request tags that each node has seen
  discovery,       \* the interface whose request each node searches for, if any
  emissions,       \* the blobs that the owner has used
  net,             \* the packets in flight
  budget           \* what is left of Budget

vars == <<path_table, announce_table, tags, discovery, emissions, net, budget>>

Blobs == [time : Times, nonce : 1..MaxEmissions]

\* The path table's operators; every interface is up, with equal gravity.
Paths == INSTANCE PathTable WITH
  map <- path_table, active <- Nodes, Destinations <- {Owner}, Transports <- Nodes,
  Interfaces <- Nodes, Gravity <- [i \in Nodes |-> 0], Bitrate <- [i \in Nodes |-> -1],
  Nonces <- 1..MaxEmissions, MaxHops <- Cardinality(Nodes)

Neighbours(n) == {m \in Nodes : {n, m} \in Edges /\ m # n}

HasPath(n) == Owner \in DOMAIN path_table[n]

Path(n) == path_table[n][Owner]

Spend(kind) == budget[kind] > 0 /\ budget' = [budget EXCEPT ![kind] = @ - 1]

-----------------------------------------------------------------------------
(* Packets.  copy tells the transmissions of one announce apart.           *)

\* The owner drops announces of its own destination at once (handle_announce):
\* none is put on its way to it.
AnnounceTo(n, ifaces, blob, hops, transport, response, copy) ==
  {[type |-> "announce", blob |-> blob, hops |-> hops, transport |-> transport,
    response |-> response, copy |-> copy, from |-> n, to |-> i] : i \in ifaces \ {Owner}}

\* A path request names its sender if that is a transport node.
RequestTo(n, ifaces, tag) ==
  {[type |-> "request", tag |-> tag,
    requestor |-> IF n \in TransportNodes THEN n ELSE NoTransport,
    from |-> n, to |-> i] : i \in ifaces}

\* The interfaces of n on which send_flush broadcasts an announce that came in
\* on an interface of mode source; announces of n itself are restrained only on
\* access points.
AnnounceIfaces(n, local, source) ==
  {i \in Neighbours(n) :
     /\ Mode[n][i] # "AccessPoint"
     /\ ~local =>
          /\ Mode[n][i] = "Internal" => source # "Boundary"
          /\ Mode[n][i] = "Roaming" => source \notin {"Roaming", "Boundary"}
          /\ Mode[n][i] = "Boundary" => source # "Roaming"}

\* The interfaces on which send_flush broadcasts other packets of interface
\* iface.
BroadcastIfaces(n, iface) ==
  {i \in Neighbours(n) \ {iface} :
     /\ Mode[n][i] # "AccessPoint"
     /\ Mode[n][i] = "Internal" => Mode[n][iface] # "Boundary"}

\* Where an entry of the announce table is sent: a response to the interface
\* that asked, anything else everywhere, the interface it came from included.
Retransmission(n, entry) ==
  IF entry.response_to_iface # Anyone
  THEN AnnounceTo(n, {entry.response_to_iface}, entry.blob, entry.hops, n, TRUE, entry.retries)
  ELSE AnnounceTo(n, AnnounceIfaces(n, FALSE, Mode[n][entry.received_from]),
                  entry.blob, entry.hops, n, FALSE, entry.retries)

Send(p, packets) == net' = (net \ {p}) \cup packets

-----------------------------------------------------------------------------
(* The owner                                                               *)

\* The blob of the next emission: never an earlier second, always a new nonce.
Emit(blob) ==
  /\ Cardinality(emissions) < MaxEmissions
  /\ blob \in Blobs
  /\ blob.nonce = Cardinality(emissions) + 1
  /\ \A b \in emissions : b.time <= blob.time
  /\ emissions' = emissions \cup {blob}

\* Transport::send_announce
send_announce(blob) ==
  /\ Spend("announce") /\ Emit(blob)
  /\ net' = net \cup AnnounceTo(Owner, AnnounceIfaces(Owner, TRUE, "Full"), blob, 0,
                                NoTransport, FALSE, 0)
  /\ UNCHANGED <<path_table, announce_table, tags, discovery>>

-----------------------------------------------------------------------------
(* Announces                                                               *)

\* What the path table is told of an announce; the hop count is incremented on
\* reception.
Received(p) ==
  [destination |-> Owner, hops |-> p.hops + 1, blob |-> p.blob,
   via |-> IF p.transport = NoTransport THEN Owner ELSE p.transport, iface |-> p.from]

\* The announce is taken for an echo of our own retransmission.
IsEcho(n, p) ==
  n \in TransportNodes /\ p.transport # NoTransport /\ announce_table[n].map # {}

\* Mutant of Relays: announces are relayed whether or not they update the path.
RelaysAll(n, p) == ~p.response /\ n \in TransportNodes

Relays(n, p) ==
  /\ ~p.response /\ n \in TransportNodes
  /\ Paths!would_update_path(path_table[n], Received(p))

\* handle_announce of a node that does not own the destination.  Whoever waits
\* for the path is answered, even if the announce changes nothing here.
handle_announce(p) ==
  LET n == p.to
      a == Received(p)
  IN
  /\ p \in net /\ p.type = "announce"
  /\ announce_table' = [announce_table EXCEPT ![n] =
       IF IsEcho(n, p) THEN EchoReceived(@, a.hops)
       ELSE IF Relays(n, p) THEN Add(@, p.blob, a.hops, p.from) ELSE @]
  /\ path_table' = [path_table EXCEPT ![n] = Paths!Install(@, a)]
  /\ discovery' = [discovery EXCEPT ![n] = {}]
  /\ Send(p, AnnounceTo(n, discovery[n], p.blob, a.hops, n, TRUE, 0))
  /\ UNCHANGED <<tags, emissions, budget>>

\* The cache loses what is older than ANNOUNCE_CACHE_MAX_AGE at the start of a
\* cycle.
Pruned(table) == [table EXCEPT !.cache = {}]

\* retransmit_announces: to_retransmit ...
retransmit_announces(n) ==
  \E table \in {announce_table[n], Pruned(announce_table[n])} :
    /\ ToRetransmit(table) # announce_table[n]
    /\ IF table = announce_table[n] THEN UNCHANGED budget ELSE Spend("prune")
    /\ announce_table' = [announce_table EXCEPT ![n] = ToRetransmit(table)]
    /\ net' = net \cup UNION {Retransmission(n, e) : e \in Outgoing(table)}
    /\ UNCHANGED <<path_table, tags, discovery, emissions>>

\* ... and, with announce_forever, to_retransmit_old once in a while.
retransmit_old(n) ==
  LET table == ToRetransmit(announce_table[n])
      old == IF table.responses = {} THEN table.cache ELSE {}
  IN
  /\ old # {} /\ Spend("old")
  /\ announce_table' = [announce_table EXCEPT ![n] = table]
  /\ net' = net \cup UNION {Retransmission(n, e) : e \in Outgoing(announce_table[n]) \cup old}
  /\ UNCHANGED <<path_table, tags, discovery, emissions>>

\* PATHFINDER_G passes after a retransmission.
timeout(n) ==
  /\ \E e \in announce_table[n].map : ~e.due
  /\ announce_table' = [announce_table EXCEPT ![n].map = {[e EXCEPT !.due = TRUE] : e \in @}]
  /\ UNCHANGED <<path_table, tags, discovery, emissions, net, budget>>

\* rpc_drop_announce_queues
drop_announce_queues(n) ==
  /\ announce_table[n] # EmptyTable /\ Spend("drop")
  /\ announce_table' = [announce_table EXCEPT ![n] = EmptyTable]
  /\ UNCHANGED <<path_table, tags, discovery, emissions, net>>

-----------------------------------------------------------------------------
(* Path requests                                                           *)

\* Transport::request_path, with a fresh tag; its rate limit is the budget.
request_path(n) ==
  /\ n # Owner /\ Spend("request")
  /\ net' = net \cup RequestTo(n, Neighbours(n), <<n, budget["request"]>>)
  /\ UNCHANGED <<path_table, announce_table, tags, discovery, emissions>>

\* PathRequests::decode: a request is handled once, whatever way it comes.
TakeTag(p) ==
  /\ p.tag \notin tags[p.to]
  /\ tags' = [tags EXCEPT ![p.to] = @ \cup {p.tag}]

\* A request that was seen before, or that means nothing to the node.
ignore_request(p) ==
  /\ p \in net /\ p.type = "request"
  /\ \/ p.tag \in tags[p.to] /\ UNCHANGED tags
     \/ p.to \notin TransportNodes \cup {Owner} /\ TakeTag(p)
  /\ Send(p, {})
  /\ UNCHANGED <<path_table, announce_table, discovery, emissions, budget>>

\* The owner answers with a new emission.
owner_request(p, blob) ==
  /\ p \in net /\ p.type = "request" /\ p.to = Owner
  /\ TakeTag(p) /\ Emit(blob)
  /\ Send(p, AnnounceTo(Owner, {p.from}, blob, 0, NoTransport, TRUE, 0))
  /\ UNCHANGED <<path_table, announce_table, discovery, budget>>

\* The request comes from the very node the path leads to.
Circular(n, p) == p.requestor = Path(n).received_from

\* A relay that knows the path answers from its announce table, if it can, or
\* at once with the announce that the path table kept.
answer_request(p) ==
  LET n == p.to IN
  /\ p \in net /\ p.type = "request" /\ n \in TransportNodes \ {Owner} /\ HasPath(n)
  /\ TakeTag(p)
  /\ IF Circular(n, p)
     THEN Send(p, {}) /\ UNCHANGED announce_table
     ELSE IF Answerable(announce_table[n]) # {}
     THEN /\ Send(p, {})
          /\ announce_table' =
               [announce_table EXCEPT ![n] = AddResponse(@, p.from, Path(n).hops)]
     ELSE /\ Send(p, AnnounceTo(n, {p.from}, Path(n).blob, Path(n).hops, n, TRUE, 0))
          /\ UNCHANGED announce_table
  /\ UNCHANGED <<path_table, discovery, emissions, budget>>

\* Mutant of SearchesFor: access points are left out.
SearchesForOthers(n, iface) ==
  Mode[n][iface] \in {"Gateway", "Roaming", "Internal", "Boundary"}

\* DISCOVER_PATHS_FOR and the boundary search; recursive_prs is off.
SearchesFor(n, iface) ==
  Mode[n][iface] \in {"AccessPoint", "Gateway", "Roaming", "Internal", "Boundary"}

\* The interfaces the search goes to, and where it goes if there are none.
SearchIfaces(n, iface) ==
  LET others == {i \in Neighbours(n) \ {iface} :
                   Mode[n][iface] = "Boundary" => Mode[n][i] \in {"Boundary", "Gateway"}}
  IN  IF others # {} THEN others ELSE BroadcastIfaces(n, iface)

\* PathRequests::allow_recursive: one search at a time.
SearchFree(n) == discovery[n] = {}

\* A relay that does not know the path asks on, with the same tag.
search_request(p) ==
  LET n == p.to IN
  /\ p \in net /\ p.type = "request" /\ n \in TransportNodes \ {Owner} /\ ~HasPath(n)
  /\ TakeTag(p)
  /\ IF SearchesFor(n, p.from) /\ SearchFree(n)
     THEN /\ discovery' = [discovery EXCEPT ![n] = {p.from}]
          /\ Send(p, RequestTo(n, SearchIfaces(n, p.from), p.tag))
     ELSE Send(p, {}) /\ UNCHANGED discovery
  /\ UNCHANGED <<path_table, announce_table, emissions, budget>>

-----------------------------------------------------------------------------
(* The environment                                                         *)

lose(p) ==
  /\ p \in net /\ Spend("lose")
  /\ Send(p, {})
  /\ UNCHANGED <<path_table, announce_table, tags, discovery, emissions>>

\* The path of a node expires and is culled.
forget(n) ==
  /\ HasPath(n) /\ Spend("forget")
  /\ path_table' = [path_table EXCEPT ![n] = <<>>]
  /\ UNCHANGED <<announce_table, tags, discovery, emissions, net>>

\* PATH_REQUEST_TIMEOUT passes before an announce arrives.
discovery_expires(n) ==
  /\ discovery[n] # {} /\ Spend("expire")
  /\ discovery' = [discovery EXCEPT ![n] = {}]
  /\ UNCHANGED <<path_table, announce_table, tags, emissions, net>>

Init ==
  /\ path_table = [n \in Nodes |-> <<>>]
  /\ announce_table = [n \in Nodes |-> EmptyTable]
  /\ tags = [n \in Nodes |-> {}]
  /\ discovery = [n \in Nodes |-> {}]
  /\ emissions = {}
  /\ net = {}
  /\ budget = Budget

Receive(p) ==
  \/ handle_announce(p)
  \/ ignore_request(p) \/ answer_request(p) \/ search_request(p)
  \/ \E blob \in Blobs : owner_request(p, blob)

Next ==
  \/ \E blob \in Blobs : send_announce(blob)
  \/ \E p \in net : Receive(p) \/ lose(p)
  \/ \E n \in Nodes :
       \/ retransmit_announces(n) \/ retransmit_old(n) \/ timeout(n)
       \/ drop_announce_queues(n)
       \/ request_path(n)
       \/ forget(n) \/ discovery_expires(n)

Spec == Init /\ [][Next]_vars

\* Packets that are not lost arrive, the retransmission task runs and its
\* clocks advance.
Fairness ==
  /\ WF_vars(\E p \in net : Receive(p))
  /\ \A n \in Nodes : WF_vars(retransmit_announces(n)) /\ WF_vars(timeout(n))

FairSpec == Spec /\ Fairness

-----------------------------------------------------------------------------
Spent(kind) == Budget[kind] - budget[kind]

Announced == {p \in net : p.type = "announce"}

\* Every copy of one emission leads home: as long as no path was forgotten, the
\* next hop of every path is the destination itself or a node that has a path
\* of fewer hops, so packets cannot circle.  Echoes, retransmissions, responses
\* from the announce table, its cache and the path table, and answers to waiting
\* requests all carry hop counts that keep this so (handle_announce,
\* handle_path_request, AnnounceTable::add_response).
PathsLeadHome ==
  Cardinality(emissions) = 1 /\ Spent("forget") = 0 =>
  \A n \in Nodes :
    HasPath(n) /\ Path(n).received_from # Owner
    => LET next == Path(n).received_from IN
       HasPath(next) /\ Path(next).hops < Path(n).hops

\* What handle_announce says of gating on would_update_path: circulating copies
\* do not re-arm the announce tables, so no announce travels on with an inflated
\* hop count.
HopsNotInflated ==
  Cardinality(emissions) = 1 /\ Spent("forget") = 0 =>
  \A p \in Announced : p.hops < Cardinality(Nodes)

\* Nothing interfered that would excuse a failure to deliver.
Undisturbed ==
  \A kind \in {"lose", "forget", "expire", "drop"} : Spent(kind) = 0

\* An announce spreads: if nothing is lost, dropped or forgotten, every node
\* gets a path.  Echo counting, which silences relays, never does so before a
\* relay was heard (AnnounceTable::echo_received).
AnnounceSpreads ==
  \A n \in Nodes \ {Owner} : emissions # {} ~> HasPath(n) \/ ~Undisturbed

Asks(n) == \E p \in net : p.type = "request" /\ p.tag[1] = n

\* A path request is answered: relays that do not know the path search for it
\* and pass the answer back to whoever waits, across access points that keep
\* announces from the requesting node (handle_path_request, take_discovery).
RequestResolves == \A n \in Nodes : Asks(n) ~> HasPath(n) \/ ~Undisturbed

=============================================================================
