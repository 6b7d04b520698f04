---------------------------- MODULE LinkNetwork ----------------------------
(***************************************************************************)
(* The life of one link between two nodes across relays: the link request, *)
(* its retransmissions, the link request proof on its way back, data,      *)
(* closing, and the housekeeping that makes links stale or fails them      *)
(* (src/src/transport.rs, src/src/destination/link.rs and, for the relays, *)
(* module LinkTable).                                                      *)
(*                                                                         *)
(* A link id is derived from the initiator's ephemeral keys, so a later    *)
(* link() call makes another link: one link id is followed here.  The      *)
(* responder derives fresh keys every time it creates the in-link; they    *)
(* are numbered 1, 2, ... and a packet of the link carries the number of   *)
(* the keys it was made with.                                              *)
(*                                                                         *)
(* Interfaces are point to point: an interface of a node is named by the   *)
(* node at its other end.  Packets may be lost and overtake each other.    *)
(* Left out: keepalives, message proofs, MTU signalling and requests over  *)
(* the link; the transport id of a request, so that a relay handles every  *)
(* request it receives; relaying by the two ends themselves.               *)
(***************************************************************************)
EXTENDS Integers, FiniteSets, LinkTable

CONSTANTS
  Initiator, Responder, Relays,
  NoIface,          \* no interface (None)
  Edges,            \* the point-to-point connections, sets of two nodes
  Routes,           \* the paths to the responder's destination that the path
                    \* table of the initiator and of each relay may hold
  PATHFINDER_M,     \* 128 in the code
  RetryChecks,      \* LINK_REQUEST_RETRY_INTERVAL, in runs of check_links
  DeadlineChecks,   \* the establishment deadline, in runs of check_links
  RestartOutlinks,  \* the values of the restart_outlinks setting considered
  MaxKeys,          \* bound: in-links the responder creates
  MaxAttempts,      \* bound: transmissions of the request told apart
  Budget            \* bound: how often each kind of event may happen

Nodes == Relays \cup {Initiator, Responder}

Endpoints == {Initiator, Responder}

\* The nodes that hold a path to the responder's destination, and their paths.
Forwarders == Relays \cup {Initiator}

Paths == [iface : Relays \cup {Responder}, hops : Nat \ {0}]

\* What the environment does: packets get lost, announces install other paths,
\* link table entries and cached hashes expire, links fall idle, applications
\* send and close.
Kinds == {"lose", "reroute", "expire", "release", "idle", "send", "close"}

ASSUME LinkNetworkAssumption ==
  /\ IsFiniteSet(Relays)
  /\ Initiator # Responder
  /\ Initiator \notin Relays /\ Responder \notin Relays
  /\ NoIface \notin Nodes
  /\ Edges \subseteq {{a, b} : a, b \in Nodes}
  /\ Routes \in [Forwarders -> SUBSET Paths]
  /\ PATHFINDER_M \in Nat \ {0}
  /\ RetryChecks \in Nat \ {0}
  /\ DeadlineChecks \in Nat \ {0}
  /\ RestartOutlinks \subseteq BOOLEAN
  /\ MaxKeys \in Nat \ {0}
  /\ MaxAttempts \in Nat \ {0}
  /\ Budget \in [Kinds -> Nat]

VARIABLES
  out,         \* the initiator's out-link
  in,          \* the responder's in-link
  route,       \* the installed path of every node but the responder
  link_table,  \* the relays' entries for the link, a partial function
  cache,       \* every node's packet cache
  net,         \* the packets in flight
  budget       \* what is left of Budget

vars == <<out, in, route, link_table, cache, net, budget>>

Neighbours(n) == {m \in Nodes : {n, m} \in Edges /\ m # n}

-----------------------------------------------------------------------------
(* Packets                                                                 *)

Spend(kind) == budget[kind] > 0 /\ budget' = [budget EXCEPT ![kind] = @ - 1]

\* content is what a packet's hash covers.  The keys field of a request numbers
\* its transmission, which is not part of the packet.
Content(type, context, origin, keys) ==
  [type |-> type, context |-> context, origin |-> origin, keys |-> keys]

Originate(content, iface) ==
  [content |-> content, from |-> content.origin, to |-> iface, hops |-> 0]

\* The hop count is incremented when a packet is received.
Hops(p) == p.hops + 1

Forward(p, iface) ==
  [content |-> p.content, from |-> p.to, to |-> iface, hops |-> Hops(p)]

RequestContent(attempt) == Content("LinkRequest", "None", Initiator, attempt)

ProofContent(keys) == Content("Proof", "LinkRequestProof", Responder, keys)

DataContent(e, context, keys) == Content("Data", context, e, keys)

Send(p, packets) == net' = (net \ {p}) \cup packets

\* Every packet a node sends or receives enters its packet cache.
Cached(n, contents) == cache' = [cache EXCEPT ![n] = @ \cup contents]

\* filter_duplicate_packets.  A link request always passes; a link request
\* proof passes again at a node whose in-link is not active yet.
AllowDuplicate(p) ==
  \/ p.content.type = "LinkRequest"
  \/ /\ p.content.context = "LinkRequestProof"
     /\ p.to = Responder /\ in.status = "Pending"

Passes(p) == p.content \notin cache[p.to] \/ AllowDuplicate(p)

-----------------------------------------------------------------------------
(* The initiator                                                           *)

\* registered: the link is in out_links and out_links_by_link_id.  checks and
\* waited count runs of check_links since the deadline was armed and since the
\* request was last sent; attempt numbers its transmissions.  iface is the
\* interface the link is attached to, keys the responder's keys it derived.
NoOutLink ==
  [status |-> "none", registered |-> FALSE, checks |-> 0, waited |-> 0,
   attempt |-> 0, iface |-> NoIface, keys |-> 0]

SendRequest(link) ==
  Originate(RequestContent(link.attempt), route[Initiator].iface)

\* Transport::link creates the link and sends the request ...
link_request ==
  /\ out.status = "none"
  /\ out' = [out EXCEPT !.status = "Pending", !.attempt = 1]
  /\ net' = net \cup {SendRequest(out')}
  /\ UNCHANGED <<in, route, link_table, cache, budget>>

\* ... and then takes the handler's lock again to enter it into out_links.
link_register ==
  /\ out.status = "Pending" /\ ~out.registered
  /\ out' = [out EXCEPT !.registered = TRUE]
  /\ UNCHANGED <<in, route, link_table, cache, net, budget>>

NextAttempt(attempt) == IF attempt < MaxAttempts THEN attempt + 1 ELSE attempt

\* Mutant of Retried: the retransmission arms the deadline again.
RetriedRearmed(link) ==
  [link EXCEPT !.waited = 0, !.attempt = NextAttempt(@), !.checks = 0]

\* Link::request on a retry: the deadline stays.
Retried(link) == [link EXCEPT !.waited = 0, !.attempt = NextAttempt(@)]

\* handle_check_links on a pending out-link.  What it does to the path of a
\* link that was tried for long (INTERVAL_OUTPUT_LINK_TRIED) is a reroute here.
check_pending ==
  /\ out.registered /\ out.status = "Pending"
  /\ IF out.checks = DeadlineChecks
     THEN /\ out' = [out EXCEPT !.status = "Closed", !.registered = FALSE]
          /\ UNCHANGED net
     ELSE LET link == [out EXCEPT !.checks = @ + 1] IN
          IF out.waited = RetryChecks
          THEN /\ out' = Retried(link)
               /\ net' = net \cup {SendRequest(out')}
          ELSE /\ out' = [link EXCEPT !.waited = @ + 1]
               /\ UNCHANGED net
  /\ UNCHANGED <<in, route, link_table, cache, budget>>

\* handle_check_links finds an active out-link idle for too long.
check_active ==
  /\ out.registered /\ out.status = "Active" /\ Spend("idle")
  /\ out' = [out EXCEPT !.status = "Stale"]
  /\ UNCHANGED <<in, route, link_table, cache, net>>

\* Link::restart: a new establishment attempt, with a request due at once.
Restarted(link) ==
  [link EXCEPT !.status = "Pending", !.checks = 0, !.waited = RetryChecks]

\* handle_check_links on a stale out-link, with restart_outlinks ...
check_stale_restart ==
  /\ TRUE \in RestartOutlinks
  /\ out.registered /\ out.status = "Stale"
  /\ out' = Restarted(out)
  /\ UNCHANGED <<in, route, link_table, cache, net, budget>>

\* ... and without.
check_stale_teardown ==
  /\ FALSE \in RestartOutlinks
  /\ out.registered /\ out.status = "Stale"
  /\ out' = [out EXCEPT !.status = "Closed", !.registered = FALSE]
  /\ LET close == DataContent(Initiator, "LinkClose", out.keys) IN
     /\ net' = net \cup {Originate(close, out.iface)}
     /\ Cached(Initiator, {close})
  /\ UNCHANGED <<in, route, link_table, budget>>

\* handle_check_links removes a link that was closed in between.
check_closed ==
  /\ out.registered /\ out.status = "Closed"
  /\ out' = [out EXCEPT !.registered = FALSE]
  /\ UNCHANGED <<in, route, link_table, cache, net, budget>>

\* Link::handle_proof_packet, with the interface bound first.
Activated(link, p) ==
  [link EXCEPT !.status = "Active", !.keys = p.content.keys, !.iface = p.from]

\* Mutant of AwaitsProof: any link that is not active takes the proof.
AwaitsAnyProof(link) == link.status # "Active"

AwaitsProof(link) == link.status = "Pending"

\* A link bound to an interface accepts packets from no other.
Accepts(link, p) == link.iface \in {NoIface, p.from}

\* The verified hop count of a proof shortens the installed path.
Rebalanced(path, hops) == IF hops < path.hops THEN [path EXCEPT !.hops = hops] ELSE path

\* handle_proof at the initiator; the proof activates a pending link, which
\* answers with its round-trip time.
initiator_proof(p) ==
  /\ p \in net /\ p.to = Initiator /\ p.content.type = "Proof"
  /\ IF Passes(p) /\ out.registered /\ ~Accepts(out, p)
     THEN /\ Send(p, {})
          /\ cache' = [cache EXCEPT ![Initiator] = @ \ {p.content}]
          /\ UNCHANGED <<out, route>>
     ELSE IF Passes(p) /\ out.registered /\ AwaitsProof(out)
     THEN LET rtt == DataContent(Initiator, "LinkRTT", p.content.keys) IN
          /\ out' = Activated(out, p)
          /\ Send(p, {Originate(rtt, p.from)})
          /\ Cached(Initiator, {p.content, rtt})
          /\ route' = [route EXCEPT ![Initiator] = Rebalanced(@, Hops(p))]
     ELSE Send(p, {}) /\ Cached(Initiator, {p.content}) /\ UNCHANGED <<out, route>>
  /\ UNCHANGED <<in, link_table, budget>>

-----------------------------------------------------------------------------
(* The responder                                                           *)

NoInLink == [status |-> "none", iface |-> NoIface, keys |-> 0]

\* The first proof of a link is prepared before link_ifaces knows the link, so
\* it is broadcast; later ones go to the recorded interface.
ProofIfaces == IF in.iface = NoIface THEN Neighbours(Responder) ELSE {in.iface}

\* Mutant of ReproveDue: every request makes a new in-link.
ReproveNever == FALSE

\* The link of the request exists and is not closed.
ReproveDue == in.status \in {"Active", "Stale"}

\* handle_link_request_as_destination: a request for a link that is not closed
\* is proved again, else a new in-link is made.
responder_request(p) ==
  /\ p \in net /\ p.to = Responder /\ p.content.type = "LinkRequest"
  /\ IF ReproveDue
     THEN in' = [in EXCEPT !.status = "Active"]
     ELSE /\ in.keys < MaxKeys
          /\ in' = [status |-> "Active", iface |-> p.from, keys |-> in.keys + 1]
  /\ Send(p, {Originate(ProofContent(in'.keys), i) : i \in ProofIfaces})
  /\ Cached(Responder, {ProofContent(in'.keys)})
  /\ UNCHANGED <<out, route, link_table, budget>>

\* A proof that is forwarded to the responder means nothing to it.
responder_proof(p) ==
  /\ p \in net /\ p.to = Responder /\ p.content.type = "Proof"
  /\ Send(p, {}) /\ Cached(Responder, {p.content})
  /\ UNCHANGED <<out, in, route, link_table, budget>>

check_in_active ==
  /\ in.status = "Active" /\ Spend("idle")
  /\ in' = [in EXCEPT !.status = "Stale"]
  /\ UNCHANGED <<out, route, link_table, cache, net>>

\* handle_check_links tears a stale in-link down and forgets it.
check_in_stale ==
  /\ in.status = "Stale"
  /\ LET close == DataContent(Responder, "LinkClose", in.keys) IN
     /\ net' = net \cup {Originate(close, in.iface)}
     /\ Cached(Responder, {close})
  /\ in' = [in EXCEPT !.status = "none", !.iface = NoIface]
  /\ UNCHANGED <<out, route, link_table, budget>>

-----------------------------------------------------------------------------
(* Both ends of an established link                                        *)

End(e) == IF e = Initiator THEN out ELSE in

SetStatus(e, status) ==
  IF e = Initiator
  THEN out' = [out EXCEPT !.status = status] /\ UNCHANGED in
  ELSE in' = [in EXCEPT !.status = status] /\ UNCHANGED out

Known(e) == IF e = Initiator THEN out.registered ELSE in.status # "none"

\* send_to_out_links and send_to_in_links; one message per end and keys.
send_data(e) ==
  /\ Known(e) /\ End(e).status = "Active" /\ Spend("send")
  /\ LET data == DataContent(e, "None", End(e).keys) IN
     /\ data \notin cache[e]
     /\ net' = net \cup {Originate(data, End(e).iface)}
     /\ Cached(e, {data})
  /\ UNCHANGED <<out, in, route, link_table>>

\* Transport::link_close: the peer is told unless the link was still pending.
link_close(e) ==
  /\ Known(e) /\ End(e).status # "Closed" /\ Spend("close")
  /\ SetStatus(e, "Closed")
  /\ IF End(e).status = "Pending"
     THEN UNCHANGED <<cache, net>>
     ELSE LET close == DataContent(e, "LinkClose", End(e).keys) IN
          /\ net' = net \cup {Originate(close, End(e).iface)}
          /\ Cached(e, {close})
  /\ UNCHANGED <<route, link_table>>

\* Link::handle_data_packet.  A packet made with other keys cannot be decrypted;
\* LinkClose closes whatever the status; data, the round trip time and the other
\* contexts are passed on, or renew an activity that Spend("idle") decides on.
handle_data_packet(e, content) ==
  IF content.keys = End(e).keys /\ content.context = "LinkClose"
  THEN SetStatus(e, "Closed")
  ELSE UNCHANGED <<out, in>>

\* handle_data at an end of the link.
receive_data(p) ==
  LET e == p.to IN
  /\ p \in net /\ e \in Endpoints /\ p.content.type = "Data"
  /\ Send(p, {})
  /\ IF Passes(p) /\ Known(e) /\ ~Accepts(End(e), p)
     THEN cache' = [cache EXCEPT ![e] = @ \ {p.content}]
     ELSE Cached(e, {p.content})
  /\ IF Passes(p) /\ Known(e) /\ Accepts(End(e), p)
     THEN handle_data_packet(e, p.content)
     ELSE UNCHANGED <<out, in>>
  /\ UNCHANGED <<route, link_table, budget>>

-----------------------------------------------------------------------------
(* Relays                                                                  *)

Put(n, entry) ==
  [m \in DOMAIN link_table \cup {n} |-> IF m = n THEN entry ELSE link_table[m]]

\* handle_link_request_as_intermediate: a known request keeps its entry, and
\* leaves on the interface of the path installed now.
relay_request(p) ==
  LET n == p.to IN
  /\ p \in net /\ n \in Relays /\ p.content.type = "LinkRequest"
  /\ IF \/ Hops(p) > PATHFINDER_M
        \/ n \in DOMAIN link_table /\ LoopedBack(link_table[n], Hops(p))
     THEN Send(p, {}) /\ UNCHANGED link_table
     ELSE /\ Send(p, {Forward(p, route[n].iface)})
          /\ link_table' =
               IF n \in DOMAIN link_table THEN link_table
               ELSE Put(n, NewLinkEntry(Hops(p), p.from, route[n].iface,
                                        route[n].hops - 1))
  /\ UNCHANGED <<out, in, route, cache, budget>>

\* handle_proof at a relay.
relay_proof(p) ==
  LET n == p.to
      ifaces == IF n \in DOMAIN link_table /\ Passes(p)
                THEN ProofOutbound(link_table[n], Hops(p), p.from) ELSE {}
  IN
  /\ p \in net /\ n \in Relays /\ p.content.type = "Proof"
  /\ Send(p, {Forward(p, i) : i \in ifaces})
  /\ Cached(n, {p.content})
  /\ IF ifaces = {} THEN UNCHANGED <<link_table, route>>
     ELSE /\ link_table' = Put(n, Proved(link_table[n], Hops(p)))
          /\ route' = [route EXCEPT ![n] =
                         IF link_table[n].rebalanced THEN @ ELSE Rebalanced(@, Hops(p))]
  /\ UNCHANGED <<out, in, budget>>

\* handle_data at a relay: through the link table, and where the hop count or
\* the interface does not fit a validated entry, along the path to the
\* destination of the link.
relay_data(p) ==
  LET n == p.to
      validated == n \in DOMAIN link_table /\ link_table[n].validated
      ifaces == IF ~validated \/ ~Passes(p) THEN {}
                ELSE LET table == PacketOutbound(link_table[n], Hops(p), p.from)
                     IN  IF table # {} THEN table ELSE {route[n].iface}
  IN
  /\ p \in net /\ n \in Relays /\ p.content.type = "Data"
  /\ Send(p, {Forward(p, i) : i \in ifaces})
  /\ Cached(n, {p.content})
  /\ UNCHANGED <<out, in, route, link_table, budget>>

-----------------------------------------------------------------------------
(* The environment                                                         *)

lose(p) ==
  /\ p \in net /\ Spend("lose")
  /\ Send(p, {})
  /\ UNCHANGED <<out, in, route, link_table, cache>>

\* An announce installs another path.
reroute(n) ==
  /\ Spend("reroute")
  /\ \E path \in Routes[n] : path # route[n] /\ route' = [route EXCEPT ![n] = path]
  /\ UNCHANGED <<out, in, link_table, cache, net>>

\* LinkTable::remove_stale
remove_stale(n) ==
  /\ n \in DOMAIN link_table /\ Spend("expire")
  /\ link_table' = [m \in DOMAIN link_table \ {n} |-> link_table[m]]
  /\ UNCHANGED <<out, in, route, cache, net>>

\* PacketCache::release: hashes outlive an establishment attempt.
release(n) ==
  /\ out.status # "Pending" /\ cache[n] # {} /\ Spend("release")
  /\ cache' = [cache EXCEPT ![n] = {}]
  /\ UNCHANGED <<out, in, route, link_table, net>>

Init ==
  /\ out = NoOutLink
  /\ in = NoInLink
  /\ route \in [Forwarders -> UNION {Routes[n] : n \in Forwarders}]
  /\ \A n \in Forwarders : route[n] \in Routes[n]
  /\ link_table = <<>>
  /\ cache = [n \in Nodes |-> {}]
  /\ net = {}
  /\ budget = Budget

check_links ==
  \/ check_pending \/ check_active \/ check_closed
  \/ check_stale_restart \/ check_stale_teardown
  \/ check_in_active \/ check_in_stale

Receive(p) ==
  \/ initiator_proof(p) \/ responder_request(p) \/ responder_proof(p)
  \/ receive_data(p)
  \/ relay_request(p) \/ relay_proof(p) \/ relay_data(p)

Next ==
  \/ link_request \/ link_register
  \/ check_links
  \/ \E e \in Endpoints : send_data(e) \/ link_close(e)
  \/ \E p \in net : Receive(p) \/ lose(p)
  \/ \E n \in Relays : remove_stale(n)
  \/ \E n \in Forwarders : reroute(n)
  \/ \E n \in Nodes : release(n)

Spec == Init /\ [][Next]_vars

\* link() gets the handler's lock in the end, and the periodic link check runs.
FairSpec == Spec /\ WF_vars(link_register) /\ WF_vars(check_pending)

-----------------------------------------------------------------------------
Spent(kind) == Budget[kind] - budget[kind]

Requests == {p \in net : p.content.type = "LinkRequest"}

\* Stale paths may send a link request in circles; the link table breaks the
\* loop.  Whatever the paths are and however they change, a request passes no
\* more relays than there are, plus one for every link table entry that
\* expired meanwhile (LinkTable::add, AddLinkRequest::Loop).
LoopBroken ==
  \A p \in Requests : p.hops <= Cardinality(Relays) + Spent("expire")

\* A link that Link::handle_proof_packet made active has a way out: the relay
\* at the interface it is attached to holds a validated entry that passes the
\* initiator's packets on, as long as no relay forgot an entry.
ActiveHasWayOut ==
  out.status = "Active" /\ Spent("expire") = 0
  => \/ out.iface = Responder
     \/ /\ out.iface \in DOMAIN link_table
        /\ PacketOutbound(link_table[out.iface], 1, Initiator) # {}

\* Lost, late and repeated requests and proofs never make the two ends
\* disagree: while nobody has closed the link and it was never idle, an active
\* out-link has an active in-link with the keys it derived.
EndsAgree ==
  out.status = "Active" /\ Spent("close") = 0 /\ Spent("idle") = 0
  => in.status = "Active" /\ in.keys = out.keys

\* An out-link that was closed, by the application, the peer or the link
\* check, stays closed: no late proof and no restart brings it back.
ClosedIsFinal == [][out.status = "Closed" => out'.status = "Closed"]_vars

\* A pending out-link is established or given up: retransmitting the request
\* does not put off the establishment deadline (handle_check_links).
PendingResolves == out.status = "Pending" ~> out.status \in {"Active", "Closed"}

=============================================================================
