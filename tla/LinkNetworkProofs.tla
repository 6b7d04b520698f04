------------------------- MODULE LinkNetworkProofs -------------------------
(***************************************************************************)
(* For every topology, every assignment of paths and every budget of a     *)
(* link across relays: stale paths send no request in circles, the two     *)
(* ends of the link agree, a closed link stays closed, and an active one   *)
(* has a way out.  Each of the three invariants needs one of its own; they *)
(* are introduced where they are defined.                                  *)
(***************************************************************************)
EXTENDS LinkNetwork, FiniteSetTheorems, TLAPS

-----------------------------------------------------------------------------
(* Loops are broken.                                                       *)
(*                                                                         *)
(* LoopBroken alone is not inductive: it says nothing of the hop counts    *)
(* the entries hold.  Both are bounded by Passed, which counts the relays  *)
(* that hold an entry and the entries that were forgotten: a relay without *)
(* an entry adds one when it passes a request on, a relay with an entry    *)
(* passes on no request that took more hops than the entry says.           *)

Passed == Cardinality(DOMAIN link_table) + Spent("expire")

LoopInv ==
  /\ budget \in [Kinds -> Nat] /\ budget["expire"] <= Budget["expire"]
  /\ DOMAIN link_table \subseteq Relays
  /\ \A n \in DOMAIN link_table :
        link_table[n].taken_hops \in Nat /\ link_table[n].taken_hops <= Passed
  /\ \A p \in Requests : p.hops \in Nat /\ p.hops <= Passed

\* The relays that hold an entry are finitely many.
LEMMA PassedType ==
  ASSUME LoopInv
  PROVE  /\ IsFiniteSet(DOMAIN link_table)
         /\ Cardinality(DOMAIN link_table) \in Nat
         /\ Cardinality(DOMAIN link_table) <= Cardinality(Relays)
         /\ Spent("expire") \in Nat /\ Passed \in Nat
<1>1. IsFiniteSet(DOMAIN link_table) /\ Cardinality(DOMAIN link_table) <= Cardinality(Relays)
  BY FS_Subset, LinkNetworkAssumption DEF LoopInv
<1>2. Cardinality(DOMAIN link_table) \in Nat
  BY <1>1, FS_CardinalityType
<1>3. Spent("expire") \in Nat
  BY LinkNetworkAssumption DEF LoopInv, Spent, Kinds
<1> QED
  BY <1>1, <1>2, <1>3 DEF Passed

\* The loop invariant holds initially.
LEMMA InitLoopInv == Init => LoopInv
<1> SUFFICES ASSUME Init PROVE LoopInv
  OBVIOUS
<1>1. DOMAIN link_table = {} /\ Requests = {}
  BY DEF Init, Requests
<1>2. budget \in [Kinds -> Nat] /\ budget["expire"] <= Budget["expire"]
  BY LinkNetworkAssumption DEF Init, Kinds
<1> QED
  BY <1>1, <1>2 DEF LoopInv

\* A step that touches no entry and lets none expire, and whose requests were
\* in flight before or leave the initiator.
LEMMA QuietStep ==
  ASSUME LoopInv, UNCHANGED link_table,
         budget' \in [Kinds -> Nat], budget'["expire"] = budget["expire"],
         \A p \in Requests' : p \in Requests \/ p.hops = 0
  PROVE  LoopInv'
<1>1. Passed' = Passed /\ Passed \in Nat
  BY PassedType DEF Passed, Spent
<1> QED
  BY <1>1 DEF LoopInv

\* Spending on anything else leaves the count of expired entries alone.
LEMMA SpendOther ==
  ASSUME LoopInv, NEW k \in Kinds \ {"expire"}, Spend(k)
  PROVE  budget' \in [Kinds -> Nat] /\ budget'["expire"] = budget["expire"]
BY DEF LoopInv, Spend, Kinds

\* The packets a step may add: none of them is a request further than the
\* initiator.
Fresh(S) == \A q \in S : q.content.type = "LinkRequest" => q.hops = 0

\* If all that a step sends is fresh, every request in flight was there before
\* or has taken no hop.
LEMMA FreshStep ==
  ASSUME NEW S, Fresh(S), net' \subseteq net \cup S
  PROVE  \A p \in Requests' : p \in Requests \/ p.hops = 0
BY DEF Fresh, Requests

\* What a node originates has taken no hop.
LEMMA OriginateFresh ==
  ASSUME NEW content, NEW iface
  PROVE  Fresh({Originate(content, iface)})
BY DEF Fresh, Originate

\* What passes another packet than a request on sends no request.
LEMMA ForwardFresh ==
  ASSUME NEW p, p.content.type # "LinkRequest", NEW I
  PROVE  Fresh({Forward(p, i) : i \in I})
BY DEF Fresh, Forward

\* The three actions that handle a request or an entry.
LEMMA RelayRequestLoop ==
  ASSUME LoopInv, NEW p, relay_request(p)
  PROVE  LoopInv'
<1> DEFINE n == p.to
<1>1. p \in Requests /\ n \in Relays /\ budget' = budget
  BY DEF relay_request, Requests
<1>2. p.hops \in Nat /\ p.hops <= Passed /\ Passed \in Nat /\ Hops(p) = p.hops + 1
  BY <1>1, PassedType DEF LoopInv, Hops
<1>3. CASE n \in DOMAIN link_table
  <2>1. link_table' = link_table
    BY <1>3 DEF relay_request
  <2>2. Passed' = Passed
    BY <1>1, <2>1 DEF Passed, Spent
  <2>3. CASE LoopedBack(link_table[n], Hops(p)) \/ Hops(p) > PATHFINDER_M
    <3>1. net' \subseteq net \cup {}
      BY <1>3, <2>3 DEF relay_request, Send
    <3>2. \A q \in Requests' : q \in Requests \/ q.hops = 0
      BY <3>1 DEF Requests
    <3> QED
      BY <1>1, <2>1, <3>2, QuietStep DEF LoopInv
  <2>4. CASE ~LoopedBack(link_table[n], Hops(p)) /\ ~(Hops(p) > PATHFINDER_M)
    <3>1. net' \subseteq net \cup {Forward(p, route[n].iface)}
      BY <2>4 DEF relay_request, Send
    <3>2. Hops(p) <= Passed
      BY <1>2, <1>3, <2>4 DEF LoopedBack, LoopInv
    <3>3. \A q \in Requests' : q.hops \in Nat /\ q.hops <= Passed
      BY <1>2, <3>1, <3>2 DEF Requests, Forward, LoopInv
    <3> QED
      BY <1>1, <2>1, <2>2, <3>3 DEF LoopInv
  <2> QED
    BY <2>3, <2>4
<1>4. CASE n \notin DOMAIN link_table
  <2>1. CASE Hops(p) > PATHFINDER_M
    <3>1. link_table' = link_table /\ net' \subseteq net
      BY <1>4, <2>1 DEF relay_request, Send
    <3>2. \A q \in Requests' : q \in Requests \/ q.hops = 0
      BY <3>1 DEF Requests
    <3> QED
      BY <1>1, <3>1, <3>2, QuietStep DEF LoopInv
  <2>2. CASE ~(Hops(p) > PATHFINDER_M)
    <3> DEFINE entry == NewLinkEntry(Hops(p), p.from, route[n].iface, route[n].hops - 1)
    <3>1. /\ link_table' = Put(n, entry)
          /\ net' \subseteq net \cup {Forward(p, route[n].iface)}
      BY <1>4, <2>2 DEF relay_request, Send
    <3>2. DOMAIN link_table' = DOMAIN link_table \cup {n}
      BY <3>1 DEF Put
    <3>3. Cardinality(DOMAIN link_table') = Cardinality(DOMAIN link_table) + 1
      BY <1>4, <3>2, PassedType, FS_AddElement
    <3>4. Passed' = Passed + 1
      BY <1>1, <3>3, PassedType DEF Passed, Spent
    <3>5. \A m \in DOMAIN link_table' :
             link_table'[m].taken_hops \in Nat /\ link_table'[m].taken_hops <= Passed'
      BY <1>2, <3>1, <3>4 DEF Put, NewLinkEntry, LoopInv
    <3>6. \A q \in Requests' : q.hops \in Nat /\ q.hops <= Passed'
      BY <1>2, <3>1, <3>4 DEF Requests, Forward, LoopInv
    <3> QED
      BY <1>1, <3>2, <3>5, <3>6 DEF LoopInv
  <2> QED
    BY <2>1, <2>2
<1> QED
  BY <1>3, <1>4

\* A relay that handles a proof preserves the loop invariant.
LEMMA RelayProofLoop ==
  ASSUME LoopInv, NEW p, relay_proof(p)
  PROVE  LoopInv'
<1> DEFINE n == p.to
           ifaces == IF n \in DOMAIN link_table /\ Passes(p)
                     THEN ProofOutbound(link_table[n], Hops(p), p.from) ELSE {}
<1>1. budget' = budget /\ p.content.type # "LinkRequest"
  BY DEF relay_proof
<1>2. net' \subseteq net \cup {Forward(p, i) : i \in ifaces}
  BY DEF relay_proof, Send
<1>3. \A q \in Requests' : q \in Requests \/ q.hops = 0
  BY <1>1, <1>2, ForwardFresh, FreshStep
<1>4. CASE link_table' = link_table
  BY <1>1, <1>3, <1>4, QuietStep DEF LoopInv
<1>5. CASE link_table' # link_table
  <2>1. n \in DOMAIN link_table /\ link_table' = Put(n, Proved(link_table[n], Hops(p)))
    BY <1>5 DEF relay_proof
  <2>2. DOMAIN link_table' = DOMAIN link_table
    BY <2>1 DEF Put
  <2>3. Passed' = Passed /\ Passed \in Nat
    BY <1>1, <2>2, PassedType DEF Passed, Spent
  <2>4. \A m \in DOMAIN link_table' :
           \/ link_table'[m] = link_table[m]
           \/ m = n /\ link_table'[m] = Proved(link_table[n], Hops(p))
    BY <2>1, <2>2 DEF Put
  <2>5. ASSUME NEW e, NEW h, e.taken_hops \in Nat
        PROVE  Proved(e, h).taken_hops = e.taken_hops
    BY <2>5 DEF Proved
  <2> QED
    BY <1>1, <1>3, <2>2, <2>3, <2>4, <2>5 DEF LoopInv
<1> QED
  BY <1>4, <1>5

\* Removing a stale entry preserves the loop invariant.
LEMMA RemoveStaleLoop ==
  ASSUME LoopInv, NEW n \in Relays, remove_stale(n)
  PROVE  LoopInv'
<1>1. /\ n \in DOMAIN link_table /\ net' = net
      /\ link_table' = [m \in DOMAIN link_table \ {n} |-> link_table[m]]
  BY DEF remove_stale
<1>2. /\ budget' \in [Kinds -> Nat]
      /\ budget'["expire"] = budget["expire"] - 1
      /\ Spent("expire")' = Spent("expire") + 1
  BY LinkNetworkAssumption DEF remove_stale, Spend, LoopInv, Spent, Kinds
<1>3. DOMAIN link_table' = DOMAIN link_table \ {n}
  BY <1>1
<1>4. Cardinality(DOMAIN link_table') = Cardinality(DOMAIN link_table) - 1
  BY <1>1, <1>3, PassedType, FS_RemoveElement
<1>5. Passed' = Passed
  BY <1>2, <1>4, PassedType DEF Passed
<1>6. budget'["expire"] <= Budget["expire"]
  BY <1>2, LinkNetworkAssumption DEF LoopInv, Kinds
<1> QED
  BY <1>1, <1>2, <1>3, <1>5, <1>6 DEF LoopInv, Requests

\* Every step of the specification.
LEMMA NextLoopInv == LoopInv /\ [Next]_vars => LoopInv'
<1> SUFFICES ASSUME LoopInv, [Next]_vars PROVE LoopInv'
  OBVIOUS
<1>q. ASSUME NEW S, Fresh(S), net' \subseteq net \cup S,
             UNCHANGED link_table, UNCHANGED budget
      PROVE  LoopInv'
  BY <1>q, FreshStep, QuietStep DEF LoopInv
<1>s. ASSUME NEW S, Fresh(S), net' \subseteq net \cup S,
             UNCHANGED link_table, NEW k \in Kinds \ {"expire"}, Spend(k)
      PROVE  LoopInv'
  BY <1>s, SpendOther, FreshStep, QuietStep
<1>none. Fresh({})
  BY DEF Fresh
<1>1. CASE link_request
  <2>1. net' \subseteq net \cup {SendRequest(out')} /\ Fresh({SendRequest(out')})
    BY <1>1, OriginateFresh DEF link_request, SendRequest
  <2> QED
    BY <1>1, <1>q, <2>1 DEF link_request
<1>2. CASE link_register
  BY <1>2, <1>q, <1>none DEF link_register
<1>3. CASE check_pending
  <2>1. CASE net' = net
    BY <1>3, <1>q, <1>none, <2>1 DEF check_pending
  <2>2. CASE net' = net \cup {SendRequest(out')}
    <3>1. Fresh({SendRequest(out')})
      BY OriginateFresh DEF SendRequest
    <3> QED
      BY <1>3, <1>q, <2>2, <3>1 DEF check_pending
  <2> QED
    BY <1>3, <2>1, <2>2 DEF check_pending
<1>4. CASE check_active
  BY <1>4, <1>s, <1>none DEF check_active, Kinds
<1>5. CASE check_closed
  BY <1>5, <1>q, <1>none DEF check_closed
<1>6. CASE check_stale_restart
  BY <1>6, <1>q, <1>none DEF check_stale_restart
<1>7. CASE check_stale_teardown
  BY <1>7, <1>q, OriginateFresh DEF check_stale_teardown
<1>8. CASE check_in_active
  BY <1>8, <1>s, <1>none DEF check_in_active, Kinds
<1>9. CASE check_in_stale
  BY <1>9, <1>q, OriginateFresh DEF check_in_stale
<1>10. ASSUME NEW e \in Endpoints, send_data(e) PROVE LoopInv'
  <2>1. PICK c, i : net' \subseteq net \cup {Originate(c, i)}
    BY <1>10 DEF send_data
  <2> QED
    BY <1>10, <1>s, <2>1, OriginateFresh DEF send_data, Kinds
<1>11. ASSUME NEW e \in Endpoints, link_close(e) PROVE LoopInv'
  <2>1. \E c, i : net' \subseteq net \cup {Originate(c, i)}
    BY <1>11 DEF link_close
  <2> QED
    BY <1>11, <1>s, <2>1, OriginateFresh DEF link_close, Kinds
<1>12. ASSUME NEW p \in net, initiator_proof(p) PROVE LoopInv'
  <2>1. \E c, i : net' \subseteq net \cup {Originate(c, i)}
    BY <1>12 DEF initiator_proof, Send
  <2> QED
    BY <1>12, <1>q, <2>1, OriginateFresh DEF initiator_proof
<1>13. ASSUME NEW p \in net, responder_request(p) PROVE LoopInv'
  <2> DEFINE S == {Originate(ProofContent(in'.keys), i) : i \in ProofIfaces}
  <2>1. net' \subseteq net \cup S
    BY <1>13 DEF responder_request, Send
  <2>2. Fresh(S)
    BY DEF Fresh, Originate
  <2> QED
    BY <1>13, <1>q, <2>1, <2>2 DEF responder_request
<1>14. ASSUME NEW p \in net, responder_proof(p) PROVE LoopInv'
  BY <1>14, <1>q, <1>none DEF responder_proof, Send
<1>15. ASSUME NEW p \in net, receive_data(p) PROVE LoopInv'
  BY <1>15, <1>q, <1>none DEF receive_data, Send
<1>16. ASSUME NEW p \in net, relay_data(p) PROVE LoopInv'
  <2>1. PICK I : net' = (net \ {p}) \cup {Forward(p, i) : i \in I}
    BY <1>16 DEF relay_data, Send
  <2>2. Fresh({Forward(p, i) : i \in I})
    BY <1>16, ForwardFresh DEF relay_data
  <2> QED
    BY <1>16, <1>q, <2>1, <2>2 DEF relay_data
<1>17. ASSUME NEW p \in net, lose(p) PROVE LoopInv'
  BY <1>17, <1>s, <1>none DEF lose, Send, Kinds
<1>18. ASSUME NEW n \in Forwarders, reroute(n) PROVE LoopInv'
  BY <1>18, <1>s, <1>none DEF reroute, Kinds
<1>19. ASSUME NEW n \in Nodes, release(n) PROVE LoopInv'
  BY <1>19, <1>s, <1>none DEF release, Kinds
<1>20. CASE UNCHANGED vars
  BY <1>20, <1>q, <1>none DEF vars
<1> QED
  BY <1>1, <1>2, <1>3, <1>4, <1>5, <1>6, <1>7, <1>8, <1>9, <1>10, <1>11, <1>12,
     <1>13, <1>14, <1>15, <1>16, <1>17, <1>18, <1>19, <1>20, RelayRequestLoop,
     RelayProofLoop, RemoveStaleLoop DEF Next, check_links, Receive

\* However the paths of the relays change, a link request passes no more relays
\* than there are and entries that expired (LinkTable::add).
THEOREM LoopsBroken == Spec => []LoopBroken
<1>1. LoopInv => LoopBroken
  <2> SUFFICES ASSUME LoopInv, NEW p \in Requests
               PROVE  p.hops <= Cardinality(Relays) + Spent("expire")
    BY DEF LoopBroken
  <2>1. p.hops \in Nat /\ p.hops <= Passed
    BY DEF LoopInv
  <2>2. Cardinality(Relays) \in Nat
    BY FS_CardinalityType, LinkNetworkAssumption
  <2> QED
    BY <2>1, <2>2, PassedType DEF Passed
<1> QED
  BY <1>1, InitLoopInv, NextLoopInv, PTL DEF Spec

-----------------------------------------------------------------------------
(* The two ends of a link agree.                                           *)
(*                                                                         *)
(* EndsAgree says nothing of the proofs and the close packets in flight.   *)
(* AgreeInv adds that, as long as nobody closes the link and it is never   *)
(* idle, the responder has made at most one in-link, every proof in flight *)
(* carries its keys, and no close packet is under way.                     *)

Calm == Spent("close") = 0 /\ Spent("idle") = 0

\* A packet that neither brings keys to the initiator nor closes the link.
Harmless(p) == p.content.type # "Proof" /\ p.content.context # "LinkClose"

AllHarmless(S) == \A q \in S : Harmless(q)

AgreeShape ==
  /\ budget \in [Kinds -> Nat] /\ \A k \in Kinds : budget[k] <= Budget[k]
  /\ {"status", "registered", "attempt", "iface", "keys"} \subseteq DOMAIN out
  /\ {"status", "iface", "keys"} \subseteq DOMAIN in /\ in.keys \in Nat

InCalm ==
  /\ out.status # "Stale"
  /\ \/ in.keys = 0 /\ in.status = "none"
     \/ in.keys = 1 /\ in.status = "Active"
  /\ \A p \in net :
       /\ p.content.context # "LinkClose"
       /\ p.content.type = "Proof" => p.content.keys = in.keys /\ in.status = "Active"
  /\ out.status = "Active" => in.status = "Active" /\ in.keys = out.keys

AgreeInv == AgreeShape /\ (Calm => InCalm)

\* Nobody has made a link, and nothing is in flight.
LEMMA InitAgree == Init => AgreeInv
<1> SUFFICES ASSUME Init PROVE AgreeShape /\ InCalm
  BY DEF AgreeInv
<1>1. budget \in [Kinds -> Nat] /\ \A k \in Kinds : budget[k] <= Budget[k]
  BY LinkNetworkAssumption DEF Init
<1>2. AgreeShape
  <2>1. {"status", "registered", "attempt", "iface", "keys"} \subseteq DOMAIN NoOutLink
    BY DEF NoOutLink
  <2>2. {"status", "iface", "keys"} \subseteq DOMAIN NoInLink /\ NoInLink.keys \in Nat
    BY DEF NoInLink
  <2>3. out = NoOutLink /\ in = NoInLink
    BY DEF Init
  <2> QED
    BY <1>1, <2>1, <2>2, <2>3 DEF AgreeShape
<1>3. InCalm
  <2>1. out.status = "none"
    BY DEF Init, NoOutLink
  <2>2. in.status = "none" /\ in.keys = 0
    BY DEF Init, NoInLink
  <2>3. net = {}
    BY DEF Init
  <2> QED
    BY <2>1, <2>2, <2>3 DEF InCalm
<1> QED
  BY <1>2, <1>3

\* A step that spends on one kind of event, or on none.
Spends == budget' = budget \/ \E k \in Kinds : Spend(k)

\* What was spent stays spent.
LEMMA CalmBefore ==
  ASSUME AgreeShape, Spends
  PROVE  /\ budget' \in [Kinds -> Nat] /\ \A k \in Kinds : budget'[k] <= Budget[k]
         /\ Calm' => Calm /\ budget'["close"] = budget["close"]
                          /\ budget'["idle"] = budget["idle"]
<1>1. budget' \in [Kinds -> Nat] /\ \A k \in Kinds : budget'[k] <= budget[k]
  BY DEF AgreeShape, Spends, Spend
<1>2. \A k \in Kinds : Budget[k] \in Nat /\ budget[k] \in Nat /\ budget[k] <= Budget[k]
  BY LinkNetworkAssumption DEF AgreeShape
<1>3. "close" \in Kinds /\ "idle" \in Kinds
  BY DEF Kinds
<1> QED
  BY <1>1, <1>2, <1>3 DEF Calm, Spent

\* A step that leaves the in-link alone, sends no proof and no close packet, and
\* does not make the out-link active or stale.
LEMMA CalmStep ==
  ASSUME AgreeInv, Spends, UNCHANGED in,
         {"status", "registered", "attempt", "iface", "keys"} \subseteq DOMAIN out',
         NEW S, AllHarmless(S), net' \subseteq net \cup S,
         Calm' => \/ out'.status = out.status /\ out'.keys = out.keys
                  \/ out'.status \notin {"Active", "Stale"}
  PROVE  AgreeInv'
<1>1. AgreeShape'
  BY CalmBefore DEF AgreeInv, AgreeShape
<1>2. ASSUME Calm' PROVE InCalm'
  <2>1. InCalm
    BY <1>2, CalmBefore DEF AgreeInv
  <2> QED
    BY <1>2, <2>1 DEF InCalm, Harmless, AllHarmless
<1> QED
  BY <1>1, <1>2 DEF AgreeInv

\* A step that sends nothing.
LEMMA CalmStill ==
  ASSUME AgreeInv, Spends, UNCHANGED in, net' \subseteq net,
         {"status", "registered", "attempt", "iface", "keys"} \subseteq DOMAIN out',
         Calm' => \/ out'.status = out.status /\ out'.keys = out.keys
                  \/ out'.status \notin {"Active", "Stale"}
  PROVE  AgreeInv'
<1>1. net' \subseteq net \cup {} /\ AllHarmless({})
  BY DEF AllHarmless
<1> QED
  BY <1>1, CalmStep

\* The steps of the initiator that handle no packet.
LEMMA InitiatorAgree ==
  ASSUME AgreeInv,
         \/ link_request \/ link_register \/ check_pending \/ check_active \/ check_closed
         \/ check_stale_restart \/ check_stale_teardown
  PROVE  AgreeInv'
<1> DEFINE Fields == {"status", "registered", "attempt", "iface", "keys"}
<1>s. AgreeShape /\ Fields \subseteq DOMAIN out
  BY DEF AgreeInv, AgreeShape
<1>h. \A link : AllHarmless({SendRequest(link)})
  BY DEF AllHarmless, Harmless, SendRequest, Originate, RequestContent, Content
<1>1. CASE link_request
  <2>1. Fields \subseteq DOMAIN out' /\ out'.status = "Pending"
    BY <1>1, <1>s DEF link_request
  <2>2. net' \subseteq net \cup {SendRequest(out')} /\ Spends
    BY <1>1 DEF link_request, Spends
  <2> QED
    BY <1>1, <1>h, <2>1, <2>2, CalmStep DEF link_request
<1>2. CASE link_register
  <2>1. Fields \subseteq DOMAIN out' /\ out'.status = out.status /\ out'.keys = out.keys
    BY <1>2, <1>s DEF link_register
  <2> QED
    BY <1>2, <2>1, CalmStill DEF link_register, Spends
<1>3. CASE check_pending
  <2>1. Fields \subseteq DOMAIN out' /\ out'.status \notin {"Active", "Stale"}
    BY <1>3, <1>s DEF check_pending, Retried
  <2>2. net' \subseteq net \cup {SendRequest(out')}
    BY <1>3 DEF check_pending
  <2> QED
    BY <1>3, <1>h, <2>1, <2>2, CalmStep DEF check_pending, Spends
<1>4. CASE check_active
  <2>1. Spend("idle") /\ Spends
    BY <1>4 DEF check_active, Spends, Kinds
  <2>2. ~Calm'
    BY <1>s, <2>1, CalmBefore DEF Spend, AgreeShape, Kinds
  <2>3. AgreeShape'
    BY <1>4, <1>s, <2>1, CalmBefore DEF AgreeShape, check_active
  <2> QED
    BY <2>2, <2>3 DEF AgreeInv
<1>5. CASE check_closed
  <2>1. Fields \subseteq DOMAIN out' /\ out'.status = out.status /\ out'.keys = out.keys
    BY <1>5, <1>s DEF check_closed
  <2> QED
    BY <1>5, <2>1, CalmStill DEF check_closed, Spends
<1>6. CASE check_stale_restart
  <2>1. Fields \subseteq DOMAIN out' /\ out'.status = "Pending"
    BY <1>6, <1>s DEF check_stale_restart, Restarted
  <2> QED
    BY <1>6, <2>1, CalmStill DEF check_stale_restart, Spends
<1>7. CASE check_stale_teardown
  <2>1. Spends /\ ~InCalm
    BY <1>7 DEF check_stale_teardown, Spends, InCalm
  <2>2. AgreeShape'
    BY <1>7, <1>s, <2>1, CalmBefore DEF AgreeShape, check_stale_teardown
  <2> QED
    BY <1>s, <2>1, <2>2, CalmBefore DEF AgreeInv
<1> QED
  BY <1>1, <1>2, <1>3, <1>4, <1>5, <1>6, <1>7

\* The in-link falls idle, which ends the calm, or is torn down.
LEMMA InIdleAgree ==
  ASSUME AgreeInv, check_in_active \/ check_in_stale
  PROVE  AgreeInv'
<1>s. AgreeShape
  BY DEF AgreeInv
<1>1. CASE check_in_active
  <2>1. Spend("idle") /\ Spends
    BY <1>1 DEF check_in_active, Spends, Kinds
  <2>2. ~Calm'
    BY <1>s, <2>1, CalmBefore DEF Spend, AgreeShape, Kinds
  <2>3. AgreeShape'
    BY <1>1, <1>s, <2>1, CalmBefore DEF AgreeShape, check_in_active
  <2> QED
    BY <2>2, <2>3 DEF AgreeInv
<1>2. CASE check_in_stale
  <2>1. Spends /\ ~InCalm
    BY <1>2 DEF check_in_stale, Spends, InCalm
  <2>2. AgreeShape'
    BY <1>2, <1>s, <2>1, CalmBefore DEF AgreeShape, check_in_stale
  <2> QED
    BY <1>s, <2>1, <2>2, CalmBefore DEF AgreeInv
<1> QED
  BY <1>1, <1>2

\* Applications send, which is harmless, and close, which ends the calm.
LEMMA ApplicationAgree ==
  ASSUME AgreeInv, NEW e \in Endpoints, send_data(e) \/ link_close(e)
  PROVE  AgreeInv'
<1>s. AgreeShape
  BY DEF AgreeInv
<1>1. CASE send_data(e)
  <2>1. PICK i, k : net' = net \cup {Originate(DataContent(e, "None", k), i)}
    BY <1>1 DEF send_data
  <2>2. AllHarmless({Originate(DataContent(e, "None", k), i)})
    BY DEF AllHarmless, Harmless, Originate, DataContent, Content
  <2>3. Spends /\ UNCHANGED <<out, in>>
    BY <1>1 DEF send_data, Spends, Kinds
  <2>4. {"status", "registered", "attempt", "iface", "keys"} \subseteq DOMAIN out'
    BY <1>s, <2>3 DEF AgreeShape
  <2> QED
    BY <2>1, <2>2, <2>3, <2>4, CalmStep
<1>2. CASE link_close(e)
  <2>1. Spend("close") /\ Spends
    BY <1>2 DEF link_close, Spends, Kinds
  <2>2. ~Calm'
    BY <1>s, <2>1, CalmBefore DEF Spend, AgreeShape, Kinds
  <2>3. AgreeShape'
    BY <1>2, <1>s, <2>1, CalmBefore DEF AgreeShape, link_close, SetStatus
  <2> QED
    BY <2>2, <2>3 DEF AgreeInv
<1> QED
  BY <1>1, <1>2

\* The initiator takes a proof: its keys are those of the one in-link.
LEMMA InitiatorProofAgree ==
  ASSUME AgreeInv, NEW p \in net, initiator_proof(p)
  PROVE  AgreeInv'
<1> DEFINE rtt == DataContent(Initiator, "LinkRTT", p.content.keys)
<1>1. Spends /\ UNCHANGED in /\ p.content.type = "Proof"
  BY DEF initiator_proof, Spends
<1>2. AllHarmless({Originate(rtt, p.from)})
  BY DEF AllHarmless, Harmless, Originate, DataContent, Content
<1>3. net' \subseteq net \cup {Originate(rtt, p.from)}
  BY DEF initiator_proof, Send
<1>4. CASE out' = out
  <2>1. {"status", "registered", "attempt", "iface", "keys"} \subseteq DOMAIN out'
    BY <1>4 DEF AgreeInv, AgreeShape
  <2> QED
    BY <1>1, <1>2, <1>3, <1>4, <2>1, CalmStep
<1>5. CASE out' = Activated(out, p)
  <2>1. AgreeShape'
    BY <1>1, <1>5, CalmBefore DEF AgreeInv, AgreeShape, Activated
  <2>2. ASSUME Calm' PROVE InCalm'
    <3>1. InCalm
      BY <1>1, <2>2, CalmBefore DEF AgreeInv
    <3>2. out'.status = "Active" /\ out'.keys = p.content.keys
      BY <1>5 DEF Activated, AgreeInv, AgreeShape
    <3> QED
      BY <1>1, <1>2, <1>3, <3>1, <3>2 DEF InCalm, Harmless, AllHarmless
  <2> QED
    BY <2>1, <2>2 DEF AgreeInv
<1> QED
  BY <1>4, <1>5 DEF initiator_proof

\* The responder makes its in-link once, and proves it again with the same keys.
LEMMA ResponderRequestAgree ==
  ASSUME AgreeInv, NEW p \in net, responder_request(p)
  PROVE  AgreeInv'
<1> DEFINE S == {Originate(ProofContent(in'.keys), i) : i \in ProofIfaces}
<1>1. Spends /\ UNCHANGED out /\ net' \subseteq net \cup S
  BY DEF responder_request, Spends, Send
<1>2. \A q \in S : /\ q.content.type = "Proof" /\ q.content.keys = in'.keys
                   /\ q.content.context # "LinkClose"
  BY DEF Originate, ProofContent, Content
<1>3. AgreeShape'
  BY <1>1, CalmBefore DEF responder_request, AgreeInv, AgreeShape
<1>4. ASSUME Calm' PROVE InCalm'
  <2>1. InCalm
    BY <1>1, <1>4, CalmBefore DEF AgreeInv
  <2>2. /\ in'.keys = 1 /\ in'.status = "Active"
        /\ in.status = "Active" => in.keys = in'.keys
    BY <2>1 DEF responder_request, ReproveDue, InCalm, AgreeInv, AgreeShape
  <2> QED
    BY <1>1, <1>2, <2>1, <2>2 DEF InCalm
<1> QED
  BY <1>3, <1>4 DEF AgreeInv

\* Data at an end of the link: without a close packet nothing changes.
LEMMA ReceiveDataAgree ==
  ASSUME AgreeInv, NEW p \in net, receive_data(p)
  PROVE  AgreeInv'
<1>1. Spends /\ net' \subseteq net
  BY DEF receive_data, Spends, Send
<1>2. AgreeShape'
  BY <1>1, CalmBefore
  DEF receive_data, handle_data_packet, SetStatus, AgreeInv, AgreeShape
<1>3. ASSUME Calm' PROVE InCalm'
  <2>1. InCalm
    BY <1>1, <1>3, CalmBefore DEF AgreeInv
  <2>2. UNCHANGED <<out, in>>
    BY <2>1 DEF receive_data, handle_data_packet, InCalm
  <2> QED
    BY <1>1, <2>1, <2>2 DEF InCalm
<1> QED
  BY <1>2, <1>3 DEF AgreeInv

\* A relay passes packets on as they are.
LEMMA ForwardAgree ==
  ASSUME AgreeInv, UNCHANGED <<out, in, budget>>, NEW p \in net, NEW I,
         net' \subseteq net \cup {Forward(p, i) : i \in I}
  PROVE  AgreeInv'
<1>1. \A q \in net' : \E o \in net : q.content = o.content
  BY DEF Forward
<1>2. InCalm => InCalm'
  BY <1>1 DEF InCalm
<1> QED
  BY <1>2 DEF AgreeInv, AgreeShape, Calm, Spent

\* Every step of the specification.
LEMMA NextAgree == AgreeInv /\ [Next]_vars => AgreeInv'
<1> SUFFICES ASSUME AgreeInv, [Next]_vars PROVE AgreeInv'
  OBVIOUS
<1>n. ASSUME Spends, UNCHANGED <<out, in>>, net' \subseteq net PROVE AgreeInv'
  BY <1>n, CalmStill DEF AgreeInv, AgreeShape
<1>1. ASSUME NEW p \in net, responder_proof(p) \/ lose(p) PROVE AgreeInv'
  BY <1>1, <1>n DEF responder_proof, lose, Send, Spends, Kinds
<1>2. ASSUME NEW p \in net, relay_request(p) PROVE AgreeInv'
  <2>1. net' \subseteq net \cup {Forward(p, i) : i \in {route[p.to].iface}}
    BY <1>2 DEF relay_request, Send
  <2> QED
    BY <1>2, <2>1, ForwardAgree DEF relay_request
<1>3. ASSUME NEW p \in net, relay_proof(p) PROVE AgreeInv'
  <2>1. \E I : net' = (net \ {p}) \cup {Forward(p, i) : i \in I}
    BY <1>3 DEF relay_proof, Send
  <2> QED
    BY <1>3, <2>1, ForwardAgree DEF relay_proof
<1>4. ASSUME NEW p \in net, relay_data(p) PROVE AgreeInv'
  <2>1. \E I : net' = (net \ {p}) \cup {Forward(p, i) : i \in I}
    BY <1>4 DEF relay_data, Send
  <2> QED
    BY <1>4, <2>1, ForwardAgree DEF relay_data
<1>5. ASSUME NEW n \in Relays, remove_stale(n) PROVE AgreeInv'
  BY <1>5, <1>n DEF remove_stale, Spends, Kinds
<1>6. ASSUME NEW n \in Forwarders, reroute(n) PROVE AgreeInv'
  BY <1>6, <1>n DEF reroute, Spends, Kinds
<1>7. ASSUME NEW n \in Nodes, release(n) PROVE AgreeInv'
  BY <1>7, <1>n DEF release, Spends, Kinds
<1>8. CASE UNCHANGED vars
  BY <1>8, <1>n DEF vars, Spends
<1> QED
  BY <1>1, <1>2, <1>3, <1>4, <1>5, <1>6, <1>7, <1>8, InitiatorAgree, InIdleAgree,
     ApplicationAgree, InitiatorProofAgree, ResponderRequestAgree, ReceiveDataAgree
  DEF Next, check_links, Receive

\* Requests and proofs that are lost, late or repeated never make the two ends
\* of a link disagree on its state or its keys, as long as nobody closes it and
\* it is not idle (handle_link_request_as_destination, handle_proof_packet).
THEOREM EndsInAgreement == Spec => []EndsAgree
<1>1. AgreeInv => EndsAgree
  BY DEF AgreeInv, InCalm, Calm, EndsAgree
<1> QED
  BY <1>1, InitAgree, NextAgree, PTL DEF Spec

\* An out-link that is closed stays closed: no late proof, no restart and no
\* retransmission brings it back (Link::handle_proof_packet, Link::restart).
THEOREM ClosedStaysClosed == Spec => ClosedIsFinal
<1>1. AgreeInv /\ [Next]_vars => [out.status = "Closed" => out'.status = "Closed"]_vars
  <2> SUFFICES ASSUME AgreeInv, Next, out.status = "Closed"
               PROVE  out'.status = "Closed"
    OBVIOUS
  <2>s. {"status", "registered", "attempt", "iface", "keys"} \subseteq DOMAIN out
    BY DEF AgreeInv, AgreeShape
  <2>1. ASSUME check_links PROVE out'.status = "Closed"
    BY <2>1, <2>s DEF check_links, check_pending, check_active, check_closed,
       check_stale_restart, check_stale_teardown, check_in_active, check_in_stale
  <2>2. ASSUME NEW e \in Endpoints, send_data(e) \/ link_close(e)
        PROVE  out'.status = "Closed"
    BY <2>2, <2>s DEF send_data, link_close, SetStatus
  <2>3. ASSUME NEW p \in net, initiator_proof(p) PROVE out'.status = "Closed"
    BY <2>3 DEF initiator_proof, AwaitsProof
  <2>4. ASSUME NEW p \in net, receive_data(p) PROVE out'.status = "Closed"
    BY <2>4, <2>s DEF receive_data, handle_data_packet, SetStatus
  <2>5. ASSUME link_request \/ link_register PROVE out'.status = "Closed"
    BY <2>5 DEF link_request, link_register
  <2>6. ASSUME NEW p \in net, \/ responder_request(p) \/ responder_proof(p) \/ lose(p)
                              \/ relay_request(p) \/ relay_proof(p) \/ relay_data(p)
        PROVE  out' = out
    BY <2>6 DEF responder_request, responder_proof, relay_request, relay_proof,
       relay_data, lose
  <2>7. ASSUME NEW n, remove_stale(n) \/ reroute(n) \/ release(n) PROVE out' = out
    BY <2>7 DEF remove_stale, reroute, release
  <2> QED
    BY <2>1, <2>2, <2>3, <2>4, <2>5, <2>6, <2>7 DEF Next, Receive
<1> QED
  BY <1>1, InitAgree, NextAgree, PTL DEF Spec, ClosedIsFinal

-----------------------------------------------------------------------------
(* An active link has a way out.                                           *)
(*                                                                         *)
(* ActiveHasWayOut has to hold of a proof before it is received: the relay *)
(* that passed a proof to the initiator has proved its entry.  That the    *)
(* entry then passes the initiator's packets rests on its two sides being  *)
(* different (a path never leads to the initiator) and on the request that *)
(* made it having come straight from the initiator, over one hop.          *)

NextHops == Relays \cup {Responder}

EntryFields ==
  {"next_hop_iface", "received_from", "taken_hops", "remaining_hops", "validated",
   "rebalanced"}

\* Through interface i the initiator reaches the responder, or a relay that
\* passes the initiator's packets on.
WayOut(i) ==
  \/ i = Responder
  \/ /\ i \in DOMAIN link_table
     /\ link_table[i].validated /\ link_table[i].received_from = Initiator

Entries ==
  \A n \in DOMAIN link_table :
    /\ EntryFields \subseteq DOMAIN link_table[n]
    /\ link_table[n].next_hop_iface \in NextHops
    /\ link_table[n].received_from = Initiator => link_table[n].taken_hops = 1

\* Requests that come from the initiator took no hop yet, and a proof that is
\* about to reach the initiator shows a way out.
Packet(p) ==
  /\ p.hops \in Nat
  /\ p.content.type = "LinkRequest" /\ p.from = Initiator => p.hops = 0
  /\ p.content.type = "Proof" /\ p.to = Initiator /\ Spent("expire") = 0
       => WayOut(p.from)

WayInv ==
  /\ LoopInv /\ Entries
  /\ route \in [Forwarders -> Paths]
  /\ {"status", "registered", "attempt", "iface", "keys"} \subseteq DOMAIN out
  /\ \A p \in net : Packet(p)
  /\ out.status = "Active" /\ Spent("expire") = 0 => WayOut(out.iface)

\* Every path leads to a relay or to the responder.
LEMMA PathIface ==
  ASSUME WayInv, NEW n \in Forwarders
  PROVE  route[n].iface \in NextHops
BY DEF WayInv, Paths, NextHops

\* A path shortened by a proof is still a path.
LEMMA RebalancedPath ==
  ASSUME NEW path \in Paths, NEW hops \in Nat \ {0}
  PROVE  Rebalanced(path, hops) \in Paths
BY DEF Rebalanced, Paths

\* Nothing is in flight and nobody holds an entry.
LEMMA InitWay == Init => WayInv
<1> SUFFICES ASSUME Init PROVE WayInv
  OBVIOUS
<1>1. LoopInv
  BY InitLoopInv
<1>2. Entries /\ \A p \in net : Packet(p)
  <2>1. DOMAIN link_table = {} /\ net = {}
    BY DEF Init
  <2> QED
    BY <2>1 DEF Entries
<1>3. route \in [Forwarders -> Paths]
  BY LinkNetworkAssumption DEF Init
<1>4. {"status", "registered", "attempt", "iface", "keys"} \subseteq DOMAIN out
      /\ out.status = "none"
  BY DEF Init, NoOutLink
<1> QED
  BY <1>1, <1>2, <1>3, <1>4 DEF WayInv

\* Packets that show nothing: no hop taken, and no proof but the responder's.
Direct(S) ==
  \A q \in S : q.hops = 0 /\ (q.content.type = "Proof" => q.from = Responder)

\* The part of the invariant that speaks of the out-link, after a step that
\* does not make it active.
OutKept ==
  /\ {"status", "registered", "attempt", "iface", "keys"} \subseteq DOMAIN out'
  /\ out'.status = "Active" => out.status = "Active" /\ out'.iface = out.iface

\* A step that touches no entry, sends what shows nothing and does not make the
\* out-link active.
LEMMA DirectStep ==
  ASSUME WayInv, LoopInv', UNCHANGED link_table, budget'["expire"] = budget["expire"],
         route' \in [Forwarders -> Paths], OutKept,
         NEW S, Direct(S), net' \subseteq net \cup S
  PROVE  WayInv'
<1>1. Entries'
  BY DEF WayInv, Entries
<1>2. Spent("expire")' = Spent("expire") /\ \A i : WayOut(i)' <=> WayOut(i)
  BY DEF Spent, WayOut
<1>3. ASSUME NEW p \in net' PROVE Packet(p)'
  <2>1. CASE p \in net
    BY <1>2, <2>1 DEF WayInv, Packet
  <2>2. CASE p \in S
    BY <2>2 DEF Direct, Packet, WayOut
  <2> QED
    BY <2>1, <2>2
<1> QED
  BY <1>1, <1>2, <1>3 DEF WayInv, OutKept

\* A step like that which sends nothing.
LEMMA StillStep ==
  ASSUME WayInv, LoopInv', UNCHANGED link_table, budget'["expire"] = budget["expire"],
         route' \in [Forwarders -> Paths], OutKept, net' \subseteq net
  PROVE  WayInv'
<1>1. Direct({}) /\ net' \subseteq net \cup {}
  BY DEF Direct
<1> QED
  BY <1>1, DirectStep

\* What an end sends shows nothing, unless the initiator sends a proof.
LEMMA OriginateDirect ==
  ASSUME NEW content, NEW iface, content.type = "Proof" => content.origin = Responder
  PROVE  Direct({Originate(content, iface)})
BY DEF Direct, Originate

\* A relay passes a request on: it no longer comes from the initiator, and the
\* entry made for one that did says one hop.
LEMMA RelayRequestWay ==
  ASSUME WayInv, LoopInv', NEW p \in net, relay_request(p)
  PROVE  WayInv'
<1> DEFINE n == p.to
           entry == NewLinkEntry(Hops(p), p.from, route[n].iface, route[n].hops - 1)
           q == Forward(p, route[n].iface)
<1>1. /\ n \in Relays /\ n # Initiator /\ p.content.type = "LinkRequest" /\ Packet(p)
      /\ UNCHANGED <<out, route, budget>>
  BY LinkNetworkAssumption DEF relay_request, WayInv
<1>2. net' \subseteq net \cup {q}
  BY DEF relay_request, Send
<1>3. \/ link_table' = link_table
      \/ n \notin DOMAIN link_table /\ link_table' = Put(n, entry)
  BY DEF relay_request
<1>4. Entries'
  <2>1. /\ EntryFields \subseteq DOMAIN entry /\ entry.next_hop_iface \in NextHops
        /\ entry.received_from = Initiator => entry.taken_hops = 1
    <3>1. route[n].iface \in NextHops
      BY <1>1, PathIface DEF Forwarders
    <3>2. p.from = Initiator => Hops(p) = 1
      BY <1>1 DEF Packet, Hops
    <3> QED
      BY <3>1, <3>2 DEF NewLinkEntry, EntryFields
  <2> HIDE DEF entry
  <2> QED
    BY <1>3, <2>1 DEF WayInv, Entries, Put
<1>5. \A i : WayOut(i) => WayOut(i)'
  BY <1>3 DEF WayOut, Put
<1>6. Spent("expire")' = Spent("expire")
  BY <1>1 DEF Spent
<1>7. ASSUME NEW r \in net' PROVE Packet(r)'
  <2>1. CASE r \in net
    BY <1>5, <1>6, <2>1 DEF WayInv, Packet
  <2>2. CASE r = q
    BY <1>1, <2>2 DEF Packet, Forward, Hops
  <2> QED
    BY <1>2, <2>1, <2>2
<1> QED
  BY <1>1, <1>4, <1>5, <1>6, <1>7 DEF WayInv

\* A relay passes a proof on to the initiator only through an entry whose
\* request came from the initiator, and proves that entry.
LEMMA RelayProofWay ==
  ASSUME WayInv, LoopInv', NEW p \in net, relay_proof(p)
  PROVE  WayInv'
<1> DEFINE n == p.to
           ifaces == IF n \in DOMAIN link_table /\ Passes(p)
                     THEN ProofOutbound(link_table[n], Hops(p), p.from) ELSE {}
<1>1. /\ n \in Relays /\ n # Initiator /\ p.content.type = "Proof" /\ Packet(p)
      /\ UNCHANGED <<out, budget>>
  BY LinkNetworkAssumption DEF relay_proof, WayInv
<1>2. net' \subseteq net \cup {Forward(p, i) : i \in ifaces}
  BY DEF relay_proof, Send
<1>3. Spent("expire")' = Spent("expire")
  BY <1>1 DEF Spent
<1>4. CASE ifaces = {}
  <2>1. UNCHANGED <<link_table, route>> /\ net' \subseteq net
    BY <1>2, <1>4 DEF relay_proof
  <2>2. OutKept /\ route' \in [Forwarders -> Paths]
    BY <1>1, <2>1 DEF OutKept, WayInv
  <2> QED
    BY <1>1, <2>1, <2>2, StillStep
<1>5. CASE ifaces # {}
  <2> DEFINE entry == link_table[n]
             proved == Proved(entry, Hops(p))
  <2>1. n \in DOMAIN link_table /\ ifaces = ProofOutbound(entry, Hops(p), p.from)
    BY <1>5
  <2>2. /\ EntryFields \subseteq DOMAIN entry /\ entry.next_hop_iface \in NextHops
        /\ entry.received_from = Initiator => entry.taken_hops = 1
    BY <2>1 DEF WayInv, Entries
  <2>3. /\ EntryFields \subseteq DOMAIN proved
        /\ proved.next_hop_iface = entry.next_hop_iface
        /\ proved.received_from = entry.received_from
        /\ proved.taken_hops = entry.taken_hops
        /\ proved.validated
    BY <2>2 DEF Proved, EntryFields
  <2>4. link_table' = Put(n, proved)
    BY <1>5 DEF relay_proof
  <2>5. DOMAIN link_table' = DOMAIN link_table /\ link_table'[n] = proved
        /\ \A m \in DOMAIN link_table : m # n => link_table'[m] = link_table[m]
    BY <2>1, <2>4 DEF Put
  <2>6. Initiator \in ifaces => WayOut(n)'
    <3>1. Initiator \notin NextHops
      BY LinkNetworkAssumption DEF NextHops
    <3>2. Initiator \in ifaces => entry.received_from = Initiator
      BY <2>1, <2>2, <3>1 DEF ProofOutbound, Outbound, SharedIface
    <3> QED
      BY <2>1, <2>3, <2>5, <3>2 DEF WayOut
  <2>7. Entries'
    BY <2>2, <2>3, <2>5 DEF WayInv, Entries
  <2>8. \A i : WayOut(i) => WayOut(i)'
    BY <2>3, <2>5 DEF WayOut
  <2>9. route' \in [Forwarders -> Paths]
    <3>1. Hops(p) \in Nat \ {0} /\ n \in Forwarders /\ route[n] \in Paths
      BY <1>1 DEF Packet, Hops, WayInv, Forwarders
    <3>2. Rebalanced(route[n], Hops(p)) \in Paths
      BY <3>1, RebalancedPath
    <3>3. \/ route' = route
          \/ route' = [route EXCEPT ![n] = Rebalanced(route[n], Hops(p))]
      BY <1>5 DEF relay_proof, WayInv
    <3> QED
      BY <3>1, <3>2, <3>3 DEF WayInv
  <2>10. ASSUME NEW r \in net' PROVE Packet(r)'
    <3>1. CASE r \in net
      BY <1>3, <2>8, <3>1 DEF WayInv, Packet
    <3>2. ASSUME NEW i \in ifaces, r = Forward(p, i) PROVE Packet(r)'
      <4>1. r.hops = Hops(p) /\ r.from = n /\ r.to = i /\ r.content.type = "Proof"
        BY <1>1, <3>2 DEF Forward
      <4> QED
        BY <1>1, <2>6, <3>2, <4>1 DEF Packet, Hops
    <3> QED
      BY <1>2, <3>1, <3>2
  <2> QED
    BY <1>1, <1>3, <2>7, <2>8, <2>9, <2>10 DEF WayInv
<1> QED
  BY <1>4, <1>5

\* What a relay makes of other packets is neither a request nor a proof.
LEMMA RelayDataWay ==
  ASSUME WayInv, LoopInv', NEW p \in net, relay_data(p)
  PROVE  WayInv'
<1>1. /\ p.content.type = "Data" /\ Packet(p)
      /\ UNCHANGED <<out, route, link_table, budget>>
  BY DEF relay_data, WayInv
<1>2. PICK I : net' = (net \ {p}) \cup {Forward(p, i) : i \in I}
  BY DEF relay_data, Send
<1>3. Spent("expire")' = Spent("expire") /\ \A i : WayOut(i)' <=> WayOut(i)
  BY <1>1 DEF Spent, WayOut
<1>4. ASSUME NEW r \in net' PROVE Packet(r)'
  <2>1. CASE r \in net
    BY <1>3, <2>1 DEF WayInv, Packet
  <2>2. CASE r \in {Forward(p, i) : i \in I}
    BY <1>1, <2>2 DEF Packet, Forward, Hops
  <2> QED
    BY <1>2, <2>1, <2>2
<1>5. Entries'
  BY <1>1 DEF WayInv, Entries
<1> QED
  BY <1>1, <1>3, <1>4, <1>5 DEF WayInv

\* A link becomes active on the interface of a proof, which shows a way out.
LEMMA InitiatorProofWay ==
  ASSUME WayInv, LoopInv', NEW p \in net, initiator_proof(p)
  PROVE  WayInv'
<1> DEFINE rtt == DataContent(Initiator, "LinkRTT", p.content.keys)
<1>1. /\ p.to = Initiator /\ p.content.type = "Proof" /\ Packet(p)
      /\ UNCHANGED <<link_table, budget>>
  BY DEF initiator_proof, WayInv
<1>2. Direct({Originate(rtt, p.from)}) /\ net' \subseteq net \cup {Originate(rtt, p.from)}
  <2>1. rtt.type = "Data"
    BY DEF DataContent, Content
  <2> QED
    BY <2>1, OriginateDirect DEF initiator_proof, Send
<1>3. route' \in [Forwarders -> Paths]
  <2>1. Hops(p) \in Nat \ {0} /\ Initiator \in Forwarders /\ route[Initiator] \in Paths
    BY <1>1 DEF Packet, Hops, WayInv, Forwarders
  <2>2. Rebalanced(route[Initiator], Hops(p)) \in Paths
    BY <2>1, RebalancedPath
  <2>3. \/ route' = route
        \/ route' = [route EXCEPT ![Initiator] = Rebalanced(route[Initiator], Hops(p))]
    BY DEF initiator_proof
  <2> QED
    BY <2>1, <2>2, <2>3 DEF WayInv
<1>4. CASE out' = out
  <2>1. OutKept
    BY <1>4 DEF OutKept, WayInv
  <2> QED
    BY <1>1, <1>2, <1>3, <2>1, DirectStep
<1>5. CASE out' = Activated(out, p)
  <2>1. Entries'
    BY <1>1 DEF WayInv, Entries
  <2>2. Spent("expire")' = Spent("expire") /\ \A i : WayOut(i)' <=> WayOut(i)
    BY <1>1 DEF Spent, WayOut
  <2>3. ASSUME NEW r \in net' PROVE Packet(r)'
    <3>1. CASE r \in net
      BY <2>2, <3>1 DEF WayInv, Packet
    <3>2. CASE r \in {Originate(rtt, p.from)}
      BY <1>2, <3>2 DEF Direct, Packet, WayOut
    <3> QED
      BY <1>2, <3>1, <3>2
  <2>4. /\ {"status", "registered", "attempt", "iface", "keys"} \subseteq DOMAIN out'
        /\ out'.iface = p.from
    BY <1>5 DEF Activated, WayInv
  <2>5. Spent("expire") = 0 => WayOut(p.from)
    BY <1>1 DEF Packet
  <2>6. (Spent("expire") = 0 => WayOut(out.iface))'
    BY <1>1, <2>4, <2>5 DEF Spent, WayOut
  <2> QED
    BY <1>3, <2>1, <2>3, <2>4, <2>6 DEF WayInv
<1> QED
  BY <1>4, <1>5 DEF initiator_proof

\* A forgotten entry ends the promise.
LEMMA RemoveStaleWay ==
  ASSUME WayInv, LoopInv', NEW n, remove_stale(n)
  PROVE  WayInv'
<1>1. /\ UNCHANGED <<out, route, net>> /\ Spend("expire")
      /\ link_table' = [m \in DOMAIN link_table \ {n} |-> link_table[m]]
  BY DEF remove_stale
<1>2. Spent("expire")' # 0
  <2>1. /\ budget \in [Kinds -> Nat] /\ budget["expire"] <= Budget["expire"]
        /\ Budget["expire"] \in Nat /\ "expire" \in Kinds
    BY LinkNetworkAssumption DEF WayInv, LoopInv, Kinds
  <2> QED
    BY <1>1, <2>1 DEF Spend, Spent
<1>3. Entries'
  BY <1>1 DEF WayInv, Entries
<1>4. ASSUME NEW r \in net' PROVE Packet(r)'
  BY <1>1, <1>2, <1>4 DEF WayInv, Packet
<1> QED
  BY <1>1, <1>2, <1>3, <1>4 DEF WayInv

\* The initiator's steps that handle no packet, and the application's.
LEMMA InitiatorWay ==
  ASSUME WayInv, LoopInv',
         \/ link_request \/ link_register \/ check_pending \/ check_active \/ check_closed
         \/ check_stale_restart \/ check_stale_teardown
         \/ \E e \in Endpoints : send_data(e) \/ link_close(e)
  PROVE  WayInv'
<1>s. {"status", "registered", "attempt", "iface", "keys"} \subseteq DOMAIN out
  BY DEF WayInv
<1>1. UNCHANGED <<link_table, route>> /\ route' \in [Forwarders -> Paths]
  BY DEF link_request, link_register, check_pending, check_active, check_closed,
     check_stale_restart, check_stale_teardown, send_data, link_close, WayInv
<1>2. budget'["expire"] = budget["expire"]
  <2>1. budget' = budget \/ Spend("idle") \/ Spend("send") \/ Spend("close")
    BY DEF link_request, link_register, check_pending, check_active, check_closed,
       check_stale_restart, check_stale_teardown, send_data, link_close
  <2> QED
    BY <2>1, SpendOther DEF WayInv, Kinds
<1>3. OutKept
  <2>1. CASE \/ link_request \/ link_register \/ check_active \/ check_closed
             \/ check_stale_restart \/ check_stale_teardown
    BY <1>s, <2>1 DEF OutKept, link_request, link_register, check_active, check_closed,
       check_stale_restart, Restarted, check_stale_teardown
  <2>2. CASE check_pending
    BY <1>s, <2>2 DEF OutKept, check_pending, Retried
  <2>3. CASE \E e \in Endpoints : send_data(e) \/ link_close(e)
    BY <1>s, <2>3 DEF OutKept, send_data, link_close, SetStatus
  <2> QED
    BY <2>1, <2>2, <2>3
<1>4. \E S : Direct(S) /\ net' \subseteq net \cup S
  <2>r. \A link : Direct({SendRequest(link)})
    BY DEF Direct, SendRequest, Originate, RequestContent, Content
  <2>d. \A e, c, k, i : Direct({Originate(DataContent(e, c, k), i)})
    BY DEF Direct, Originate, DataContent, Content
  <2>0. Direct({})
    BY DEF Direct
  <2>1. CASE link_request \/ check_pending
    BY <2>r, <2>0, <2>1 DEF link_request, check_pending
  <2>2. CASE link_register \/ check_active \/ check_closed \/ check_stale_restart
    BY <2>0, <2>2 DEF link_register, check_active, check_closed, check_stale_restart
  <2>3. CASE check_stale_teardown
    BY <2>d, <2>3 DEF check_stale_teardown
  <2>4. ASSUME NEW e \in Endpoints, send_data(e) \/ link_close(e)
        PROVE  \E S : Direct(S) /\ net' \subseteq net \cup S
    <3>1. net' = net \/ \E c, k, i : net' = net \cup {Originate(DataContent(e, c, k), i)}
      BY <2>4 DEF send_data, link_close
    <3> QED
      BY <2>d, <2>0, <3>1
  <2> QED
    BY <2>1, <2>2, <2>3, <2>4
<1> QED
  BY <1>1, <1>2, <1>3, <1>4, DirectStep

\* The responder's steps, and what the environment does.
LEMMA OtherWay ==
  ASSUME WayInv, LoopInv',
         \/ check_in_active \/ check_in_stale
         \/ \E p \in net : responder_request(p) \/ responder_proof(p) \/ receive_data(p)
                           \/ lose(p)
         \/ \E n \in Forwarders : reroute(n)
         \/ \E n \in Nodes : release(n)
         \/ UNCHANGED vars
  PROVE  WayInv'
<1>s. {"status", "registered", "attempt", "iface", "keys"} \subseteq DOMAIN out
  BY DEF WayInv
<1>1. link_table' = link_table
  BY DEF check_in_active, check_in_stale, responder_request, responder_proof,
     receive_data, lose, reroute, release, vars
<1>2. budget'["expire"] = budget["expire"]
  <2>1. budget' = budget \/ \E k \in Kinds \ {"expire"} : Spend(k)
    BY DEF check_in_active, check_in_stale, responder_request, responder_proof,
       receive_data, lose, reroute, release, vars, Kinds
  <2> QED
    BY <2>1, SpendOther DEF WayInv
<1>3. route' \in [Forwarders -> Paths]
  <2>1. CASE \E n \in Forwarders : reroute(n)
    <3>1. PICK n \in Forwarders : reroute(n)
      BY <2>1
    <3>2. PICK path \in Routes[n] : route' = [route EXCEPT ![n] = path]
      BY <3>1 DEF reroute
    <3>3. path \in Paths
      BY LinkNetworkAssumption
    <3> QED
      BY <3>2, <3>3 DEF WayInv
  <2>2. CASE ~\E n \in Forwarders : reroute(n)
    BY <2>2 DEF check_in_active, check_in_stale, responder_request, responder_proof,
       receive_data, lose, release, vars, WayInv
  <2> QED
    BY <2>1, <2>2
<1>4. OutKept
  BY <1>s DEF OutKept, check_in_active, check_in_stale, responder_request, responder_proof,
     receive_data, handle_data_packet, SetStatus, lose, reroute, release, vars
<1>5. \E S : Direct(S) /\ net' \subseteq net \cup S
  <2>0. Direct({})
    BY DEF Direct
  <2>1. CASE check_in_stale
    <3>1. \A k, i : Direct({Originate(DataContent(Responder, "LinkClose", k), i)})
      BY DEF Direct, Originate, DataContent, Content
    <3> QED
      BY <2>1, <3>1 DEF check_in_stale
  <2>2. ASSUME NEW p \in net, responder_request(p)
        PROVE  \E S : Direct(S) /\ net' \subseteq net \cup S
    <3> DEFINE S == {Originate(ProofContent(in'.keys), i) : i \in ProofIfaces}
    <3>1. Direct(S)
      BY DEF Direct, Originate, ProofContent, Content
    <3>2. net' \subseteq net \cup S
      BY <2>2 DEF responder_request, Send
    <3> QED
      BY <3>1, <3>2
  <2>3. ASSUME net' \subseteq net PROVE \E S : Direct(S) /\ net' \subseteq net \cup S
    BY <2>0, <2>3
  <2>4. \/ check_in_stale \/ \E p \in net : responder_request(p)
        \/ net' \subseteq net
    BY DEF check_in_active, responder_proof, receive_data, lose, Send, reroute, release, vars
  <2> QED
    BY <2>1, <2>2, <2>3, <2>4
<1> QED
  BY <1>1, <1>2, <1>3, <1>4, <1>5, DirectStep

\* Every step of the specification.
LEMMA NextWay == WayInv /\ [Next]_vars => WayInv'
<1> SUFFICES ASSUME WayInv, [Next]_vars PROVE WayInv'
  OBVIOUS
<1>1. LoopInv'
  BY NextLoopInv DEF WayInv
<1> QED
  BY <1>1, InitiatorWay, OtherWay, InitiatorProofWay, RelayRequestWay, RelayProofWay,
     RelayDataWay, RemoveStaleWay DEF Next, check_links, Receive

\* A link that Link::handle_proof_packet made active is attached to the
\* responder or to a relay whose entry passes the initiator's packets on, as
\* long as no relay forgot an entry, whatever the topology and the paths are.
THEOREM WayOutExists == Spec => []ActiveHasWayOut
<1>1. WayInv => ActiveHasWayOut
  <2> SUFFICES ASSUME WayInv, WayOut(out.iface), out.iface # Responder
               PROVE  /\ out.iface \in DOMAIN link_table
                      /\ PacketOutbound(link_table[out.iface], 1, Initiator) # {}
    BY DEF WayInv, ActiveHasWayOut
  <2> DEFINE entry == link_table[out.iface]
  <2>1. /\ out.iface \in DOMAIN link_table /\ entry.validated
        /\ entry.received_from = Initiator
    BY DEF WayOut
  <2>2. entry.taken_hops = 1 /\ entry.next_hop_iface \in NextHops
    BY <2>1 DEF WayInv, Entries
  <2>3. entry.next_hop_iface # entry.received_from
    BY <2>1, <2>2, LinkNetworkAssumption DEF NextHops
  <2>4. entry.next_hop_iface \in PacketOutbound(entry, 1, Initiator)
    BY <2>1, <2>2, <2>3 DEF PacketOutbound, Outbound, SharedIface
  <2> QED
    BY <2>1, <2>4
<1> QED
  BY <1>1, InitWay, NextWay, PTL DEF Spec
=============================================================================
