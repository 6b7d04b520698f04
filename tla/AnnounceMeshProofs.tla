------------------------- MODULE AnnounceMeshProofs -------------------------
(***************************************************************************)
(* Paths learnt from one emission lead home, in every network: for every   *)
(* set of nodes, edges and interface modes, and whatever requests, echoes, *)
(* retransmissions, losses and operators do, short of a path being         *)
(* forgotten.                                                              *)
(*                                                                         *)
(* Both invariants follow from what the hop count of a copy is worth: the  *)
(* node that sent it is no farther away, and at least as many nodes as it  *)
(* counts know a path that is no longer (Earned).  A node that installs a  *)
(* copy was not one of them, so that the count holds with one more hop;    *)
(* and a node that passes a copy on without installing it would break it,  *)
(* which is why nobody waits for an answer at a node that has a path.      *)
(***************************************************************************)
EXTENDS AnnounceMesh, FiniteSetTheorems, TLAPS

\* The nodes that know a path of at most h hops.
Within(h) == {n \in Nodes : HasPath(n) /\ Path(n).hops <= h}

\* A hop count that an announce of n may carry: n is no farther away, and as
\* many nodes as it counts know a path that is no longer.
Earned(n, h) ==
  /\ n \in Nodes \ {Owner}
  /\ h \in Nat
  /\ HasPath(n)
  /\ Path(n).hops <= h
  /\ h <= Cardinality(Within(h))

\* The path of n came from a copy of the one emission and leads home.
Homing(n) ==
  /\ Earned(n, Path(n).hops)
  /\ Path(n).blob \in emissions
  /\ Path(n).random_blobs = <<Path(n).blob>>
  /\ Path(n).gravity = 0 /\ Path(n).bitrate = -1
  /\ Path(n).hops > 0
  /\ \/ Path(n).received_from = Owner
     \/ /\ Path(n).received_from \in Nodes
        /\ HasPath(Path(n).received_from)
        /\ Path(Path(n).received_from).hops < Path(n).hops

\* A copy under way.
Copy(p) ==
  /\ p.from \in Nodes
  /\ p.to \in Nodes \ {Owner}
  /\ p.blob \in emissions
  /\ \/ p.transport = NoTransport /\ p.hops = 0
     \/ p.transport # NoTransport /\ Earned(p.transport, p.hops)

\* An entry of the announce table of n.
Stored(n, e) ==
  /\ {"blob", "hops", "received_from", "response_to_iface", "retries",
      "local_rebroadcasts", "due"} \subseteq DOMAIN e
  /\ e.blob \in emissions
  /\ Earned(n, e.hops)
  /\ e.response_to_iface \in Nodes \cup {Anyone}

Slots(n) == announce_table[n].map \cup announce_table[n].responses \cup announce_table[n].cache

MeshInv ==
  /\ \A n \in Nodes : HasPath(n) => Homing(n)
  /\ \A p \in net : p.type = "announce" => Copy(p)
  /\ \A p \in net : p.type = "request" => p.from \in Nodes /\ p.to \in Nodes
  /\ \A n \in Nodes : \A e \in Slots(n) : Stored(n, e)
  /\ \A n \in Nodes : discovery[n] \subseteq Nodes
  /\ \A n \in Nodes : discovery[n] # {} => n # Owner /\ ~HasPath(n)

\* One emission at most, and no path forgotten.
Quiet == Cardinality(emissions) <= 1 /\ budget["forget"] = Budget["forget"]

\* The tables are functions of the nodes, and nothing was given back to the
\* budget.
Tables ==
  /\ path_table = [n \in Nodes |-> path_table[n]]
  /\ announce_table = [n \in Nodes |-> announce_table[n]]
  /\ \A n \in Nodes : {"map", "responses", "cache"} \subseteq DOMAIN announce_table[n]
  /\ discovery = [n \in Nodes |-> discovery[n]]
  /\ budget \in [Kinds -> Nat]
  /\ budget["forget"] <= Budget["forget"]
  /\ IsFiniteSet(emissions)

IInv == Tables /\ (Quiet => MeshInv)

-----------------------------------------------------------------------------
\* A quiet network has one blob at most.
LEMMA OneBlob ==
  ASSUME Tables, Quiet, NEW a \in emissions, NEW b \in emissions
  PROVE  a = b
<1>1. Cardinality(emissions) \in Nat
  BY FS_CardinalityType DEF Tables
<1>2. Cardinality(emissions) # 0
  BY FS_EmptySet DEF Tables
<1>3. Cardinality(emissions) = 1
  BY <1>1, <1>2 DEF Quiet
<1> QED
  BY <1>3, FS_Singleton DEF Tables

\* Whatever is quiet after a step was quiet before it, and forgot nothing.
LEMMA QuietBefore ==
  ASSUME Tables, Tables', emissions \subseteq emissions', Quiet',
         budget'["forget"] <= budget["forget"]
  PROVE  Quiet /\ budget'["forget"] = budget["forget"]
<1>1. /\ Cardinality(emissions) \in Nat /\ Cardinality(emissions') \in Nat
      /\ Cardinality(emissions) <= Cardinality(emissions')
  <2>1. IsFiniteSet(emissions) /\ IsFiniteSet(emissions')
    BY DEF Tables
  <2> QED
    BY <2>1, FS_CardinalityType, FS_Subset
<1>2. Budget["forget"] \in Nat /\ budget["forget"] \in Nat /\ budget'["forget"] \in Nat
      /\ budget["forget"] <= Budget["forget"] /\ budget'["forget"] = Budget["forget"]
  BY AnnounceMeshAssumption DEF Tables, Quiet, Kinds
<1>3. Cardinality(emissions') <= 1
  BY DEF Quiet
<1> QED
  BY <1>1, <1>2, <1>3 DEF Quiet

\* No node loses its path or gets a longer one.
Closer ==
  \A n \in Nodes : HasPath(n) => /\ HasPath(n)'
                                 /\ Path(n)'.hops \in Nat
                                 /\ Path(n)'.hops <= Path(n).hops

\* A hop count that was earned stays so.
LEMMA EarnedKept ==
  ASSUME Closer, MeshInv, NEW n, NEW h, Earned(n, h)
  PROVE  Earned(n, h)'
<1>1. \A x \in Nodes : HasPath(x) => Path(x).hops \in Nat
  BY DEF MeshInv, Homing, Earned
<1>2. n \in Nodes \ {Owner} /\ h \in Nat /\ HasPath(n) /\ Path(n).hops <= h
      /\ h <= Cardinality(Within(h))
  BY DEF Earned
<1>3. \A x \in Within(h) : x \in Within(h)'
  BY <1>1, <1>2 DEF Closer, Within
<1>4. IsFiniteSet(Within(h)) /\ IsFiniteSet(Within(h)')
  <2>1. Within(h) \in SUBSET Nodes /\ Within(h)' \in SUBSET Nodes
    BY DEF Within
  <2> QED
    BY <2>1, FS_Subset, AnnounceMeshAssumption
<1>5. /\ Cardinality(Within(h)) \in Nat /\ Cardinality(Within(h)') \in Nat
      /\ Cardinality(Within(h)) <= Cardinality(Within(h)')
  BY <1>3, <1>4, FS_CardinalityType, FS_Subset
<1>6. HasPath(n)' /\ Path(n)'.hops <= h
  BY <1>1, <1>2 DEF Closer
<1> QED
  BY <1>2, <1>5, <1>6 DEF Earned

\* Copies under way and entries of the announce tables stay what they were.
LEMMA CopyKept ==
  ASSUME Closer, MeshInv, emissions \subseteq emissions', NEW p, Copy(p)
  PROVE  Copy(p)'
<1>1. p.from \in Nodes /\ p.to \in Nodes \ {Owner} /\ p.blob \in emissions'
  BY DEF Copy
<1>2. CASE p.transport = NoTransport /\ p.hops = 0
  BY <1>1, <1>2 DEF Copy
<1>3. CASE p.transport # NoTransport /\ Earned(p.transport, p.hops)
  BY <1>1, <1>3, EarnedKept DEF Copy
<1> QED
  BY <1>2, <1>3 DEF Copy

LEMMA StoredKept ==
  ASSUME Closer, MeshInv, emissions \subseteq emissions', NEW n, NEW e, Stored(n, e)
  PROVE  Stored(n, e)'
<1>1. Earned(n, e.hops)'
  BY EarnedKept DEF Stored
<1> QED
  BY <1>1 DEF Stored

\* Steps that leave the path tables alone.
LEMMA SamePaths ==
  ASSUME MeshInv, UNCHANGED path_table
  PROVE  Closer
<1>1. \A x \in Nodes : HasPath(x) => Path(x).hops \in Nat
  BY DEF MeshInv, Homing, Earned
<1> QED
  BY <1>1 DEF Closer, HasPath, Path

LEMMA SameHoming ==
  ASSUME MeshInv, UNCHANGED path_table, emissions \subseteq emissions', NEW n \in Nodes,
         HasPath(n)'
  PROVE  Homing(n)'
<1>1. Homing(n)
  BY DEF MeshInv, HasPath
<1>2. Earned(n, Path(n).hops)'
  BY <1>1 DEF Homing, Earned, Within, HasPath, Path
<1> QED
  BY <1>1, <1>2 DEF Homing, HasPath, Path

\* What a node has sent after a step: copies with a hop count that it has earned ...
LEMMA AnnounceIsCopy ==
  ASSUME NEW n, NEW ifaces, ifaces \subseteq Nodes, NEW blob, blob \in emissions',
         NEW h, Earned(n, h)', NEW response, NEW copy,
         NEW p \in AnnounceTo(n, ifaces, blob, h, n, response, copy)
  PROVE  p.type = "announce" /\ Copy(p)'
<1>1. PICK i \in ifaces \ {Owner} :
        p = [type |-> "announce", blob |-> blob, hops |-> h, transport |-> n,
             response |-> response, copy |-> copy, from |-> n, to |-> i]
  BY DEF AnnounceTo
<1>2. n \in Nodes /\ n # NoTransport
  BY AnnounceMeshAssumption DEF Earned
<1> QED
  BY <1>1, <1>2 DEF Copy

\* ... the owner's own announces ...
LEMMA OwnIsCopy ==
  ASSUME NEW ifaces, ifaces \subseteq Nodes, NEW blob, blob \in emissions',
         NEW response, NEW copy,
         NEW p \in AnnounceTo(Owner, ifaces, blob, 0, NoTransport, response, copy)
  PROVE  p.type = "announce" /\ Copy(p)'
<1>1. PICK i \in ifaces \ {Owner} :
        p = [type |-> "announce", blob |-> blob, hops |-> 0, transport |-> NoTransport,
             response |-> response, copy |-> copy, from |-> Owner, to |-> i]
  BY DEF AnnounceTo
<1> QED
  BY <1>1, AnnounceMeshAssumption DEF Copy

\* ... and requests.
LEMMA RequestIsRequest ==
  ASSUME NEW n \in Nodes, NEW ifaces, ifaces \subseteq Nodes, NEW tag,
         NEW p \in RequestTo(n, ifaces, tag)
  PROVE  p.type = "request" /\ p.from \in Nodes /\ p.to \in Nodes
  BY DEF RequestTo

LEMMA IfacesAreNodes ==
  ASSUME NEW n
  PROVE  /\ Neighbours(n) \subseteq Nodes
         /\ \A local, source : AnnounceIfaces(n, local, source) \subseteq Nodes
         /\ \A iface : SearchIfaces(n, iface) \subseteq Nodes
<1>1. Neighbours(n) \subseteq Nodes
  BY DEF Neighbours
<1>2. ASSUME NEW local, NEW source
      PROVE  AnnounceIfaces(n, local, source) \subseteq Nodes
  BY <1>1 DEF AnnounceIfaces
<1>3. ASSUME NEW iface
      PROVE  SearchIfaces(n, iface) \subseteq Nodes
  <2>1. BroadcastIfaces(n, iface) \subseteq Nodes
    BY <1>1 DEF BroadcastIfaces
  <2> DEFINE others == {i \in Neighbours(n) \ {iface} :
                Mode[n][iface] = "Boundary" => Mode[n][i] \in {"Boundary", "Gateway"}}
  <2>2. others \subseteq Nodes
    BY <1>1
  <2>3. SearchIfaces(n, iface) = IF others # {} THEN others ELSE BroadcastIfaces(n, iface)
    BY DEF SearchIfaces
  <2> HIDE DEF others
  <2> QED
    BY <2>1, <2>2, <2>3
<1> QED
  BY <1>1, <1>2, <1>3

-----------------------------------------------------------------------------
(* The announce table. *)

\* What the network sees of an entry that to_retransmit or an echo touched.
LEMMA Touched ==
  ASSUME NEW n, NEW e, Stored(n, e), NEW x, NEW y
  PROVE  /\ Stored(n, [e EXCEPT !.retries = x, !.due = y])
         /\ Stored(n, [e EXCEPT !.local_rebroadcasts = x])
         /\ Stored(n, [e EXCEPT !.due = y])
  BY DEF Stored

LEMMA AddStored ==
  ASSUME NEW n, NEW table, {"map", "responses", "cache"} \subseteq DOMAIN table,
         NEW blob, blob \in emissions', NEW h, Earned(n, h)', NEW from
  PROVE  /\ \A e \in Add(table, blob, h, from).map : Stored(n, e)'
         /\ Add(table, blob, h, from).responses = table.responses
         /\ Add(table, blob, h, from).cache = table.cache
         /\ DOMAIN Add(table, blob, h, from) = DOMAIN table
  BY DEF Add, Stored

LEMMA EchoStored ==
  ASSUME NEW n, NEW table, {"map", "responses", "cache"} \subseteq DOMAIN table,
         \A e \in table.map : Stored(n, e), NEW h
  PROVE  /\ \A e \in EchoReceived(table, h).map : Stored(n, e)
         /\ EchoReceived(table, h).responses = table.responses
         /\ EchoReceived(table, h).cache = table.cache
         /\ DOMAIN EchoReceived(table, h) = DOMAIN table
<1>1. /\ EchoReceived(table, h).responses = table.responses
      /\ EchoReceived(table, h).cache = table.cache
      /\ DOMAIN EchoReceived(table, h) = DOMAIN table
  BY DEF EchoReceived
<1>2. ASSUME NEW e \in EchoReceived(table, h).map
      PROVE  Stored(n, e)
  <2>1. PICK o \in table.map : e = IF Echo(o, h) THEN [o EXCEPT !.local_rebroadcasts = @ + 1]
                                   ELSE o
    BY DEF EchoReceived
  <2>2. Stored(n, o)
    OBVIOUS
  <2>3. Stored(n, [o EXCEPT !.local_rebroadcasts = o.local_rebroadcasts + 1])
    BY <2>2, Touched
  <2> QED
    BY <2>1, <2>2, <2>3
<1> QED
  BY <1>1, <1>2

LEMMA ResponseStored ==
  ASSUME NEW n, NEW table, {"map", "responses", "cache"} \subseteq DOMAIN table,
         \A e \in table.map \cup table.cache : Stored(n, e), NEW h, Earned(n, h),
         NEW to \in Nodes
  PROVE  /\ \A e \in AddResponse(table, to, h).responses : Stored(n, e)
         /\ AddResponse(table, to, h).map = table.map
         /\ AddResponse(table, to, h).cache = table.cache
         /\ DOMAIN AddResponse(table, to, h) = DOMAIN table
<1>1. /\ AddResponse(table, to, h).map = table.map
      /\ AddResponse(table, to, h).cache = table.cache
      /\ DOMAIN AddResponse(table, to, h) = DOMAIN table
  BY DEF AddResponse
<1>2. ASSUME NEW e \in AddResponse(table, to, h).responses
      PROVE  Stored(n, e)
  <2>1. PICK o \in Answerable(table) :
          e = [o EXCEPT !.retries = 0, !.local_rebroadcasts = 0, !.hops = h,
                        !.due = TRUE, !.response_to_iface = to]
    BY DEF AddResponse
  <2>2. Stored(n, o)
    BY DEF Answerable
  <2> QED
    BY <2>1, <2>2 DEF Stored
<1> QED
  BY <1>1, <1>2

\* A transmission changes the counters of an entry only.
LEMMA RetransmittedStored ==
  ASSUME NEW n, NEW e, Stored(n, e)
  PROVE  /\ Stored(n, Retransmitted(e))
         /\ Retransmitted(e).response_to_iface = e.response_to_iface
<1>1. Stored(n, [e EXCEPT !.retries = e.retries + 1, !.due = FALSE])
  BY Touched
<1> QED
  BY <1>1 DEF Retransmitted, Stored

LEMMA RetransmitStored ==
  ASSUME NEW n, NEW table, \A e \in table.map \cup table.responses \cup table.cache : Stored(n, e)
  PROVE  /\ \A e \in Outgoing(table) : Stored(n, e)
         /\ \A e \in ToRetransmit(table).map \cup ToRetransmit(table).responses
                       \cup ToRetransmit(table).cache : Stored(n, e)
         /\ {"map", "responses", "cache"} \subseteq DOMAIN ToRetransmit(table)
<1>1. ASSUME NEW e \in Outgoing(table)
      PROVE  Stored(n, e)
  <2>1. PICK o \in table.responses \cup table.map : e = Retransmitted(o)
    BY DEF Outgoing
  <2>2. Stored(n, o)
    BY <2>1
  <2> QED
    BY <2>1, <2>2, RetransmittedStored
<1>2. ASSUME NEW e \in ToRetransmit(table).map
      PROVE  Stored(n, e)
  <2>1. PICK o \in table.map : e = Retransmitted(o) \/ e = o
    BY DEF ToRetransmit
  <2>2. Stored(n, o)
    BY <2>1
  <2> QED
    BY <2>1, <2>2, RetransmittedStored
<1>3. ASSUME NEW e \in ToRetransmit(table).responses \cup ToRetransmit(table).cache
      PROVE  Stored(n, e)
  <2>1. e \in table.responses \cup table.map \cup table.cache
    BY DEF ToRetransmit
  <2> QED
    BY <2>1
<1>4. {"map", "responses", "cache"} \subseteq DOMAIN ToRetransmit(table)
  BY DEF ToRetransmit
<1> QED
  BY <1>1, <1>2, <1>3, <1>4

\* What a retransmission puts on its way.
LEMMA RetransmissionIsCopy ==
  ASSUME NEW n, NEW e, Stored(n, e)', NEW p \in Retransmission(n, e)
  PROVE  p.type = "announce" /\ Copy(p)'
<1>1. Earned(n, e.hops)' /\ e.blob \in emissions' /\ e.response_to_iface \in Nodes \cup {Anyone}
  BY DEF Stored
<1>2. CASE e.response_to_iface # Anyone
  <2>1. p \in AnnounceTo(n, {e.response_to_iface}, e.blob, e.hops, n, TRUE, e.retries)
    BY <1>2 DEF Retransmission
  <2>2. {e.response_to_iface} \subseteq Nodes
    BY <1>1, <1>2
  <2> QED
    BY <1>1, <2>1, <2>2, AnnounceIsCopy
<1>3. CASE e.response_to_iface = Anyone
  <2> DEFINE I == AnnounceIfaces(n, FALSE, Mode[n][e.received_from])
  <2>1. p \in AnnounceTo(n, I, e.blob, e.hops, n, FALSE, e.retries)
    BY <1>3 DEF Retransmission
  <2>2. I \subseteq Nodes
    BY IfacesAreNodes
  <2> HIDE DEF I
  <2> QED
    BY <1>1, <2>1, <2>2, AnnounceIsCopy
<1> QED
  BY <1>2, <1>3

-----------------------------------------------------------------------------
(* The path table. *)

\* The rates of all interfaces are equal.
LEMMA EqualRates ==
  \A i : Paths!IfaceGravity(i) = 0 /\ Paths!IfaceBitrate(i) = -1
  BY DEF Paths!IfaceGravity, Paths!IfaceBitrate

\* A copy of the emission that installed the path is accepted if it is closer.
LEMMA AcceptsCloser ==
  ASSUME NEW n, NEW p, p.hops \in Nat,
         HasPath(n) => /\ Path(n).random_blobs = <<p.blob>>
                       /\ Path(n).gravity = 0 /\ Path(n).bitrate = -1
                       /\ Path(n).hops \in Nat
  PROVE  Paths!would_update_path(path_table[n], Received(p))
           <=> (HasPath(n) => p.hops + 1 < Path(n).hops)
<1> DEFINE a == Received(p)
<1>1. a.destination = Owner /\ a.hops = p.hops + 1 /\ a.blob = p.blob
  BY DEF Received
<1> HIDE DEF a
<1>2. CASE ~HasPath(n)
  BY <1>1, <1>2 DEF Paths!would_update_path, HasPath, a
<1>3. CASE HasPath(n)
  <2>1. a.blob \in Paths!Recorded(Path(n))
    <3>1. Path(n).random_blobs = <<a.blob>>
      BY <1>1, <1>3
    <3> QED
      BY <3>1 DEF Paths!Recorded
  <2>2. ~Paths!prefers_interface(Path(n), a)
    BY <1>3, EqualRates DEF Paths!prefers_interface
  <2>3. Paths!should_accept(Path(n), a) <=> a.hops < Path(n).hops
    BY <2>1, <2>2 DEF Paths!should_accept, Paths!AcceptRecorded
  <2>4. Paths!would_update_path(path_table[n], a) <=> Paths!should_accept(Path(n), a)
    BY <1>1, <1>3 DEF Paths!would_update_path, HasPath, Path
  <2> QED
    BY <2>3, <2>4, <1>1, <1>3 DEF a
<1> QED
  BY <1>2, <1>3

\* The entry that it installs.
LEMMA Installed ==
  ASSUME NEW n, NEW p, HasPath(n) => Path(n).random_blobs = <<p.blob>>,
         Paths!would_update_path(path_table[n], Received(p))
  PROVE  LET m == Paths!Install(path_table[n], Received(p)) IN
         /\ Owner \in DOMAIN m
         /\ m[Owner].hops = p.hops + 1
         /\ m[Owner].blob = p.blob
         /\ m[Owner].random_blobs = <<p.blob>>
         /\ m[Owner].gravity = 0 /\ m[Owner].bitrate = -1
         /\ m[Owner].received_from = IF p.transport = NoTransport THEN Owner ELSE p.transport
<1> DEFINE a == Received(p)
           m == Paths!Install(path_table[n], a)
<1>1. /\ a.destination = Owner /\ a.hops = p.hops + 1 /\ a.blob = p.blob
      /\ a.via = IF p.transport = NoTransport THEN Owner ELSE p.transport
  BY DEF Received
<1> HIDE DEF a
<1>2. m = Paths!Put(path_table[n], Owner, Paths!NewEntry(path_table[n], a))
  BY <1>1 DEF Paths!Install, a
<1>3. Owner \in DOMAIN m /\ m[Owner] = Paths!NewEntry(path_table[n], a)
  BY <1>2 DEF Paths!Put
<1>4. /\ m[Owner].hops = a.hops /\ m[Owner].blob = a.blob
      /\ m[Owner].gravity = 0 /\ m[Owner].bitrate = -1
      /\ m[Owner].received_from = a.via
      /\ m[Owner].random_blobs = IF HasPath(n)
                                 THEN Paths!updated_random_blobs(Path(n), a.blob)
                                 ELSE <<a.blob>>
  BY <1>1, <1>3, EqualRates DEF Paths!NewEntry, HasPath, Path
<1>5. HasPath(n) => Paths!updated_random_blobs(Path(n), a.blob) = <<a.blob>>
  <2> SUFFICES ASSUME HasPath(n)
               PROVE  Paths!updated_random_blobs(Path(n), a.blob) = <<a.blob>>
    OBVIOUS
  <2>1. Path(n).random_blobs = <<a.blob>>
    BY <1>1
  <2>2. a.blob \in Paths!Recorded(Path(n))
    BY <2>1 DEF Paths!Recorded
  <2>3. MAX_RANDOM_BLOBS \in Nat /\ MAX_RANDOM_BLOBS >= 1
    BY AnnounceMeshAssumption
  <2>4. Paths!updated_random_blobs(Path(n), a.blob) = SubSeq(<<a.blob>>, 1, 1)
    BY <2>1, <2>2, <2>3 DEF Paths!updated_random_blobs
  <2>5. \A x : SubSeq(<<x>>, 1, 1) = <<x>>
    <3> SUFFICES ASSUME NEW x PROVE SubSeq(<<x>>, 1, 1) = <<x>>
      OBVIOUS
    <3> DEFINE y == <<x>>
    <3>1. y \in Seq({x}) /\ Len(y) = 1
      OBVIOUS
    <3> HIDE DEF y
    <3>2. SubSeq(y, 1, Len(y)) = y
      BY <3>1
    <3>3. SubSeq(y, 1, 1) = y
      BY <3>1, <3>2
    <3> QED
      BY <3>3 DEF y
  <2> QED
    BY <2>4, <2>5
<1> QED
  BY <1>1, <1>3, <1>4, <1>5 DEF a

-----------------------------------------------------------------------------
(* The steps. *)

\* A path that a step does not touch still leads home.
LEMMA HomingKept ==
  ASSUME Closer, MeshInv, emissions \subseteq emissions', NEW x \in Nodes, HasPath(x),
         path_table'[x] = path_table[x]
  PROVE  Homing(x)'
<1>1. Homing(x) /\ Path(x)' = Path(x)
  BY DEF MeshInv, Path
<1>2. Earned(x, Path(x).hops)
  BY <1>1 DEF Homing
<1> DEFINE h == Path(x).hops
<1>3. PICK k : k = h
  OBVIOUS
<1>4. Earned(x, k)'
  BY <1>2, <1>3, EarnedKept
<1>5. Path(x)'.hops = k
  BY <1>1, <1>3
<1>6. Earned(x, Path(x).hops)'
  BY <1>4, <1>5 DEF Earned, Within
<1>7. CASE Path(x).received_from = Owner
  BY <1>1, <1>6, <1>7 DEF Homing
<1>8. CASE /\ Path(x).received_from \in Nodes
           /\ HasPath(Path(x).received_from)
           /\ Path(Path(x).received_from).hops < Path(x).hops
  <2>1. PICK y \in Nodes : y = Path(x).received_from
    BY <1>8
  <2>2. HasPath(y) /\ Path(y).hops < Path(x).hops /\ Path(y).hops \in Nat /\ Path(x).hops \in Nat
    BY <1>2, <1>8, <2>1 DEF MeshInv, Homing, Earned
  <2>3. HasPath(y)' /\ Path(y)'.hops \in Nat /\ Path(y)'.hops <= Path(y).hops
    BY <2>2 DEF Closer
  <2>4. Path(y)'.hops < Path(x)'.hops
    BY <2>2, <2>3, <1>1
  <2>5. Path(x)'.received_from = y
    BY <2>1, <1>1
  <2>6. HasPath(Path(x).received_from)' /\ Path(Path(x).received_from)'.hops < Path(x)'.hops
    BY <2>3, <2>4, <2>5 DEF HasPath, Path
  <2> QED
    BY <2>1, <2>5, <2>6, <1>1, <1>6 DEF Homing
<1> QED
  BY <1>1, <1>7, <1>8 DEF Homing

\* A node that installs a copy has earned one hop more than it carried.
LEMMA InstallEarns ==
  ASSUME MeshInv, Closer, NEW p, Copy(p), NEW n, n = p.to,
         HasPath(n) => p.hops + 1 < Path(n).hops,
         HasPath(n)', Path(n)'.hops = p.hops + 1
  PROVE  Earned(n, p.hops + 1)' /\ p.hops \in Nat
<1>1. n \in Nodes \ {Owner}
  BY DEF Copy
<1>2. p.hops \in Nat /\ p.hops <= Cardinality(Within(p.hops))
  <2>1. CASE p.transport = NoTransport /\ p.hops = 0
    <3>1. Within(p.hops) \in SUBSET Nodes
      BY DEF Within
    <3>2. Cardinality(Within(p.hops)) \in Nat
      BY <3>1, FS_Subset, FS_CardinalityType, AnnounceMeshAssumption
    <3> QED
      BY <2>1, <3>2
  <2>2. CASE Earned(p.transport, p.hops)
    BY <2>2 DEF Earned
  <2> QED
    BY <2>1, <2>2 DEF Copy
<1> DEFINE W == Within(p.hops)
           V == Within(p.hops + 1)'
<1>3. n \notin W
  <2>1. HasPath(n) => Path(n).hops \in Nat
    BY <1>1 DEF MeshInv, Homing, Earned
  <2>2. HasPath(n) => ~(Path(n).hops <= p.hops)
    BY <2>1, <1>2
  <2> QED
    BY <2>2 DEF Within
<1>4. \A x \in W : x \in V
  <2>1. \A x \in W : x \in Nodes /\ HasPath(x) /\ Path(x).hops <= p.hops /\ Path(x).hops \in Nat
    BY DEF Within, MeshInv, Homing, Earned
  <2>2. \A x \in W : HasPath(x)' /\ Path(x)'.hops <= p.hops + 1
    BY <2>1, <1>2 DEF Closer
  <2> QED
    BY <2>1, <2>2 DEF Within
<1>5. n \in V
  BY <1>1, <1>2 DEF Within
<1>6. W \cup {n} \subseteq V /\ W \in SUBSET Nodes /\ V \in SUBSET Nodes
  BY <1>4, <1>5 DEF Within
<1> HIDE DEF W, V
<1>7. IsFiniteSet(W) /\ IsFiniteSet(V)
  BY <1>6, FS_Subset, AnnounceMeshAssumption
<1>8. Cardinality(W \cup {n}) = Cardinality(W) + 1 /\ IsFiniteSet(W \cup {n})
  BY <1>3, <1>7, FS_AddElement
<1>9. Cardinality(W \cup {n}) <= Cardinality(V)
  BY <1>6, <1>7, FS_Subset
<1>10. Cardinality(W) \in Nat /\ Cardinality(V) \in Nat /\ p.hops <= Cardinality(W)
  BY <1>2, <1>7, FS_CardinalityType DEF W
<1>11. p.hops + 1 <= Cardinality(V)
  BY <1>2, <1>8, <1>9, <1>10
<1> QED
  BY <1>1, <1>2, <1>11 DEF Earned, V

\* handle_announce: the copy is installed if it is closer, and what the node
\* then sends or stores carries a hop count that it has earned.
LEMMA AnnounceMeshInv ==
  ASSUME Tables, Quiet, MeshInv, NEW p, handle_announce(p)
  PROVE  MeshInv'
<1> DEFINE n == p.to
           a == Received(p)
           accepts == Paths!would_update_path(path_table[n], a)
<1>1. Copy(p) /\ p \in net
  BY DEF handle_announce, MeshInv
<1>2. n \in Nodes \ {Owner} /\ p.from \in Nodes /\ p.blob \in emissions
  BY <1>1 DEF Copy
<1>3. p.hops \in Nat /\ a.hops = p.hops + 1
  BY <1>1 DEF Copy, Earned, Received
<1>4. emissions' = emissions
  BY DEF handle_announce
<1>5. HasPath(n) => /\ Path(n).random_blobs = <<p.blob>>
                    /\ Path(n).gravity = 0 /\ Path(n).bitrate = -1
                    /\ Path(n).hops \in Nat
  <2> SUFFICES ASSUME HasPath(n)
               PROVE  /\ Path(n).random_blobs = <<p.blob>>
                      /\ Path(n).gravity = 0 /\ Path(n).bitrate = -1
                      /\ Path(n).hops \in Nat
    OBVIOUS
  <2>1. Homing(n)
    BY <1>2 DEF MeshInv
  <2>2. Path(n).blob = p.blob
    BY <2>1, <1>2, OneBlob DEF Homing
  <2> QED
    BY <2>1, <2>2 DEF Homing, Earned
<1>6. accepts <=> (HasPath(n) => p.hops + 1 < Path(n).hops)
  BY <1>3, <1>5, AcceptsCloser
<1>7. /\ path_table'[n] = Paths!Install(path_table[n], a)
      /\ \A x \in Nodes \ {n} : path_table'[x] = path_table[x]
  BY <1>2 DEF handle_announce, Tables
<1>8. accepts => /\ HasPath(n)'
                 /\ Path(n)'.hops = p.hops + 1
                 /\ Path(n)'.blob = p.blob
                 /\ Path(n)'.random_blobs = <<p.blob>>
                 /\ Path(n)'.gravity = 0 /\ Path(n)'.bitrate = -1
                 /\ Path(n)'.received_from =
                      IF p.transport = NoTransport THEN Owner ELSE p.transport
  <2> SUFFICES ASSUME accepts
               PROVE  LET m == path_table'[n] IN
                      /\ Owner \in DOMAIN m
                      /\ m[Owner].hops = p.hops + 1
                      /\ m[Owner].blob = p.blob
                      /\ m[Owner].random_blobs = <<p.blob>>
                      /\ m[Owner].gravity = 0 /\ m[Owner].bitrate = -1
                      /\ m[Owner].received_from =
                           IF p.transport = NoTransport THEN Owner ELSE p.transport
    BY DEF HasPath, Path
  <2>1. HasPath(n) => Path(n).random_blobs = <<p.blob>>
    BY <1>5
  <2>2. Paths!would_update_path(path_table[n], Received(p))
    OBVIOUS
  <2>3. LET m == Paths!Install(path_table[n], Received(p)) IN
        /\ Owner \in DOMAIN m
        /\ m[Owner].hops = p.hops + 1
        /\ m[Owner].blob = p.blob
        /\ m[Owner].random_blobs = <<p.blob>>
        /\ m[Owner].gravity = 0 /\ m[Owner].bitrate = -1
        /\ m[Owner].received_from =
             IF p.transport = NoTransport THEN Owner ELSE p.transport
    BY <2>1, <2>2, Installed
  <2>4. path_table'[n] = Paths!Install(path_table[n], Received(p))
    BY <1>7
  <2> QED
    BY <2>3, <2>4
<1>9. ~accepts => path_table'[n] = path_table[n]
  BY <1>7 DEF Paths!Install
<1> HIDE DEF accepts, a, n
<1>10. Closer
  <2> SUFFICES ASSUME NEW x \in Nodes, HasPath(x)
               PROVE  HasPath(x)' /\ Path(x)'.hops \in Nat /\ Path(x)'.hops <= Path(x).hops
    BY DEF Closer
  <2>1. Path(x).hops \in Nat
    BY DEF MeshInv, Homing, Earned
  <2>2. CASE path_table'[x] = path_table[x]
    BY <2>1, <2>2 DEF HasPath, Path
  <2>3. CASE x = n /\ accepts
    BY <2>1, <2>3, <1>3, <1>6, <1>8
  <2> QED
    BY <2>2, <2>3, <1>7, <1>9
<1>11. accepts => Earned(n, p.hops + 1)'
  <2>1. n = p.to
    BY DEF n
  <2> QED
    BY <2>1, <1>1, <1>6, <1>8, <1>10, InstallEarns
<1>12. ASSUME NEW x \in Nodes, HasPath(x)'
       PROVE  Homing(x)'
  <2>1. CASE path_table'[x] = path_table[x]
    <3>1. HasPath(x)
      BY <2>1, <1>12 DEF HasPath
    <3> QED
      BY <2>1, <3>1, <1>4, <1>10, HomingKept
  <2>2. CASE x = n /\ accepts
    <3>1. Earned(n, Path(n).hops)'
      BY <2>2, <1>8, <1>11 DEF Earned, Within
    <3>2. CASE p.transport = NoTransport
      BY <3>1, <3>2, <2>2, <1>2, <1>3, <1>4, <1>8 DEF Homing
    <3>3. CASE p.transport # NoTransport
      <4>1. PICK y : y = p.transport
        OBVIOUS
      <4>2. Earned(y, p.hops)
        BY <3>3, <4>1, <1>1 DEF Copy
      <4>3. Earned(y, p.hops)'
        BY <4>2, <1>10, EarnedKept
      <4>4. y \in Nodes /\ HasPath(y)' /\ Path(y)'.hops <= p.hops
        BY <4>3 DEF Earned
      <4>5. Path(y)'.hops \in Nat
        BY <4>2, <1>10 DEF Closer, Earned
      <4>6. Path(y)'.hops < Path(n)'.hops
        BY <4>4, <4>5, <2>2, <1>3, <1>8
      <4>7. Path(n)'.received_from = y
        BY <3>3, <4>1, <2>2, <1>8
      <4>8. HasPath(Path(n).received_from)' /\ Path(Path(n).received_from)'.hops < Path(n)'.hops
        BY <4>4, <4>6, <4>7 DEF HasPath, Path
      <4> QED
        BY <3>1, <4>4, <4>7, <4>8, <2>2, <1>2, <1>3, <1>4, <1>8 DEF Homing
    <3> QED
      BY <3>2, <3>3
  <2> QED
    BY <2>1, <2>2, <1>7, <1>9
<1>13. ASSUME NEW q \in net'
       PROVE  /\ q.type = "announce" => Copy(q)'
              /\ q.type = "request" => q.from \in Nodes /\ q.to \in Nodes
  <2>1. q \in net \/ q \in AnnounceTo(n, discovery[n], p.blob, a.hops, n, TRUE, 0)
    BY DEF handle_announce, Send, n, a
  <2>2. CASE q \in net
    BY <2>2, <1>4, <1>10, CopyKept DEF MeshInv
  <2>3. CASE q \in AnnounceTo(n, discovery[n], p.blob, a.hops, n, TRUE, 0)
    <3>1. discovery[n] # {} /\ discovery[n] \subseteq Nodes
      BY <2>3, <1>2 DEF AnnounceTo, MeshInv
    <3>2. ~HasPath(n)
      BY <3>1, <1>2 DEF MeshInv
    <3>3. Earned(n, p.hops + 1)'
      BY <3>2, <1>6, <1>11
    <3>4. q \in AnnounceTo(n, discovery[n], p.blob, p.hops + 1, n, TRUE, 0)
      BY <2>3, <1>3
    <3>5. q.type = "announce" /\ Copy(q)'
      BY <3>1, <3>3, <3>4, <1>2, <1>4, AnnounceIsCopy
    <3> QED
      BY <3>5
  <2> QED
    BY <2>1, <2>2, <2>3
<1>14. ASSUME NEW x \in Nodes, NEW e \in Slots(x)'
       PROVE  Stored(x, e)'
  <2> DEFINE t == announce_table[n]
  <2>1. /\ {"map", "responses", "cache"} \subseteq DOMAIN t
        /\ \A o \in t.map \cup t.responses \cup t.cache : Stored(n, o)
    BY <1>2 DEF Tables, MeshInv, Slots
  <2>2. \A y \in Nodes : \A o \in Slots(y) : Stored(y, o)'
    BY <1>4, <1>10, StoredKept DEF MeshInv
  <2>3. CASE announce_table'[x] = announce_table[x]
    BY <2>2, <2>3 DEF Slots
  <2>4. CASE x = n /\ announce_table'[n] = EchoReceived(t, p.hops + 1)
    <3>1. \A o \in EchoReceived(t, p.hops + 1).map : Stored(n, o)
      BY <2>1, EchoStored
    <3>2. /\ EchoReceived(t, p.hops + 1).responses = t.responses
          /\ EchoReceived(t, p.hops + 1).cache = t.cache
      BY <2>1, EchoStored
    <3>3. \A o \in EchoReceived(t, p.hops + 1).map : Stored(n, o)'
      BY <3>1, <1>4, <1>10, StoredKept
    <3> QED
      BY <3>2, <3>3, <2>2, <2>4, <1>2 DEF Slots
  <2>5. CASE x = n /\ announce_table'[n] = Add(t, p.blob, p.hops + 1, p.from) /\ accepts
    <3>1. PICK o : o = t
      OBVIOUS
    <3>2. /\ \A f \in Add(o, p.blob, p.hops + 1, p.from).map : Stored(n, f)'
          /\ Add(o, p.blob, p.hops + 1, p.from).responses = o.responses
          /\ Add(o, p.blob, p.hops + 1, p.from).cache = o.cache
      BY <3>1, <2>1, <2>5, <1>2, <1>4, <1>11, AddStored
    <3> QED
      BY <3>1, <3>2, <2>2, <2>5, <1>2 DEF Slots
  <2>6. \/ announce_table'[x] = announce_table[x]
        \/ x = n /\ announce_table'[n] = EchoReceived(t, p.hops + 1)
        \/ x = n /\ announce_table'[n] = Add(t, p.blob, p.hops + 1, p.from) /\ accepts
    <3>1. announce_table' = [announce_table EXCEPT ![n] =
             IF IsEcho(n, p) THEN EchoReceived(@, a.hops)
             ELSE IF Relays(n, p) THEN Add(@, p.blob, a.hops, p.from) ELSE @]
      BY DEF handle_announce, n, a
    <3>2. /\ x # n => announce_table'[x] = announce_table[x]
          /\ announce_table'[n] = IF IsEcho(n, p) THEN EchoReceived(t, a.hops)
               ELSE IF Relays(n, p) THEN Add(t, p.blob, a.hops, p.from) ELSE t
      BY <3>1, <1>2 DEF Tables
    <3>3. Relays(n, p) => accepts
      BY DEF Relays, accepts, a
    <3> QED
      BY <3>2, <3>3, <1>3
  <2> QED
    BY <2>3, <2>4, <2>5, <2>6
<1>15. /\ discovery'[n] = {}
       /\ \A x \in Nodes \ {n} : discovery'[x] = discovery[x]
  BY <1>2 DEF handle_announce, Tables, n
<1>16. \A x \in Nodes : discovery'[x] \subseteq Nodes
  BY <1>15 DEF MeshInv
<1>17. ASSUME NEW x \in Nodes, discovery'[x] # {}
       PROVE  x # Owner /\ ~HasPath(x)'
  <2>1. x # n /\ discovery[x] # {}
    BY <1>15, <1>17
  <2> QED
    BY <2>1, <1>7 DEF MeshInv, HasPath
<1> QED
  BY <1>12, <1>13, <1>14, <1>16, <1>17 DEF MeshInv

\* The steps that leave the path tables alone: it remains to look at what they
\* send, store and wait for.
SendsWell ==
  \A q \in net' \ net :
    /\ q.type = "announce" => Copy(q)'
    /\ q.type = "request" => q.from \in Nodes /\ q.to \in Nodes

StoresWell == \A n \in Nodes : \A e \in Slots(n)' : e \in Slots(n) \/ Stored(n, e)'

WaitsWell ==
  \A n \in Nodes : \/ discovery'[n] = discovery[n]
                   \/ /\ discovery'[n] \subseteq Nodes
                      /\ discovery'[n] # {} => n # Owner /\ ~HasPath(n)

LEMMA OtherMeshInv ==
  ASSUME MeshInv, UNCHANGED path_table, emissions \subseteq emissions',
         SendsWell, StoresWell, WaitsWell
  PROVE  MeshInv'
<1>1. Closer
  BY SamePaths
<1>2. \A n \in Nodes : HasPath(n)' => Homing(n)'
  BY SameHoming
<1>3. \A q \in net' : q.type = "announce" => Copy(q)'
  BY <1>1, CopyKept DEF MeshInv, SendsWell
<1>4. \A q \in net' : q.type = "request" => q.from \in Nodes /\ q.to \in Nodes
  BY DEF MeshInv, SendsWell
<1>5. \A n \in Nodes : \A e \in Slots(n)' : Stored(n, e)'
  BY <1>1, StoredKept DEF MeshInv, StoresWell
<1>6. \A n \in Nodes : /\ discovery'[n] \subseteq Nodes
                       /\ discovery'[n] # {} => n # Owner /\ ~HasPath(n)'
  BY DEF MeshInv, WaitsWell, HasPath
<1> QED
  BY <1>2, <1>3, <1>4, <1>5, <1>6 DEF MeshInv

LEMMA EmitMeshInv ==
  ASSUME MeshInv, NEW blob, send_announce(blob)
  PROVE  MeshInv'
<1>1. emissions \subseteq emissions' /\ blob \in emissions'
  BY DEF send_announce, Emit
<1>2. SendsWell
  <2> DEFINE I == AnnounceIfaces(Owner, TRUE, "Full")
  <2> SUFFICES ASSUME NEW q \in net' \ net
               PROVE  q.type = "announce" /\ Copy(q)'
    BY DEF SendsWell
  <2>1. q \in AnnounceTo(Owner, I, blob, 0, NoTransport, FALSE, 0)
    BY DEF send_announce
  <2>2. I \subseteq Nodes
    BY IfacesAreNodes
  <2> HIDE DEF I
  <2> QED
    BY <2>1, <2>2, <1>1, OwnIsCopy
<1> QED
  BY <1>1, <1>2, OtherMeshInv DEF send_announce, StoresWell, WaitsWell, Slots

LEMMA OwnerRequestMeshInv ==
  ASSUME MeshInv, NEW p, NEW blob, owner_request(p, blob)
  PROVE  MeshInv'
<1>1. emissions \subseteq emissions' /\ blob \in emissions' /\ p.from \in Nodes
  BY DEF owner_request, Emit, MeshInv
<1>2. SendsWell
  <2> SUFFICES ASSUME NEW q \in net' \ net
               PROVE  q.type = "announce" /\ Copy(q)'
    BY DEF SendsWell
  <2>1. q \in AnnounceTo(Owner, {p.from}, blob, 0, NoTransport, TRUE, 0)
    BY DEF owner_request, Send
  <2>2. {p.from} \subseteq Nodes
    BY <1>1
  <2> QED
    BY <2>1, <2>2, <1>1, OwnIsCopy
<1> QED
  BY <1>1, <1>2, OtherMeshInv DEF owner_request, StoresWell, WaitsWell, Slots

\* to_retransmit on the table of n, perhaps with its cache pruned.
LEMMA RetransmitMeshInv ==
  ASSUME Tables, MeshInv, NEW n \in Nodes, retransmit_announces(n)
  PROVE  MeshInv'
<1>1. PICK table \in {announce_table[n], Pruned(announce_table[n])} :
        /\ announce_table' = [announce_table EXCEPT ![n] = ToRetransmit(table)]
        /\ net' = net \cup UNION {Retransmission(n, e) : e \in Outgoing(table)}
        /\ UNCHANGED <<path_table, tags, discovery, emissions>>
  BY DEF retransmit_announces
<1>2. \A e \in table.map \cup table.responses \cup table.cache : Stored(n, e)
  <2>1. table.map \cup table.responses \cup table.cache \subseteq Slots(n)
    BY DEF Pruned, Slots, Tables
  <2> QED
    BY <2>1 DEF MeshInv
<1>3. /\ \A e \in Outgoing(table) : Stored(n, e)
      /\ \A e \in ToRetransmit(table).map \cup ToRetransmit(table).responses
                    \cup ToRetransmit(table).cache : Stored(n, e)
  BY <1>2, RetransmitStored
<1>4. Closer
  BY <1>1, SamePaths
<1>5. SendsWell
  <2> SUFFICES ASSUME NEW q \in net' \ net
               PROVE  q.type = "announce" /\ Copy(q)'
    BY DEF SendsWell
  <2>1. PICK e \in Outgoing(table) : q \in Retransmission(n, e)
    BY <1>1
  <2>2. Stored(n, e)'
    BY <2>1, <1>1, <1>3, <1>4, StoredKept
  <2> QED
    BY <2>1, <2>2, RetransmissionIsCopy
<1>6. StoresWell
  <2> SUFFICES ASSUME NEW x \in Nodes, NEW e \in Slots(x)'
               PROVE  e \in Slots(x) \/ Stored(x, e)'
    BY DEF StoresWell
  <2>1. CASE x # n
    BY <2>1, <1>1 DEF Slots, Tables
  <2>2. CASE x = n
    <3>1. announce_table'[n] = ToRetransmit(table)
      BY <1>1 DEF Tables
    <3>2. e \in ToRetransmit(table).map \cup ToRetransmit(table).responses
                  \cup ToRetransmit(table).cache
      BY <2>2, <3>1 DEF Slots
    <3> QED
      BY <2>2, <3>2, <1>1, <1>3, <1>4, StoredKept
  <2> QED
    BY <2>1, <2>2
<1> QED
  BY <1>1, <1>5, <1>6, OtherMeshInv DEF WaitsWell

LEMMA OldMeshInv ==
  ASSUME Tables, MeshInv, NEW n \in Nodes, retransmit_old(n)
  PROVE  MeshInv'
<1> DEFINE t == announce_table[n]
           table == ToRetransmit(t)
           old == IF table.responses = {} THEN table.cache ELSE {}
<1>1. /\ announce_table' = [announce_table EXCEPT ![n] = table]
      /\ net' = net \cup UNION {Retransmission(n, e) : e \in Outgoing(t) \cup old}
      /\ UNCHANGED <<path_table, tags, discovery, emissions>>
  BY DEF retransmit_old
<1>2. \A e \in t.map \cup t.responses \cup t.cache : Stored(n, e)
  BY DEF MeshInv, Slots
<1>3. /\ \A e \in Outgoing(t) : Stored(n, e)
      /\ \A e \in table.map \cup table.responses \cup table.cache : Stored(n, e)
  BY <1>2, RetransmitStored
<1>4. Closer
  BY <1>1, SamePaths
<1> HIDE DEF t, table
<1>5. SendsWell
  <2> SUFFICES ASSUME NEW q \in net' \ net
               PROVE  q.type = "announce" /\ Copy(q)'
    BY DEF SendsWell
  <2>1. PICK e \in Outgoing(t) \cup old : q \in Retransmission(n, e)
    BY <1>1
  <2>2. Stored(n, e)
    BY <2>1, <1>3
  <2>3. Stored(n, e)'
    BY <2>2, <1>1, <1>4, StoredKept
  <2> QED
    BY <2>1, <2>3, RetransmissionIsCopy
<1>6. StoresWell
  <2> SUFFICES ASSUME NEW x \in Nodes, NEW e \in Slots(x)'
               PROVE  e \in Slots(x) \/ Stored(x, e)'
    BY DEF StoresWell
  <2>1. CASE x # n
    BY <2>1, <1>1 DEF Slots, Tables
  <2>2. CASE x = n
    <3>1. announce_table'[n] = table
      BY <1>1 DEF Tables
    <3>2. e \in table.map \cup table.responses \cup table.cache
      BY <2>2, <3>1 DEF Slots
    <3> QED
      BY <2>2, <3>2, <1>1, <1>3, <1>4, StoredKept
  <2> QED
    BY <2>1, <2>2
<1> QED
  BY <1>1, <1>5, <1>6, OtherMeshInv DEF WaitsWell

LEMMA TimeoutMeshInv ==
  ASSUME Tables, MeshInv, NEW n \in Nodes, timeout(n)
  PROVE  MeshInv'
<1> DEFINE t == announce_table[n]
           u == [t EXCEPT !.map = {[e EXCEPT !.due = TRUE] : e \in @}]
<1>1. announce_table' = [announce_table EXCEPT ![n] = u]
      /\ UNCHANGED <<path_table, tags, discovery, emissions, net, budget>>
  BY DEF timeout, t, u, Tables
<1>2. /\ u.map = {[e EXCEPT !.due = TRUE] : e \in t.map}
      /\ u.responses = t.responses
      /\ u.cache = t.cache
  BY DEF Tables
<1>3. Closer
  BY <1>1, SamePaths
<1> HIDE DEF u
<1>4. StoresWell
  <2> SUFFICES ASSUME NEW x \in Nodes, NEW e \in Slots(x)'
               PROVE  e \in Slots(x) \/ Stored(x, e)'
    BY DEF StoresWell
  <2>1. CASE x # n
    BY <2>1, <1>1 DEF Slots, Tables
  <2>2. CASE x = n
    <3>1. announce_table'[n] = u
      BY <1>1 DEF Tables
    <3>2. e \in u.map \/ e \in Slots(n)
      BY <2>2, <3>1, <1>2 DEF Slots
    <3>3. ASSUME e \in u.map
          PROVE  Stored(n, e)'
      <4>1. PICK o \in t.map : e = [o EXCEPT !.due = TRUE]
        BY <3>3, <1>2
      <4>2. Stored(n, o)
        BY <4>1 DEF MeshInv, Slots
      <4>3. Stored(n, e)
        BY <4>1, <4>2, Touched
      <4> QED
        BY <4>3, <1>1, <1>3, StoredKept
    <3> QED
      BY <2>2, <3>2, <3>3
  <2> QED
    BY <2>1, <2>2
<1> QED
  BY <1>1, <1>4, OtherMeshInv DEF SendsWell, WaitsWell

LEMMA DropMeshInv ==
  ASSUME Tables, MeshInv, NEW n \in Nodes, drop_announce_queues(n)
  PROVE  MeshInv'
<1>1. /\ announce_table' = [announce_table EXCEPT ![n] = EmptyTable]
      /\ UNCHANGED <<path_table, tags, discovery, emissions, net>>
  BY DEF drop_announce_queues
<1>2. \A x \in Nodes : Slots(x)' \subseteq Slots(x)
  BY <1>1 DEF Slots, EmptyTable, Tables
<1> QED
  BY <1>1, <1>2, OtherMeshInv DEF SendsWell, StoresWell, WaitsWell

LEMMA AskMeshInv ==
  ASSUME MeshInv, NEW n \in Nodes, request_path(n)
  PROVE  MeshInv'
<1>1. SendsWell
  <2> SUFFICES ASSUME NEW q \in net' \ net
               PROVE  q.type = "request" /\ q.from \in Nodes /\ q.to \in Nodes
    BY DEF SendsWell
  <2>1. PICK tag : tag = <<n, budget["request"]>>
    OBVIOUS
  <2>2. q \in RequestTo(n, Neighbours(n), tag)
    BY <2>1 DEF request_path
  <2> QED
    BY <2>2, IfacesAreNodes, RequestIsRequest
<1> QED
  BY <1>1, OtherMeshInv DEF request_path, StoresWell, WaitsWell, Slots

LEMMA IgnoreMeshInv ==
  ASSUME MeshInv, NEW p, ignore_request(p)
  PROVE  MeshInv'
  BY OtherMeshInv DEF ignore_request, Send, SendsWell, StoresWell, WaitsWell, Slots

LEMMA LoseMeshInv ==
  ASSUME MeshInv, NEW p, lose(p)
  PROVE  MeshInv'
  BY OtherMeshInv DEF lose, Send, SendsWell, StoresWell, WaitsWell, Slots

LEMMA ExpireMeshInv ==
  ASSUME Tables, MeshInv, NEW n \in Nodes, discovery_expires(n)
  PROVE  MeshInv'
<1>1. \A x \in Nodes : discovery'[x] = discovery[x] \/ discovery'[x] = {}
  BY DEF discovery_expires, Tables
<1> QED
  BY <1>1, OtherMeshInv DEF discovery_expires, SendsWell, StoresWell, WaitsWell, Slots

LEMMA SearchMeshInv ==
  ASSUME Tables, MeshInv, NEW p, search_request(p)
  PROVE  MeshInv'
<1>1. p.to \in Nodes \ {Owner} /\ p.from \in Nodes /\ ~HasPath(p.to)
  BY DEF search_request, MeshInv
<1>2. SendsWell
  <2> SUFFICES ASSUME NEW q \in net' \ net
               PROVE  q.type = "request" /\ q.from \in Nodes /\ q.to \in Nodes
    BY DEF SendsWell
  <2>1. q \in RequestTo(p.to, SearchIfaces(p.to, p.from), p.tag)
    BY DEF search_request, Send
  <2> QED
    BY <2>1, <1>1, IfacesAreNodes, RequestIsRequest
<1>3. WaitsWell
  <2>1. discovery' = discovery \/ discovery' = [discovery EXCEPT ![p.to] = {p.from}]
    BY DEF search_request
  <2> QED
    BY <2>1, <1>1 DEF WaitsWell, Tables
<1> QED
  BY <1>2, <1>3, OtherMeshInv DEF search_request, StoresWell, Slots

\* An answer carries the hop count of the path, which the node has earned.
LEMMA AnswerMeshInv ==
  ASSUME Tables, MeshInv, NEW p, answer_request(p)
  PROVE  MeshInv'
<1> DEFINE n == p.to
           t == announce_table[n]
<1>1. n \in Nodes /\ p.from \in Nodes /\ HasPath(n) /\ Homing(n)
  BY DEF answer_request, MeshInv
<1>2. UNCHANGED <<path_table, discovery, emissions, budget>>
  BY DEF answer_request
<1>3. Closer
  BY <1>2, SamePaths
<1>4. PICK h : h = Path(n).hops
  OBVIOUS
<1>5. PICK blob : blob = Path(n).blob
  OBVIOUS
<1>6. Earned(n, h) /\ blob \in emissions
  BY <1>1, <1>4, <1>5 DEF Homing
<1>7. Earned(n, h)' /\ blob \in emissions'
  BY <1>2, <1>3, <1>6, EarnedKept
<1> HIDE DEF n
<1>8. SendsWell
  <2> SUFFICES ASSUME NEW q \in net' \ net
               PROVE  q.type = "announce" /\ Copy(q)'
    BY DEF SendsWell
  <2>1. q \in AnnounceTo(n, {p.from}, blob, h, n, TRUE, 0)
    BY <1>4, <1>5 DEF answer_request, Send, n
  <2>2. {p.from} \subseteq Nodes
    BY <1>1
  <2> QED
    BY <2>1, <2>2, <1>7, AnnounceIsCopy
<1>9. StoresWell
  <2> SUFFICES ASSUME NEW x \in Nodes, NEW e \in Slots(x)'
               PROVE  e \in Slots(x) \/ Stored(x, e)'
    BY DEF StoresWell
  <2>1. \/ UNCHANGED announce_table
        \/ announce_table' = [announce_table EXCEPT ![n] = AddResponse(@, p.from, h)]
    BY <1>4 DEF answer_request, n
  <2>2. \/ announce_table'[x] = announce_table[x]
        \/ x = n /\ announce_table'[n] = AddResponse(t, p.from, h)
    BY <2>1, <1>1 DEF Tables
  <2>3. CASE announce_table'[x] = announce_table[x]
    BY <2>3 DEF Slots
  <2>4. CASE x = n /\ announce_table'[n] = AddResponse(t, p.from, h)
    <3>1. /\ {"map", "responses", "cache"} \subseteq DOMAIN t
          /\ \A o \in t.map \cup t.cache : Stored(n, o)
      BY <1>1 DEF Tables, MeshInv, Slots
    <3> HIDE DEF t
    <3>2. /\ \A o \in AddResponse(t, p.from, h).responses : Stored(n, o)
          /\ AddResponse(t, p.from, h).map = t.map
          /\ AddResponse(t, p.from, h).cache = t.cache
      BY <3>1, <1>1, <1>6, ResponseStored
    <3>3. \A o \in AddResponse(t, p.from, h).responses : Stored(n, o)'
      BY <3>2, <1>2, <1>3, StoredKept
    <3> QED
      BY <3>2, <3>3, <2>4 DEF Slots, t
  <2> QED
    BY <2>2, <2>3, <2>4
<1> QED
  BY <1>2, <1>8, <1>9, OtherMeshInv DEF WaitsWell

-----------------------------------------------------------------------------
(* What every step keeps, quiet or not. *)

\* Emissions are remembered, and nothing is given back to the budget.
Kept ==
  /\ emissions \subseteq emissions'
  /\ IsFiniteSet(emissions')
  /\ budget' \in [Kinds -> Nat]
  /\ budget'["forget"] <= budget["forget"]

LEMMA SpendKept ==
  ASSUME Tables, NEW kind \in Kinds, Spend(kind)
  PROVE  /\ budget' \in [Kinds -> Nat]
         /\ budget'["forget"] <= budget["forget"]
<1>1. budget \in [Kinds -> Nat] /\ budget[kind] \in Nat /\ budget[kind] > 0
  BY DEF Tables, Spend
<1>2. budget[kind] - 1 \in Nat
  BY <1>1
<1>3. budget' = [budget EXCEPT ![kind] = budget[kind] - 1]
  BY DEF Spend
<1>4. "forget" \in Kinds /\ budget["forget"] \in Nat
  BY <1>1 DEF Kinds
<1> QED
  BY <1>1, <1>2, <1>3, <1>4

LEMMA SameKept ==
  ASSUME Tables, UNCHANGED budget
  PROVE  /\ budget' \in [Kinds -> Nat]
         /\ budget'["forget"] <= budget["forget"]
  BY DEF Tables, Kinds

LEMMA EmitKept ==
  ASSUME Tables, NEW blob, Emit(blob)
  PROVE  emissions \subseteq emissions' /\ IsFiniteSet(emissions')
  BY FS_AddElement DEF Tables, Emit

LEMMA StepKept ==
  ASSUME Tables, [Next]_vars
  PROVE  Kept
<1>1. CASE UNCHANGED vars
  BY <1>1, SameKept DEF Kept, Tables, vars
<1>2. ASSUME NEW blob, send_announce(blob)
      PROVE  Kept
  <2>1. "announce" \in Kinds
    BY DEF Kinds
  <2> QED
    BY <1>2, <2>1, SpendKept, EmitKept DEF Kept, send_announce
<1>3. ASSUME NEW p, NEW blob, owner_request(p, blob)
      PROVE  Kept
  BY <1>3, SameKept, EmitKept DEF Kept, owner_request
<1>4. ASSUME NEW p, handle_announce(p) \/ ignore_request(p) \/ answer_request(p)
                    \/ search_request(p)
      PROVE  Kept
  <2>1. UNCHANGED <<emissions, budget>>
    BY <1>4 DEF handle_announce, ignore_request, answer_request, search_request
  <2> QED
    BY <2>1, SameKept DEF Kept, Tables
<1>5. ASSUME NEW n, retransmit_announces(n) \/ timeout(n)
      PROVE  Kept
  <2>1. UNCHANGED emissions /\ (UNCHANGED budget \/ Spend("prune"))
    BY <1>5 DEF retransmit_announces, timeout
  <2>2. "prune" \in Kinds
    BY DEF Kinds
  <2> QED
    BY <2>1, <2>2, SpendKept, SameKept DEF Kept, Tables
<1>6. ASSUME NEW kind \in Kinds, Spend(kind), UNCHANGED emissions
      PROVE  Kept
  BY <1>6, SpendKept DEF Kept, Tables
<1>7. ASSUME NEW n, retransmit_old(n) \/ drop_announce_queues(n) \/ request_path(n)
                    \/ forget(n) \/ discovery_expires(n) \/ lose(n)
      PROVE  Kept
  <2>1. \E kind \in Kinds : Spend(kind) /\ UNCHANGED emissions
    BY <1>7 DEF Kinds, retransmit_old, drop_announce_queues, request_path, forget,
                discovery_expires, lose
  <2> QED
    BY <2>1, <1>6
<1> QED
  BY <1>1, <1>2, <1>3, <1>4, <1>5, <1>7 DEF Next, Receive

\* The operations of the announce table keep its three slots.
LEMMA SlotsKept ==
  ASSUME NEW table, {"map", "responses", "cache"} \subseteq DOMAIN table
  PROVE  /\ \A blob, h, from :
              {"map", "responses", "cache"} \subseteq DOMAIN Add(table, blob, h, from)
         /\ \A h : {"map", "responses", "cache"} \subseteq DOMAIN EchoReceived(table, h)
         /\ \A to, h : {"map", "responses", "cache"} \subseteq DOMAIN AddResponse(table, to, h)
         /\ \A s : {"map", "responses", "cache"} \subseteq DOMAIN [table EXCEPT !.map = s]
  BY DEF Add, EchoReceived, AddResponse

\* A step replaces the announce table of one node at most.
LEMMA AnnounceTablesKept ==
  ASSUME announce_table = [m \in Nodes |-> announce_table[m]],
         \A m \in Nodes : {"map", "responses", "cache"} \subseteq DOMAIN announce_table[m],
         NEW n, NEW table,
         n \in Nodes => {"map", "responses", "cache"} \subseteq DOMAIN table,
         announce_table' = [announce_table EXCEPT ![n] = table]
  PROVE  /\ announce_table' = [m \in Nodes |-> announce_table'[m]]
         /\ \A m \in Nodes : {"map", "responses", "cache"} \subseteq DOMAIN announce_table'[m]
<1>1. announce_table' = [m \in Nodes |-> IF m = n THEN table ELSE announce_table[m]]
  OBVIOUS
<1> QED
  BY <1>1

LEMMA TablesKept ==
  ASSUME Tables, [Next]_vars
  PROVE  Tables'
<1> DEFINE Shape == {"map", "responses", "cache"}
           At == /\ announce_table' = [m \in Nodes |-> announce_table'[m]]
                 /\ \A m \in Nodes : Shape \subseteq DOMAIN announce_table'[m]
           Pt == path_table' = [m \in Nodes |-> path_table'[m]]
           Ds == discovery' = [m \in Nodes |-> discovery'[m]]
<1>1. Kept
  BY StepKept
<1>2. /\ announce_table = [m \in Nodes |-> announce_table[m]]
      /\ \A m \in Nodes : Shape \subseteq DOMAIN announce_table[m]
      /\ path_table = [m \in Nodes |-> path_table[m]]
      /\ discovery = [m \in Nodes |-> discovery[m]]
  BY DEF Tables
<1>3. budget'["forget"] <= Budget["forget"]
  <2>1. /\ Budget["forget"] \in Nat /\ budget["forget"] \in Nat /\ budget'["forget"] \in Nat
        /\ budget["forget"] <= Budget["forget"] /\ budget'["forget"] <= budget["forget"]
    BY <1>1, AnnounceMeshAssumption DEF Kept, Tables, Kinds
  <2> QED
    BY <2>1
<1>4. UNCHANGED announce_table => At
  BY <1>2
<1>5. UNCHANGED path_table => Pt
  BY <1>2
<1>6. UNCHANGED discovery => Ds
  BY <1>2
<1>7. ASSUME NEW n, NEW table, n \in Nodes => Shape \subseteq DOMAIN table,
             announce_table' = [announce_table EXCEPT ![n] = table]
      PROVE  At
  BY <1>2, <1>7, AnnounceTablesKept
<1>8. \A n, s : discovery' = [discovery EXCEPT ![n] = s] => Ds
  BY <1>2
<1>9. \A n, s : path_table' = [path_table EXCEPT ![n] = s] => Pt
  BY <1>2
<1>10. \A n : n \in Nodes => Shape \subseteq DOMAIN announce_table[n]
  BY <1>2
<1> HIDE DEF At, Pt, Ds, Shape
<1>11. ASSUME NEW p, handle_announce(p)
       PROVE  At /\ Pt /\ Ds
  <2> DEFINE t == announce_table[p.to]
             h == p.hops + 1
             u == IF IsEcho(p.to, p) THEN EchoReceived(t, h)
                  ELSE IF Relays(p.to, p) THEN Add(t, p.blob, h, p.from) ELSE t
  <2>1. announce_table' = [announce_table EXCEPT ![p.to] = u]
    BY <1>11 DEF handle_announce, Received
  <2>2. ASSUME p.to \in Nodes
        PROVE  Shape \subseteq DOMAIN u
    <3>1. Shape \subseteq DOMAIN t
      BY <2>2, <1>10
    <3> QED
      BY <3>1, SlotsKept DEF Shape
  <2>3. At
    BY <2>1, <2>2, <1>7
  <2>4. discovery' = [discovery EXCEPT ![p.to] = {}]
    BY <1>11 DEF handle_announce
  <2>5. path_table' = [path_table EXCEPT ![p.to] = Paths!Install(@, Received(p))]
    BY <1>11 DEF handle_announce
  <2> QED
    BY <2>3, <2>4, <2>5, <1>8, <1>9
<1>12. ASSUME NEW p, answer_request(p)
       PROVE  At /\ Pt /\ Ds
  <2>1. \/ UNCHANGED announce_table
        \/ announce_table' = [announce_table EXCEPT ![p.to] =
             AddResponse(announce_table[p.to], p.from, Path(p.to).hops)]
    BY <1>12 DEF answer_request
  <2>2. ASSUME p.to \in Nodes
        PROVE  Shape \subseteq DOMAIN AddResponse(announce_table[p.to], p.from, Path(p.to).hops)
    <3>1. Shape \subseteq DOMAIN announce_table[p.to]
      BY <2>2, <1>10
    <3> QED
      BY <3>1, SlotsKept DEF Shape
  <2>3. UNCHANGED <<path_table, discovery>>
    BY <1>12 DEF answer_request
  <2> QED
    BY <2>1, <2>2, <2>3, <1>4, <1>5, <1>6, <1>7
<1>13. ASSUME NEW n \in Nodes, retransmit_announces(n) \/ retransmit_old(n)
       PROVE  At /\ Pt /\ Ds
  <2>1. \E table : announce_table' = [announce_table EXCEPT ![n] = ToRetransmit(table)]
    BY <1>13 DEF retransmit_announces, retransmit_old
  <2>2. \A table : Shape \subseteq DOMAIN ToRetransmit(table)
    BY DEF ToRetransmit, Shape
  <2>3. UNCHANGED <<path_table, discovery>>
    BY <1>13 DEF retransmit_announces, retransmit_old
  <2> QED
    BY <2>1, <2>2, <2>3, <1>5, <1>6, <1>7
<1>14. ASSUME NEW n \in Nodes, timeout(n)
       PROVE  At /\ Pt /\ Ds
  <2> DEFINE t == announce_table[n]
             u == [t EXCEPT !.map = {[e EXCEPT !.due = TRUE] : e \in t.map}]
  <2>1. announce_table' = [announce_table EXCEPT ![n] = u]
    BY <1>2, <1>14 DEF timeout
  <2>2. Shape \subseteq DOMAIN u
    BY <1>10
  <2>3. UNCHANGED <<path_table, discovery>>
    BY <1>14 DEF timeout
  <2> QED
    BY <2>1, <2>2, <2>3, <1>5, <1>6, <1>7
<1>15. ASSUME NEW n \in Nodes, drop_announce_queues(n)
       PROVE  At /\ Pt /\ Ds
  <2>1. announce_table' = [announce_table EXCEPT ![n] = EmptyTable]
        /\ UNCHANGED <<path_table, discovery>>
    BY <1>15 DEF drop_announce_queues
  <2>2. Shape \subseteq DOMAIN EmptyTable
    BY DEF Shape, EmptyTable
  <2> QED
    BY <2>1, <2>2, <1>5, <1>6, <1>7
<1>16. ASSUME NEW x, \/ \E blob : send_announce(blob) \/ owner_request(x, blob)
                     \/ ignore_request(x) \/ search_request(x) \/ lose(x)
                     \/ request_path(x) \/ discovery_expires(x)
       PROVE  At /\ Pt /\ Ds
  <2>1. UNCHANGED <<path_table, announce_table>>
    BY <1>16 DEF send_announce, owner_request, ignore_request, search_request, lose,
                 request_path, discovery_expires
  <2>2. UNCHANGED discovery \/ \E n, s : discovery' = [discovery EXCEPT ![n] = s]
    BY <1>16 DEF send_announce, owner_request, ignore_request, search_request, lose,
                 request_path, discovery_expires
  <2> QED
    BY <2>1, <2>2, <1>4, <1>5, <1>6, <1>8
<1>17. ASSUME NEW n \in Nodes, forget(n)
       PROVE  At /\ Pt /\ Ds
  BY <1>17, <1>4, <1>6, <1>9 DEF forget
<1>18. At /\ Pt /\ Ds
  <2>1. CASE UNCHANGED vars
    BY <2>1, <1>4, <1>5, <1>6 DEF vars
  <2>2. CASE Next
    BY <2>2, <1>11, <1>12, <1>13, <1>14, <1>15, <1>16, <1>17 DEF Next, Receive
  <2> QED
    BY <2>1, <2>2
<1> QED
  BY <1>1, <1>3, <1>18 DEF Tables, Kept, At, Pt, Ds, Shape

-----------------------------------------------------------------------------
(* The theorems. *)

LEMMA InitIInv == Init => IInv
<1> SUFFICES ASSUME Init
             PROVE  IInv
  OBVIOUS
<1>1. Tables
  <2>1. IsFiniteSet(emissions) /\ budget = Budget
    BY FS_EmptySet DEF Init
  <2>2. budget \in [Kinds -> Nat] /\ budget["forget"] <= Budget["forget"]
    BY <2>1, AnnounceMeshAssumption DEF Kinds
  <2> QED
    BY <2>1, <2>2 DEF Init, Tables, EmptyTable
<1>2. MeshInv
  BY DEF Init, MeshInv, HasPath, Slots, EmptyTable
<1> QED
  BY <1>1, <1>2 DEF IInv

LEMMA NextIInv == IInv /\ [Next]_vars => IInv'
<1> SUFFICES ASSUME IInv, [Next]_vars
             PROVE  IInv'
  OBVIOUS
<1>1. Tables /\ Tables' /\ Kept
  BY TablesKept, StepKept DEF IInv
<1> SUFFICES ASSUME Quiet'
             PROVE  MeshInv'
  BY <1>1 DEF IInv
<1>2. Quiet /\ budget'["forget"] = budget["forget"]
  BY <1>1, QuietBefore DEF Kept
<1>3. MeshInv
  BY <1>2 DEF IInv
<1>4. CASE UNCHANGED vars
  <2>1. SendsWell /\ StoresWell /\ WaitsWell
    BY <1>4 DEF SendsWell, StoresWell, WaitsWell, Slots, vars
  <2> QED
    BY <1>3, <1>4, <2>1, OtherMeshInv DEF vars
<1>5. ASSUME NEW p, handle_announce(p)
      PROVE  MeshInv'
  BY <1>1, <1>2, <1>3, <1>5, AnnounceMeshInv
<1>6. ASSUME NEW n, forget(n)
      PROVE  FALSE
  BY <1>1, <1>2, <1>6 DEF forget, Spend, Tables, Kinds
<1>7. CASE \E blob \in Blobs : send_announce(blob)
  BY <1>3, <1>7, EmitMeshInv
<1>8. CASE \E p \in net : Receive(p) \/ lose(p)
  BY <1>1, <1>3, <1>5, <1>8, IgnoreMeshInv, AnswerMeshInv, SearchMeshInv,
     OwnerRequestMeshInv, LoseMeshInv DEF Receive
<1>9. CASE \E n \in Nodes :
             \/ retransmit_announces(n) \/ retransmit_old(n) \/ timeout(n)
             \/ drop_announce_queues(n)
             \/ request_path(n)
             \/ forget(n) \/ discovery_expires(n)
  BY <1>1, <1>3, <1>6, <1>9, RetransmitMeshInv, OldMeshInv, TimeoutMeshInv, DropMeshInv,
     AskMeshInv, ExpireMeshInv
<1> QED
  BY <1>4, <1>7, <1>8, <1>9 DEF Next

LEMMA MeshInvariant == Spec => []IInv
  BY InitIInv, NextIInv, PTL DEF Spec

LEMMA OneEmissionIsQuiet ==
  ASSUME Tables, Cardinality(emissions) = 1, Spent("forget") = 0
  PROVE  Quiet
<1>1. budget["forget"] \in Nat /\ Budget["forget"] \in Nat
  BY AnnounceMeshAssumption DEF Tables, Kinds
<1> QED
  BY <1>1 DEF Spent, Quiet

\* Paths lead home, in every network: as long as handle_announce has installed
\* copies of one emission only and no path has expired, the next hop of a path
\* is the destination or a node with a shorter path.  So what is sent along
\* paths arrives, whatever order announces, echoes, responses of the announce
\* table and answers to waiting requests came in.
THEOREM PathsHome == Spec => []PathsLeadHome
<1>1. IInv => PathsLeadHome
  <2> SUFFICES ASSUME IInv, Cardinality(emissions) = 1, Spent("forget") = 0,
                      NEW n \in Nodes, HasPath(n), Path(n).received_from # Owner
               PROVE  /\ HasPath(Path(n).received_from)
                      /\ Path(Path(n).received_from).hops < Path(n).hops
    BY DEF PathsLeadHome
  <2>1. MeshInv
    BY OneEmissionIsQuiet DEF IInv
  <2> QED
    BY <2>1 DEF MeshInv, Homing
<1> QED
  BY <1>1, MeshInvariant, PTL

\* No announce counts more hops than the network has relays, in every network:
\* the hop count of a copy is vouched for by as many nodes, none of them the
\* owner, which is what the gate on would_update_path in handle_announce is for.
THEOREM HopsBounded == Spec => []HopsNotInflated
<1>1. IInv => HopsNotInflated
  <2> SUFFICES ASSUME IInv, Cardinality(emissions) = 1, Spent("forget") = 0,
                      NEW p \in net, p.type = "announce"
               PROVE  p.hops < Cardinality(Nodes)
    BY DEF HopsNotInflated, Announced
  <2>1. MeshInv
    BY OneEmissionIsQuiet DEF IInv
  <2>2. IsFiniteSet(Nodes) /\ Owner \in Nodes
    BY AnnounceMeshAssumption
  <2>3. /\ IsFiniteSet(Nodes \ {Owner})
        /\ Cardinality(Nodes) \in Nat
        /\ Cardinality(Nodes \ {Owner}) = Cardinality(Nodes) - 1
        /\ Cardinality(Nodes \ {Owner}) \in Nat
    BY <2>2, FS_RemoveElement, FS_CardinalityType
  <2>4. Copy(p)
    BY <2>1 DEF MeshInv
  <2>5. CASE p.transport = NoTransport /\ p.hops = 0
    BY <2>3, <2>5
  <2>6. CASE Earned(p.transport, p.hops)
    <3>1. p.hops \in Nat /\ p.hops <= Cardinality(Within(p.hops))
      BY <2>6 DEF Earned
    <3>2. ~HasPath(Owner)
      BY <2>1, <2>2 DEF MeshInv, Homing, Earned
    <3>3. Within(p.hops) \subseteq Nodes \ {Owner}
      BY <3>2 DEF Within
    <3>4. /\ Cardinality(Within(p.hops)) \in Nat
          /\ Cardinality(Within(p.hops)) <= Cardinality(Nodes \ {Owner})
      BY <3>3, <2>3, FS_Subset, FS_CardinalityType
    <3> QED
      BY <3>1, <3>4, <2>3
  <2> QED
    BY <2>4, <2>5, <2>6 DEF Copy
<1> QED
  BY <1>1, MeshInvariant, PTL
=============================================================================
