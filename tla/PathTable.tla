----------------------------- MODULE PathTable -----------------------------
(***************************************************************************)
(* The path table of a node (src/src/transport/path_table.rs): for every   *)
(* destination the next hop learnt from announces, and the rules by which  *)
(* an announce replaces the installed path.                                *)
(*                                                                         *)
(* An announce carries a random blob: the time of its emission and a nonce *)
(* that tells emissions of the same second apart.  All copies of one       *)
(* emission carry the same blob, whatever way they took.  Every announce   *)
(* that reaches the table was validated, so it is long enough to have one. *)
(* Instants are abstracted to whether a path has reached its expiry.  An   *)
(* announce that was queued when its interface went down is still handled, *)
(* with the gravity and bitrate of an unknown interface.                   *)
(***************************************************************************)
EXTENDS Integers, Sequences, FiniteSets

CONSTANTS
  Destinations,
  Transports,        \* identities of relaying nodes, possible next hops
  Interfaces,
  Gravity,           \* Interfaces -> Int, the gravity of an interface
  Bitrate,           \* Interfaces -> Int, its bitrate, -1 for None
  Times,             \* emission times (seconds)
  Nonces,            \* the random part of a blob
  MaxHops,           \* bound on the hop count of an announce
  MAX_RANDOM_BLOBS   \* 64 in the code

ASSUME PathTableAssumption ==
  /\ Gravity \in [Interfaces -> Int]
  /\ Bitrate \in [Interfaces -> Int]
  /\ Times \subseteq Nat
  /\ MaxHops \in Nat \ {0}
  /\ MAX_RANDOM_BLOBS \in Nat \ {0}

VARIABLES
  map,     \* the path entries, by destination
  active   \* the interfaces the interface manager reports as active

vars == <<map, active>>

Blobs == [time : Times, nonce : Nonces]

\* A packet's hop count is incremented on reception, before any handler runs.
Hops == 1..MaxHops

PathStates == {"Unknown", "Unresponsive"}

\* blob is the emission that installed the path (its announce is cached in the
\* entry), random_blobs every emission recorded for the destination.
PathEntries ==
  [received_from : Transports \cup Destinations,
   hops : Hops,
   iface : Interfaces,
   gravity : Int,
   bitrate : Int,
   expired : BOOLEAN,
   blob : Blobs,
   random_blobs : Seq(Blobs),
   state : PathStates]

\* interface_gravity and interface_bitrate of the interface manager.
IfaceGravity(i) == IF i \in active THEN Gravity[i] ELSE 0

IfaceBitrate(i) == IF i \in active THEN Bitrate[i] ELSE -1

\* via is the transport id of a forwarded announce, and the destination itself
\* for a direct one.
Announces ==
  {a \in [destination : Destinations, hops : Hops, blob : Blobs,
          via : Transports \cup Destinations, iface : Interfaces] :
     a.via \in Transports \cup {a.destination}}

-----------------------------------------------------------------------------
(* PathEntry                                                               *)

Recorded(entry) == {entry.random_blobs[k] : k \in 1..Len(entry.random_blobs)}

\* The emission times an entry has recorded; timebase is the greatest.
EmissionTimes(entry) == {b.time : b \in Recorded(entry)}

timebase(entry) ==
  CHOOSE t \in EmissionTimes(entry) : \A u \in EmissionTimes(entry) : u <= t

\* Higher gravity wins, then the higher bitrate.
prefers_interface(entry, a) ==
  \/ IfaceGravity(a.iface) > entry.gravity
  \/ /\ IfaceGravity(a.iface) = entry.gravity
     /\ IfaceBitrate(a.iface) > entry.bitrate

\* Mutant of AcceptRecorded: every copy of a recorded emission is a duplicate.
AcceptRecordedNever(entry, a) == FALSE

\* A copy of a recorded emission: only a closer path, or a preferred interface
\* at the same distance.
AcceptRecorded(entry, a) ==
  \/ a.hops < entry.hops
  \/ a.hops = entry.hops /\ prefers_interface(entry, a)

\* Mutant of AcceptCloser: a shorter path wins whatever its age.
AcceptCloserAnyAge(entry, a) == TRUE

\* A new emission that is at most as far away as the installed path.
AcceptCloser(entry, a) ==
  \/ a.blob.time > timebase(entry)
  \/ a.blob.time = timebase(entry) /\ prefers_interface(entry, a)

\* A new emission from farther away.
AcceptLonger(entry, a) ==
  \/ entry.expired
  \/ a.blob.time > timebase(entry)
  \/ a.blob.time = timebase(entry) /\ entry.state = "Unresponsive"

should_accept(entry, a) ==
  IF a.blob \in Recorded(entry) THEN AcceptRecorded(entry, a)
  ELSE IF a.hops <= entry.hops THEN AcceptCloser(entry, a)
  ELSE AcceptLonger(entry, a)

\* Mutant of updated_random_blobs: the blob is pushed without a look-up.
PushedRandomBlobs(entry, blob) ==
  LET all == Append(entry.random_blobs, blob)
      excess == IF Len(all) > MAX_RANDOM_BLOBS THEN Len(all) - MAX_RANDOM_BLOBS ELSE 0
  IN  SubSeq(all, excess + 1, Len(all))

\* Record the blob once, then forget the oldest records beyond the limit.
updated_random_blobs(entry, blob) ==
  LET all == IF blob \in Recorded(entry) THEN entry.random_blobs
             ELSE Append(entry.random_blobs, blob)
      excess == IF Len(all) > MAX_RANDOM_BLOBS THEN Len(all) - MAX_RANDOM_BLOBS ELSE 0
  IN  SubSeq(all, excess + 1, Len(all))

-----------------------------------------------------------------------------
(* PathTable, as operators on the map m.                                   *)

Put(m, d, entry) == [x \in DOMAIN m \cup {d} |-> IF x = d THEN entry ELSE m[x]]

Keep(m, D) == [x \in DOMAIN m \cap D |-> m[x]]

would_update_path(m, a) ==
  a.destination \in DOMAIN m => should_accept(m[a.destination], a)

NewEntry(m, a) ==
  [received_from |-> a.via, hops |-> a.hops, iface |-> a.iface,
   gravity |-> IfaceGravity(a.iface), bitrate |-> IfaceBitrate(a.iface),
   expired |-> FALSE, blob |-> a.blob,
   random_blobs |-> IF a.destination \in DOMAIN m
                    THEN updated_random_blobs(m[a.destination], a.blob)
                    ELSE <<a.blob>>,
   state |-> "Unknown"]

Install(m, a) ==
  IF would_update_path(m, a) THEN Put(m, a.destination, NewEntry(m, a)) ELSE m

RemoveStale(m, up) == Keep(m, {d \in DOMAIN m : ~m[d].expired /\ m[d].iface \in up})

DropVia(m, via) == Keep(m, {d \in DOMAIN m : m[d].received_from # via})

Refresh(m, d) == IF d \in DOMAIN m THEN [m EXCEPT ![d].expired = FALSE] ELSE m

MarkUnresponsive(m, d) ==
  IF d \in DOMAIN m THEN [m EXCEPT ![d].state = "Unresponsive"] ELSE m

\* Only a shorter hop count is taken over.
RebalanceHops(m, d, new_hops) ==
  IF d \in DOMAIN m /\ new_hops < m[d].hops
  THEN [m EXCEPT ![d].hops = new_hops] ELSE m

-----------------------------------------------------------------------------
Init == map = <<>> /\ active = Interfaces

\* An announce that Transport validated and let pass its limits.
handle_announce(a) ==
  /\ map' = Install(map, a)
  /\ UNCHANGED active

\* The periodic cull.
remove_stale ==
  /\ map' = RemoveStale(map, active)
  /\ UNCHANGED active

\* A packet is sent or forwarded along the path, which restarts its expiry.
refresh(d) ==
  /\ d \in DOMAIN map
  /\ map' = Refresh(map, d)
  /\ UNCHANGED active

mark_unresponsive(d) ==
  /\ map' = MarkUnresponsive(map, d)
  /\ UNCHANGED active

\* A verified link proof arrived over new_hops hops.
rebalance_hops(d, new_hops) ==
  /\ map' = RebalanceHops(map, d, new_hops)
  /\ UNCHANGED active

remove(d) ==
  /\ map' = Keep(map, Destinations \ {d})
  /\ UNCHANGED active

drop_all_via(via) ==
  /\ map' = DropVia(map, via)
  /\ UNCHANGED active

\* The expiry of a path passes.
Expire(d) ==
  /\ d \in DOMAIN map
  /\ map' = [map EXCEPT ![d].expired = TRUE]
  /\ UNCHANGED active

InterfaceDown(i) == active' = active \ {i} /\ UNCHANGED map

InterfaceUp(i) == active' = active \cup {i} /\ UNCHANGED map

Next ==
  \/ \E a \in Announces : handle_announce(a)
  \/ remove_stale
  \/ \E d \in Destinations :
       \/ refresh(d)
       \/ mark_unresponsive(d)
       \/ \E h \in Hops : rebalance_hops(d, h)
       \/ remove(d)
       \/ Expire(d)
  \/ \E via \in Transports \cup Destinations : drop_all_via(via)
  \/ \E i \in Interfaces : InterfaceDown(i) \/ InterfaceUp(i)

Spec == Init /\ [][Next]_vars

-----------------------------------------------------------------------------
\* Every entry of the table is a path entry.
TypeOK ==
  /\ active \subseteq Interfaces
  /\ DOMAIN map \subseteq Destinations
  /\ \A d \in DOMAIN map : map[d] \in PathEntries

\* What an entry records about emissions is coherent: the emission that
\* installed the path is still recorded, nothing is recorded twice, and the
\* record never exceeds MAX_RANDOM_BLOBS.  should_accept relies on all three
\* to tell a copy of a known emission from a new one.
EmissionsRecorded ==
  \A d \in DOMAIN map :
    LET blobs == map[d].random_blobs IN
    /\ map[d].blob \in Recorded(map[d])
    /\ Len(blobs) <= MAX_RANDOM_BLOBS
    /\ \A j, k \in 1..Len(blobs) : j # k => blobs[j] # blobs[k]

Stays(d) == d \in DOMAIN map /\ d \in DOMAIN map'

\* While a path has not expired, the newest emission its destination is known
\* by never goes back, although old records are forgotten: a replayed old
\* announce cannot make the table accept announces it had already outgrown.
TimebaseNeverRegresses ==
  [][\A d \in Destinations :
       Stays(d) /\ ~map[d].expired => timebase(map'[d]) >= timebase(map[d])]_vars

\* A node that hears one emission on several interfaces converges on the
\* closest peer: after any copy of the installed emission, the path is no
\* longer than that copy, and it never moves to an interface of less gravity at
\* the same distance.
ConvergesOnClosest ==
  [][\A a \in Announces :
       (/\ a.destination \in DOMAIN map
        /\ a.blob = map[a.destination].blob
        /\ map' = Install(map, a))
       => LET old == map[a.destination]
              new == map'[a.destination]
          IN  /\ new.hops <= a.hops /\ new.hops <= old.hops
              /\ new.hops = old.hops => new.gravity >= old.gravity
    ]_vars

=============================================================================
