----------------------------- MODULE LinkTable -----------------------------
(***************************************************************************)
(* The link table of a relaying node (src/src/transport/link_table.rs), as *)
(* operators on one entry: what a relay remembers of a link request it     *)
(* forwarded, and through which interface it passes the link's packets.    *)
(*                                                                         *)
(* An entry's instants are left to the module that uses it: an unvalidated *)
(* entry ends with its proof timeout, a validated one when it was idle for *)
(* INTERVAL_LINK_TABLE_STALE.                                              *)
(***************************************************************************)
EXTENDS Naturals

\* The entry made for a request that arrived over hops hops on interface
\* received_from and leaves on iface.
NewLinkEntry(hops, received_from, iface, remaining_hops) ==
  [next_hop_iface |-> iface, received_from |-> received_from,
   taken_hops |-> hops, remaining_hops |-> remaining_hops,
   validated |-> FALSE, rebalanced |-> FALSE]

\* Mutant of LoopedBack: a known request is forwarded whatever way it took.
NeverLoopedBack(entry, hops) == FALSE

\* A known request that took more hops than at first has looped back; with the
\* same number, or fewer, it is a retransmission and is forwarded again.
LoopedBack(entry, hops) == hops > entry.taken_hops

\* Both sides of the link are on one interface: direction does not matter.
SharedIface(entry) == entry.next_hop_iface = entry.received_from

\* The interface, if any, on which a packet that came in on received_on with
\* this hop count leaves; anyhops waives the hop check on the side of the
\* destination.
Outbound(entry, hops, received_on, anyhops) ==
  IF SharedIface(entry)
  THEN {i \in {entry.next_hop_iface} :
          anyhops \/ hops \in {entry.remaining_hops, entry.taken_hops}}
  ELSE {i \in {entry.received_from} :
          /\ received_on = entry.next_hop_iface
          /\ anyhops \/ hops = entry.remaining_hops}
       \cup
       {i \in {entry.next_hop_iface} :
          /\ received_on = entry.received_from
          /\ hops = entry.taken_hops}

\* LinkTable::handle_packet: nothing passes before the link was proved.
PacketOutbound(entry, hops, received_on) ==
  IF entry.validated THEN Outbound(entry, hops, received_on, FALSE) ELSE {}

\* LinkTable::handle_proof for a link request proof: any hop count will do on
\* the side of the destination.
ProofOutbound(entry, hops, received_on) == Outbound(entry, hops, received_on, TRUE)

\* Mutant of Proved: the entry is not marked validated.
ProvedUnmarked(entry, hops) ==
  [entry EXCEPT !.remaining_hops = hops, !.rebalanced = TRUE]

\* The entry after it passed a link request proof on.
Proved(entry, hops) ==
  [entry EXCEPT !.remaining_hops = hops, !.validated = TRUE, !.rebalanced = TRUE]
=============================================================================
