--------------------------- MODULE AnnounceTable ---------------------------
(***************************************************************************)
(* The announce table of a relaying node (src/src/transport/               *)
(* announce_table.rs), as operators on its slots for one destination: map  *)
(* holds the announce that is being retransmitted, responses the answer to *)
(* a path request that is due, cache the announce whose retransmission was *)
(* completed.  Each slot is a set of at most one entry.                    *)
(*                                                                         *)
(* due says that an entry's timeout has passed.  The jitter before the     *)
(* first transmission, and the grace of a response, only delay it until a  *)
(* later retransmission cycle; so an entry is due until it was sent.       *)
(***************************************************************************)
EXTENDS Naturals

CONSTANTS
  LOCAL_REBROADCASTS_MAX,  \* 2 in the code
  Anyone                   \* response_to_iface is None: not a response

EmptyTable == [map |-> {}, responses |-> {}, cache |-> {}]

\* Mutant of Add: the hop count before reception.
AddAsSent(table, blob, hops, received_from) ==
  [table EXCEPT !.map =
     {[blob |-> blob, hops |-> hops - 1, received_from |-> received_from,
       response_to_iface |-> Anyone, retries |-> 0, local_rebroadcasts |-> 0,
       due |-> TRUE]}]

\* AnnounceTable::add: an entry that was there is replaced.
Add(table, blob, hops, received_from) ==
  [table EXCEPT !.map =
     {[blob |-> blob, hops |-> hops, received_from |-> received_from,
       response_to_iface |-> Anyone, retries |-> 0, local_rebroadcasts |-> 0,
       due |-> TRUE]}]

\* Where add_response finds the announce to answer with.
Answerable(table) == IF table.map # {} THEN table.map ELSE table.cache

\* AnnounceTable::add_response: the hop count is that of the path table.
AddResponse(table, to_iface, hops) ==
  [table EXCEPT !.responses =
     {[entry EXCEPT !.retries = 0, !.local_rebroadcasts = 0, !.hops = hops,
                    !.due = TRUE, !.response_to_iface = to_iface] :
        entry \in Answerable(table)}]

\* Mutant of Echo: counted even before our own transmission.
EchoUnsent(entry, hops) == hops - 1 = entry.hops

\* A peer at our distance sent the announce that we have sent.
Echo(entry, hops) == entry.retries > 0 /\ hops - 1 = entry.hops

\* Somebody farther away has passed on what we sent, before we are due again.
PassedOn(entry, hops) ==
  entry.retries > 0 /\ hops - 1 = entry.hops + 1 /\ ~entry.due

\* AnnounceTable::echo_received: the last echo, or a pass-on, ends the entry.
EchoReceived(table, hops) ==
  [table EXCEPT !.map =
     {IF Echo(entry, hops) THEN [entry EXCEPT !.local_rebroadcasts = @ + 1] ELSE entry :
        entry \in {e \in table.map :
                     /\ ~PassedOn(e, hops)
                     /\ Echo(e, hops)
                        => e.local_rebroadcasts + 1 < LOCAL_REBROADCASTS_MAX}}]

Completed(entry) ==
  \/ entry.retries >= LOCAL_REBROADCASTS_MAX
  \/ entry.local_rebroadcasts >= LOCAL_REBROADCASTS_MAX

Ready(entry) == entry.due /\ ~Completed(entry)

Retransmitted(entry) == [entry EXCEPT !.retries = @ + 1, !.due = FALSE]

\* The entries that to_retransmit sends; while a response waits, the announce
\* itself does too.
Outgoing(table) ==
  {Retransmitted(entry) :
     entry \in {e \in table.responses \cup (IF table.responses = {} THEN table.map ELSE {}) :
                  Ready(e)}}

\* The table after to_retransmit: what was sent is counted, sent responses are
\* gone, a completed announce goes to the cache.
ToRetransmit(table) ==
  LET completed == {e \in table.map : table.responses = {} /\ Completed(e)} IN
  [map |-> {IF table.responses = {} /\ Ready(e) THEN Retransmitted(e) ELSE e :
              e \in table.map \ completed},
   responses |-> {e \in table.responses : ~Ready(e)},
   cache |-> IF completed = {} THEN table.cache ELSE completed]
=============================================================================
