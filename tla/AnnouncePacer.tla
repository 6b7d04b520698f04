--------------------------- MODULE AnnouncePacer ---------------------------
(***************************************************************************)
(* The announce pacer of one interface (iface.rs): announces that are      *)
(* passed on for others may only take a share of the interface's capacity. *)
(* An announce that is not due yet waits in a queue, which a timer task    *)
(* empties, nearest destination first.  Time is relative: due is how long  *)
(* it is until announce_allowed_at.                                        *)
(***************************************************************************)
EXTENDS Naturals, Sequences, FiniteSets, SequencesExt

CONSTANTS
  Destinations,
  Hops,        \* hop counts of the announces; those with 0 are our own
  Waits,       \* what wait_time may say, by the packet's length and channel load
  MaxQueued    \* MAX_QUEUED_ANNOUNCES

ASSUME PacerAssumption ==
  /\ Hops \subseteq Nat /\ Waits \subseteq Nat \ {0}
  /\ MaxQueued \in Nat \ {0}

VARIABLES
  due,
  announce_queue,  \* destinations, in the order they came
  announce_data,   \* of each of them, the announce to send
  timer_active,
  stopped,         \* the interface's stop token
  since, owed,     \* the last paced announce: how long ago, what wait it asked for
  early            \* a paced announce left before the one ahead of it allowed

pacerVars == <<due, announce_queue, announce_data, timer_active, stopped, since, owed, early>>

Announces == [hops : Hops, wait : Waits]

PacerInit ==
  /\ due = 0 /\ announce_queue = <<>> /\ announce_data = <<>>
  /\ timer_active = FALSE /\ stopped = FALSE
  /\ since = 0 /\ owed = 0 /\ early = FALSE

\* A paced announce goes to the interface, which decides when the next may.
Leaves(announce) ==
  /\ due' = announce.wait
  /\ early' = (early \/ since < owed)
  /\ since' = 0 /\ owed' = announce.wait

Waiting == UNCHANGED <<due, since, owed, early>>

FastPathEager == announce_queue = <<>>

\* send's fast path: nobody is waiting and the time has come.
FastPath == announce_queue = <<>> /\ due = 0

\* Our own announces, and an interface without a bitrate: no pacing.
SendUnpaced == 0 \in Hops /\ UNCHANGED pacerVars

SendNow(d, announce) ==
  /\ announce.hops > 0 /\ FastPath
  /\ Leaves(announce)
  /\ UNCHANGED <<announce_queue, announce_data, timer_active, stopped>>

\* The newest announce of a destination replaces the one that waits; beyond
\* MaxQueued destinations it is dropped.
Enqueued(d, announce) ==
  IF d \in DOMAIN announce_data
    THEN /\ announce_data' = [announce_data EXCEPT ![d] = announce]
         /\ UNCHANGED announce_queue
    ELSE IF Len(announce_queue) < MaxQueued
      THEN /\ announce_queue' = Append(announce_queue, d)
           /\ announce_data' = [x \in DOMAIN announce_data \cup {d} |->
                                  IF x = d THEN announce ELSE announce_data[x]]
      ELSE UNCHANGED <<announce_queue, announce_data>>

\* send's slow path starts the timer task unless one is there.
SendLater(d, announce) ==
  /\ announce.hops > 0 /\ ~FastPath
  /\ Enqueued(d, announce)
  /\ timer_active' = TRUE
  /\ Waiting /\ UNCHANGED stopped

\* The first of those with the lowest hop count.
Nearest ==
  CHOOSE i \in DOMAIN announce_queue :
    \A j \in DOMAIN announce_queue :
      LET hi == announce_data[announce_queue[i]].hops
          hj == announce_data[announce_queue[j]].hops
      IN  hi < hj \/ (hi = hj /\ i <= j)

\* process_announce_queue, one round; until the time has come it sleeps.
Process ==
  /\ timer_active /\ ~stopped /\ due = 0 /\ announce_queue # <<>>
  /\ LET d == announce_queue[Nearest]
     IN  /\ Leaves(announce_data[d])
         /\ announce_queue' = RemoveAt(announce_queue, Nearest)
         /\ announce_data' = [x \in DOMAIN announce_data \ {d} |-> announce_data[x]]
  /\ UNCHANGED <<timer_active, stopped>>

ProcessIdleLate == timer_active /\ due = 0 /\ Len(announce_queue) <= 1

ProcessIdle == timer_active /\ due = 0 /\ announce_queue = <<>>

\* Nothing is left, which the task notices under the lock that send takes; or
\* the interface has stopped.
ProcessEnds ==
  /\ ProcessIdle \/ (timer_active /\ stopped)
  /\ timer_active' = FALSE
  /\ Waiting /\ UNCHANGED <<announce_queue, announce_data, stopped>>

PacerTick ==
  /\ due > 0 \/ since < owed
  /\ due' = IF due > 0 THEN due - 1 ELSE 0
  /\ since' = since + 1
  /\ UNCHANGED <<announce_queue, announce_data, timer_active, stopped, owed, early>>

InterfaceStops ==
  /\ ~stopped /\ stopped' = TRUE
  /\ Waiting /\ UNCHANGED <<announce_queue, announce_data, timer_active>>

PacerNext ==
  \/ \E d \in Destinations, a \in Announces : SendNow(d, a) \/ SendLater(d, a)
  \/ SendUnpaced \/ Process \/ ProcessEnds \/ PacerTick \/ InterfaceStops

\* While the interface runs, an announce that waits has a timer task that will
\* send it: the task never ends between send's look at timer_active and its own
\* look at the queue (AnnouncePacer::send, process_announce_queue).
NothingStranded == announce_queue # <<>> /\ ~stopped => timer_active

\* Each paced announce keeps the distance the one before it asked for, on
\* whichever of the two paths they leave: a burst of announces cannot take more
\* than announce_cap of the interface (announce_allowed_at).
Paced == ~early
=============================================================================
