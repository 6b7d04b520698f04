-------------------------- MODULE AdmissionProofs --------------------------
(***************************************************************************)
(* The safety properties of Admission, for any number of identities,       *)
(* clients, addresses and destinations and all limits.  The mechanisms     *)
(* share no state, so each theorem needs one of them and the fact that the *)
(* steps of the others leave its variables alone.                          *)
(***************************************************************************)
EXTENDS Admission, TLAPS, NaturalsInduction, WellFoundedInduction

-----------------------------------------------------------------------------
(* Bans *)

\* A ban: the entry is the operator's, whatever was there.
LEMMA BanKeeps ==
  ASSUME BanHolds, NEW i, NEW until, NEW locked, Ban(i, until, locked)
  PROVE  BanHolds'
BY DEF BanHolds, Ban, add

\* Lifting the ban of one identity touches no other.
LEMMA LiftKeeps ==
  ASSUME BanHolds, NEW i, Lift(i)
  PROVE  BanHolds'
BY DEF BanHolds, Lift

\* Every step of the transport keeps the bans; the two that matter are the
\* clean-up, which only removes entries that expire, and the merge of a list,
\* which leaves the entries that are there.
LEMMA BlackholeKeeps ==
  ASSUME BanHolds, BlackholeNext
  PROVE  BanHolds'
<1>1. ASSUME NEW i \in Identities, blackhole_identity(i) PROVE BanHolds'
  BY <1>1, BanKeeps DEF blackhole_identity
<1>2. ASSUME NEW i \in Identities, unblackhole_identity(i) PROVE BanHolds'
  BY <1>2, LiftKeeps DEF unblackhole_identity
<1>3. ASSUME NEW i \in Identities, BanElapses(i) PROVE BanHolds'
  BY <1>3 DEF BanElapses, BanHolds
<1>4. CASE CleanUp
  BY <1>4 DEF CleanUp, remove_expired, BanHolds
<1>5. CASE ListReceived
  BY <1>5 DEF ListReceived, InsertRemote, BanHolds
<1>6. CASE UNCHANGED <<blackhole_table, wanted>>
  BY <1>6 DEF BanHolds
<1> QED
  BY <1>1, <1>2, <1>3, <1>4, <1>5, <1>6
  DEF BlackholeNext, handle_announce, PathExpires, UpdateDue, UpdaterWakes, UpdaterSkips,
      UpdaterLinks, LinkActivated, UpdateFails, Tables

\* The control port changes the bans only by the operator's two operations.
LEMMA RpcKeeps ==
  ASSUME BanHolds, RpcNext
  PROVE  BanHolds'
<1>1. ASSUME NEW c \in RpcClients, rpc_blackhole_identity(c) PROVE BanHolds'
  BY <1>1, BanKeeps DEF rpc_blackhole_identity, blackhole_identity
<1>2. ASSUME NEW c \in RpcClients, rpc_unblackhole_identity(c) PROVE BanHolds'
  BY <1>2, LiftKeeps DEF rpc_unblackhole_identity, unblackhole_identity
<1>3. CASE UNCHANGED <<blackhole_table, wanted>>
  BY <1>3 DEF BanHolds
<1> QED
  BY <1>1, <1>2, <1>3, BlackholeKeeps
  DEF RpcNext, RpcStep, rpc_accept, rpc_authenticate, rpc_answer_peer_challenge, PeerVerdict,
      rpc_get, rpc_drop, rpc_request_path, Poll, handle_rpc_listen, ConnectionLost, Returns,
      blackholeVars

\* A ban the operator set for good stands until it is lifted, whatever lists
\* arrive, expire and are cleaned up in the meantime (insert_remote_entry).
THEOREM BansStand == Spec => []BanHolds
<1>1. Init => BanHolds
  BY DEF Init, RpcInit, BlackholeInit, BanHolds
<1>2. BanHolds /\ [Next]_vars => BanHolds'
  <2> SUFFICES ASSUME BanHolds, [Next]_vars PROVE BanHolds'
    OBVIOUS
  <2>1. CASE ControlStep(RpcNext)
    BY <2>1, RpcKeeps DEF ControlStep
  <2>2. CASE UNCHANGED <<blackhole_table, wanted>>
    BY <2>2 DEF BanHolds
  <2> QED
    BY <2>1, <2>2 DEF Next, PacerStep, IngressStep, ReconnectStep, vars, rpcVars, blackholeVars
<1> QED
  BY <1>1, <1>2, PTL DEF Spec

-----------------------------------------------------------------------------
(* The announce pacer *)

\* While the interface runs there is a timer task whenever an announce waits:
\* send starts one with every announce it queues, and the task ends only when
\* it finds the queue empty (AnnouncePacer::send, process_announce_queue).
THEOREM NoneStranded == Spec => []NothingStranded
<1>1. Init => NothingStranded
  BY DEF Init, PacerInit, NothingStranded
<1>2. NothingStranded /\ [Next]_vars => NothingStranded'
  <2> SUFFICES ASSUME NothingStranded, [Next]_vars PROVE NothingStranded'
    OBVIOUS
  <2>1. CASE PacerStep
    BY <2>1
    DEF NothingStranded, PacerStep, PacerNext, SendNow, SendLater, SendUnpaced, Process,
        ProcessEnds, ProcessIdle, PacerTick, InterfaceStops, pacerVars
  <2>2. CASE UNCHANGED pacerVars
    BY <2>2 DEF NothingStranded, pacerVars
  <2> QED
    BY <2>1, <2>2 DEF Next, IngressStep, ReconnectStep, ControlStep, vars
<1> QED
  BY <1>1, <1>2, PTL DEF Spec

\* What is still due and what has passed since the last paced announce make up
\* what that announce asked for.
Distance ==
  /\ due \in Nat /\ since \in Nat /\ owed \in Nat
  /\ owed <= since + due

\* Every queued destination is queued once and has its announce.
QueueWhole ==
  /\ announce_queue \in Seq(Destinations)
  /\ \A i, j \in 1..Len(announce_queue) : announce_queue[i] = announce_queue[j] => i = j
  /\ \A i \in 1..Len(announce_queue) :
       /\ announce_queue[i] \in DOMAIN announce_data
       /\ announce_data[announce_queue[i]] \in Announces

PacerInv == Paced /\ Distance /\ QueueWhole

\* A nonempty set of naturals has a least element.
LEMMA LeastNatural ==
  ASSUME NEW S, S \subseteq Nat, S # {}
  PROVE  \E x \in S : \A y \in S : x <= y
<1> DEFINE R == OpToRel(<, Nat)
<1>1. IsWellFoundedOn(R, Nat)
  BY NatLessThanWellFounded
<1>2. PICK x \in S : \A y \in S : ~(<<y, x>> \in R)
  BY <1>1, WFMin
<1>3. \A y, z \in Nat : y < z => <<y, z>> \in R
  BY DEF OpToRel
<1> HIDE DEF R
<1>4. ASSUME NEW y \in S PROVE x <= y
  <2>1. x \in Nat /\ y \in Nat
    OBVIOUS
  <2>2. ~(y < x)
    BY <1>2, <1>3, <2>1
  <2> QED BY <2>1, <2>2
<1> QED BY <1>4

\* Nearest is a position of the queue: the first among those with the fewest
\* hops.
LEMMA NearestExists ==
  ASSUME QueueWhole, announce_queue # <<>>
  PROVE  Nearest \in 1..Len(announce_queue)
<1> DEFINE Q == 1..Len(announce_queue)
           hops(i) == announce_data[announce_queue[i]].hops
<1>1. DOMAIN announce_queue = Q /\ Q # {} /\ Q \subseteq Nat
  BY DEF QueueWhole
<1>2. \A i \in Q : hops(i) \in Nat
  BY PacerAssumption DEF QueueWhole, Announces
<1>3. PICK h \in {hops(i) : i \in Q} : \A y \in {hops(i) : i \in Q} : h <= y
  <2> HIDE DEF hops, Q
  <2>1. {hops(i) : i \in Q} \subseteq Nat /\ {hops(i) : i \in Q} # {}
    BY <1>1, <1>2
  <2> QED BY <2>1, LeastNatural
<1>4. PICK n \in {i \in Q : hops(i) = h} : \A y \in {i \in Q : hops(i) = h} : n <= y
  <2> HIDE DEF hops, Q
  <2>1. {i \in Q : hops(i) = h} \subseteq Nat /\ {i \in Q : hops(i) = h} # {}
    BY <1>1, <1>3
  <2> QED BY <2>1, LeastNatural
<1>5. \A j \in Q : hops(n) < hops(j) \/ (hops(n) = hops(j) /\ n <= j)
  <2> HIDE DEF hops, Q
  <2> TAKE j \in Q
  <2>1. n \in Q /\ hops(n) = h
    BY <1>4
  <2>2. h <= hops(j)
    BY <1>3
  <2>3. hops(j) = h => n <= j
    BY <1>4
  <2>4. h \in Nat /\ hops(j) \in Nat
    BY <1>2, <2>1
  <2>5. h < hops(j) \/ hops(j) = h
    BY <2>2, <2>4
  <2> QED BY <2>1, <2>3, <2>5
<1> QED
  BY <1>1, <1>4, <1>5 DEF Nearest

\* A paced announce that leaves when nothing is due keeps its distance.
LEMMA LeavesKeepsDistance ==
  ASSUME Paced, Distance, NEW announce \in Announces, due = 0, Leaves(announce)
  PROVE  Paced' /\ Distance'
<1>1. announce.wait \in Nat
  BY PacerAssumption DEF Announces
<1>2. ~(since < owed)
  BY DEF Distance
<1>3. Paced'
  BY <1>2, Zenon DEF Leaves, Paced
<1>4. Distance'
  BY <1>1 DEF Leaves, Distance
<1> QED BY <1>3, <1>4

\* A queued announce replaces the one of its destination or becomes the last.
LEMMA EnqueuedKeepsQueue ==
  ASSUME QueueWhole, NEW d \in Destinations, NEW a \in Announces, Enqueued(d, a)
  PROVE  QueueWhole'
<1>1. CASE d \in DOMAIN announce_data
  BY <1>1 DEF Enqueued, QueueWhole
<1>2. CASE d \notin DOMAIN announce_data
           /\ announce_queue' = Append(announce_queue, d)
           /\ announce_data' = [x \in DOMAIN announce_data \cup {d} |->
                                  IF x = d THEN a ELSE announce_data[x]]
  <2>1. Len(announce_queue') = Len(announce_queue) + 1 /\ announce_queue' \in Seq(Destinations)
    BY <1>2 DEF QueueWhole
  <2>2. \A i \in 1..Len(announce_queue') :
          announce_queue'[i] = IF i <= Len(announce_queue) THEN announce_queue[i] ELSE d
    BY <1>2 DEF QueueWhole
  <2>3. \A i \in 1..Len(announce_queue) : announce_queue[i] # d
    BY <1>2 DEF QueueWhole
  <2>4. Len(announce_queue) \in Nat
    BY DEF QueueWhole
  <2>5. \A i, j \in 1..Len(announce_queue') : announce_queue'[i] = announce_queue'[j] => i = j
    BY <2>1, <2>2, <2>3, <2>4 DEF QueueWhole
  <2>6. \A i \in 1..Len(announce_queue') :
          announce_queue'[i] \in DOMAIN announce_data' /\ announce_data'[announce_queue'[i]] \in Announces
    BY <1>2, <2>1, <2>2, <2>3, <2>4 DEF QueueWhole
  <2> QED BY <2>1, <2>5, <2>6 DEF QueueWhole
<1>3. CASE UNCHANGED <<announce_queue, announce_data>>
  BY <1>3 DEF QueueWhole
<1> QED BY <1>1, <1>2, <1>3 DEF Enqueued

\* Taking one destination out of the queue leaves the others as they were.
LEMMA TakenKeepsQueue ==
  ASSUME QueueWhole, NEW n \in 1..Len(announce_queue),
         announce_queue' = RemoveAt(announce_queue, n),
         announce_data' = [x \in DOMAIN announce_data \ {announce_queue[n]} |-> announce_data[x]]
  PROVE  QueueWhole'
<1> DEFINE N == Len(announce_queue)
           old(i) == IF i < n THEN i ELSE i + 1
<1>0. N \in Nat /\ announce_queue \in Seq(Destinations) /\ n \in 1..N
  BY DEF QueueWhole
<1>1. announce_queue' = SubSeq(announce_queue, 1, n - 1) \o SubSeq(announce_queue, n + 1, N)
  BY DEF RemoveAt
<1>a. \E f, b \in Seq(Destinations) :
        /\ announce_queue' = f \o b /\ Len(f) = n - 1 /\ Len(b) = N - n
        /\ \A i \in 1..(n - 1) : f[i] = announce_queue[i]
        /\ \A i \in 1..(N - n) : b[i] = announce_queue[i + n]
  <2> DEFINE f == SubSeq(announce_queue, 1, n - 1)
             b == SubSeq(announce_queue, n + 1, N)
  <2>1. f \in Seq(Destinations) /\ Len(f) = n - 1
        /\ \A i \in 1..(n - 1) : f[i] = announce_queue[i]
    BY <1>0
  <2>2. b \in Seq(Destinations) /\ Len(b) = N - n
        /\ \A i \in 1..(N - n) : b[i] = announce_queue[i + n]
    BY <1>0
  <2> QED BY <1>1, <2>1, <2>2
<1>b. PICK f, b \in Seq(Destinations) :
        /\ announce_queue' = f \o b /\ Len(f) = n - 1 /\ Len(b) = N - n
        /\ \A i \in 1..(n - 1) : f[i] = announce_queue[i]
        /\ \A i \in 1..(N - n) : b[i] = announce_queue[i + n]
  BY <1>a
<1>2. announce_queue' \in Seq(Destinations) /\ Len(announce_queue') = N - 1
  BY <1>0, <1>b
<1>3. \A i \in 1..(N - 1) : announce_queue'[i] = announce_queue[old(i)]
  <2> TAKE i \in 1..(N - 1)
  <2>1. CASE i < n
    BY <1>0, <1>b, <2>1
  <2>2. CASE ~(i < n)
    <3>1. announce_queue'[i] = b[i - (n - 1)]
      BY <1>0, <1>b, <2>2
    <3>2. b[i - (n - 1)] = announce_queue[i + 1]
      BY <1>0, <1>b, <2>2
    <3> QED BY <2>2, <3>1, <3>2
  <2> QED BY <2>1, <2>2
<1>4. \A i \in 1..(N - 1) : old(i) \in 1..N /\ old(i) # n
  BY <1>0
<1>5. \A i, j \in 1..(N - 1) : old(i) = old(j) => i = j
  BY <1>0
<1> HIDE DEF old
<1>6. \A i, j \in 1..(N - 1) : announce_queue'[i] = announce_queue'[j] => i = j
  BY <1>3, <1>4, <1>5 DEF QueueWhole
<1>7. \A i \in 1..(N - 1) : announce_queue[old(i)] # announce_queue[n]
  BY <1>4 DEF QueueWhole
<1>8. \A i \in 1..(N - 1) :
        announce_queue'[i] \in DOMAIN announce_data' /\ announce_data'[announce_queue'[i]] \in Announces
  BY <1>3, <1>4, <1>7 DEF QueueWhole
<1> QED BY <1>2, <1>6, <1>8 DEF QueueWhole

\* Each paced announce keeps the distance the one before it asked for, on
\* whichever path it leaves (announce_allowed_at).
THEOREM AnnouncesPaced == Spec => []Paced
<1>1. Init => PacerInv
  BY DEF Init, PacerInit, PacerInv, Paced, Distance, QueueWhole
<1>2. PacerInv /\ [Next]_vars => PacerInv'
  <2> SUFFICES ASSUME PacerInv, [Next]_vars PROVE PacerInv'
    OBVIOUS
  <2>0. Paced /\ Distance /\ QueueWhole
    BY DEF PacerInv
  <2>1. ASSUME NEW d \in Destinations, NEW a \in Announces, SendNow(d, a) PROVE PacerInv'
    <3>1. Paced' /\ Distance'
      BY <2>0, <2>1, LeavesKeepsDistance DEF SendNow, FastPath
    <3>2. QueueWhole'
      BY <2>0, <2>1 DEF SendNow, QueueWhole
    <3> QED BY <3>1, <3>2 DEF PacerInv
  <2>2. ASSUME NEW d \in Destinations, NEW a \in Announces, SendLater(d, a) PROVE PacerInv'
    <3>1. QueueWhole'
      BY <2>0, <2>2, EnqueuedKeepsQueue DEF SendLater
    <3>2. Paced' /\ Distance'
      BY <2>0, <2>2 DEF SendLater, Waiting, Paced, Distance
    <3> QED BY <3>1, <3>2 DEF PacerInv
  <2>3. CASE Process
    <3>1. announce_queue # <<>> /\ due = 0
      BY <2>3 DEF Process
    <3>2. Nearest \in 1..Len(announce_queue)
      BY <2>0, <3>1, NearestExists
    <3>3. announce_data[announce_queue[Nearest]] \in Announces
      BY <2>0, <3>2 DEF QueueWhole
    <3>4. Paced' /\ Distance'
      BY <2>0, <2>3, <3>1, <3>3, LeavesKeepsDistance DEF Process
    <3>5. QueueWhole'
      BY <2>0, <2>3, <3>2, TakenKeepsQueue DEF Process
    <3> QED BY <3>4, <3>5 DEF PacerInv
  <2>4. CASE PacerTick
    BY <2>0, <2>4 DEF PacerTick, PacerInv, Paced, Distance, QueueWhole
  <2>5. CASE UNCHANGED <<due, since, owed, early, announce_queue, announce_data>>
    BY <2>0, <2>5 DEF PacerInv, Paced, Distance, QueueWhole
  <2> QED
    BY <2>1, <2>2, <2>3, <2>4, <2>5
    DEF Next, PacerStep, PacerNext, SendUnpaced, ProcessEnds, InterfaceStops, Waiting,
        IngressStep, ReconnectStep, ControlStep, vars, pacerVars
<1>3. PacerInv => Paced
  BY DEF PacerInv
<1> QED
  BY <1>1, <1>2, <1>3, PTL DEF Spec

-----------------------------------------------------------------------------
(* The reconnect pacer *)

EntryType ==
  [last_connect : Nat, backoff : Nat, rejections : Nat, blocked : BOOLEAN, blocked_at : Nat]

\* The entry of a tracked address knows when it connected last, and a block is
\* in it, no older than the address has been quiet, until it is accepted again.
Knows(a) ==
  /\ entries[a] \in EntryType
  /\ entries[a].last_connect = apart[a]
  /\ InitialBackoff <= entries[a].backoff
  /\ entries[a].blocked => entries[a].blocked_at <= entries[a].last_connect
  /\ banned[a] => entries[a].blocked /\ entries[a].blocked_at <= quiet[a]

\* An address that is not tracked may connect.
MayConnect(a) ==
  /\ InitialBackoff <= apart[a]
  /\ banned[a] => BlockExpiry <= quiet[a]

ReconnectInv ==
  /\ NoHastyAccept
  /\ apart \in [Addresses -> Nat] /\ quiet \in [Addresses -> Nat]
  /\ banned \in [Addresses -> BOOLEAN]
  /\ DOMAIN entries \subseteq Addresses
  /\ \A a \in DOMAIN entries : Knows(a)
  /\ \A a \in Addresses \ DOMAIN entries : MayConnect(a)

\* Whom the cleanup forgets may connect.
LEMMA CleanupForgetsHarmless ==
  ASSUME ReconnectInv, NEW a \in DOMAIN entries, ~Retained(entries[a])
  PROVE  MayConnect(a)
<1>1. Knows(a)
  BY DEF ReconnectInv
<1>2. apart[a] \in Nat /\ quiet[a] \in Nat
  BY DEF ReconnectInv
<1>3. CASE entries[a].blocked
  BY <1>1, <1>2, <1>3, ReconnectAssumption DEF Knows, MayConnect, Retained, EntryType
<1>4. CASE ~entries[a].blocked
  BY <1>1, <1>2, <1>4, ReconnectAssumption DEF Knows, MayConnect, Retained, EntryType
<1> QED BY <1>3, <1>4

\* The table after the cleanup: some entries as they were, and whoever is gone
\* may connect.
LEMMA CleanupKeeps ==
  ASSUME ReconnectInv
  PROVE  /\ DOMAIN maybe_cleanup \subseteq DOMAIN entries
         /\ \A a \in DOMAIN maybe_cleanup : maybe_cleanup[a] = entries[a]
         /\ \A a \in Addresses \ DOMAIN maybe_cleanup : MayConnect(a)
<1>1. CASE CleanupDue
  <2> DEFINE kept == {x \in DOMAIN entries : Retained(entries[x])}
  <2>1. maybe_cleanup = [a \in kept |-> entries[a]]
    BY <1>1 DEF maybe_cleanup
  <2>2. \A a \in Addresses \ kept : MayConnect(a)
    BY CleanupForgetsHarmless DEF ReconnectInv
  <2> QED BY <2>1, <2>2
<1>2. CASE ~CleanupDue
  BY <1>2 DEF maybe_cleanup, ReconnectInv
<1> QED BY <1>1, <1>2

\* What an accepted connection makes of an entry.
LEMMA RecordedEntry ==
  ASSUME NEW e \in EntryType, InitialBackoff <= e.backoff
  PROVE  /\ Recorded(e) \in EntryType /\ Recorded(e).last_connect = 0
         /\ InitialBackoff <= Recorded(e).backoff /\ ~Recorded(e).blocked
<1> DEFINE b == IF e.last_connect >= MaxBackoff THEN InitialBackoff
                ELSE IF 2 * e.backoff < MaxBackoff THEN 2 * e.backoff ELSE MaxBackoff
<1>1. b \in Nat /\ InitialBackoff <= b
  BY ReconnectAssumption DEF EntryType
<1>2. Recorded(e) = [e EXCEPT !.backoff = b, !.last_connect = 0, !.blocked = FALSE,
                              !.blocked_at = 0]
  BY DEF Recorded
<1> HIDE DEF b
<1> DEFINE r == [e EXCEPT !.backoff = b, !.last_connect = 0]
<1>3. r \in EntryType /\ r.last_connect = 0 /\ r.backoff = b
  BY <1>1 DEF EntryType
<1>4. Recorded(e) = [r EXCEPT !.blocked = FALSE, !.blocked_at = 0]
  BY <1>2
<1> HIDE DEF r
<1> QED BY <1>1, <1>3, <1>4 DEF EntryType

\* What a rejection makes of it.
LEMMA RejectedEntry ==
  ASSUME NEW e \in EntryType
  PROVE  /\ Rejected(e) \in EntryType
         /\ Rejected(e).last_connect = e.last_connect /\ Rejected(e).backoff = e.backoff
         /\ e.blocked => Rejected(e).blocked
         /\ Rejected(e).blocked => Rejected(e).blocked_at = 0
<1> DEFINE n == IF e.rejections < BlockThreshold THEN e.rejections + 1 ELSE e.rejections
           block == n >= BlockThreshold \/ e.blocked
           at == IF block THEN 0 ELSE e.blocked_at
<1>1. n \in Nat /\ at \in Nat
  BY DEF EntryType
<1>2. block \in BOOLEAN /\ (e.blocked => block) /\ (block => at = 0)
  BY DEF EntryType
<1>3. Rejected(e) = [e EXCEPT !.rejections = n, !.blocked = block, !.blocked_at = at]
  BY DEF Rejected
<1> HIDE DEF n, block, at
<1> QED BY <1>1, <1>2, <1>3 DEF EntryType

\* Whoever is accepted had its time.
LEMMA AcceptedInTime ==
  ASSUME ReconnectInv, NEW a \in Addresses, ~is_blocked(a), is_allowed(a)
  PROVE  ~(apart[a] < InitialBackoff \/ (banned[a] /\ quiet[a] < BlockExpiry))
<1>1. apart[a] \in Nat /\ quiet[a] \in Nat
  BY DEF ReconnectInv
<1>2. CASE a \in DOMAIN entries
  <2>1. Knows(a)
    BY <1>2 DEF ReconnectInv
  <2>2. entries[a].last_connect >= entries[a].backoff
    BY <1>2 DEF is_allowed, Tracked
  <2>3. ~(entries[a].blocked /\ entries[a].blocked_at < BlockExpiry)
    BY <1>2 DEF is_blocked, Tracked
  <2>4. ~(apart[a] < InitialBackoff)
    BY <1>1, <2>1, <2>2, ReconnectAssumption DEF Knows, EntryType
  <2>5. ~(banned[a] /\ quiet[a] < BlockExpiry)
    BY <1>1, <2>1, <2>3, ReconnectAssumption DEF Knows, EntryType
  <2> QED BY <2>4, <2>5
<1>3. CASE a \notin DOMAIN entries
  BY <1>1, <1>3, ReconnectAssumption DEF ReconnectInv, MayConnect
<1> QED BY <1>2, <1>3

\* An accepted connection starts the address's time anew.
LEMMA AcceptKeeps ==
  ASSUME ReconnectInv, NEW a \in Addresses, Accept(a)
  PROVE  ReconnectInv'
<1> DEFINE table == maybe_cleanup
           e == IF a \in DOMAIN table THEN Recorded(table[a]) ELSE NewEntry
<1>1. entries' = With(table, a, e)
  BY DEF Accept, record, Tracked
<1>2. /\ DOMAIN table \subseteq DOMAIN entries
      /\ \A x \in DOMAIN table : table[x] = entries[x]
      /\ \A x \in Addresses \ DOMAIN table : MayConnect(x)
  BY CleanupKeeps
<1> HIDE DEF table
<1>3. /\ e \in EntryType /\ e.last_connect = 0 /\ InitialBackoff <= e.backoff
      /\ ~e.blocked
  <2>1. CASE a \in DOMAIN table
    <3>1. Knows(a) /\ table[a] = entries[a]
      BY <1>2, <2>1 DEF ReconnectInv
    <3> QED
      BY <2>1, <3>1, RecordedEntry DEF Knows
  <2>2. CASE a \notin DOMAIN table
    BY <2>2, ReconnectAssumption DEF NewEntry, EntryType
  <2> QED BY <2>1, <2>2
<1> HIDE DEF e
<1>4. NoHastyAccept'
  <2>1. ~(apart[a] < InitialBackoff \/ (banned[a] /\ quiet[a] < BlockExpiry))
    BY AcceptedInTime DEF Accept
  <2>2. ~hasty
    BY DEF ReconnectInv, NoHastyAccept
  <2> QED BY <2>1, <2>2, Zenon DEF Accept, NoHastyAccept
<1>5. /\ apart' \in [Addresses -> Nat] /\ quiet' \in [Addresses -> Nat]
      /\ banned' \in [Addresses -> BOOLEAN]
      /\ apart'[a] = 0 /\ ~banned'[a]
      /\ \A x \in Addresses \ {a} :
           apart'[x] = apart[x] /\ quiet'[x] = quiet[x] /\ banned'[x] = banned[x]
  BY DEF Accept, ReconnectInv
<1>6. /\ DOMAIN entries' = DOMAIN table \cup {a} /\ entries'[a] = e
      /\ \A x \in DOMAIN table \ {a} : entries'[x] = entries[x]
  BY <1>1, <1>2 DEF With
<1>7. DOMAIN entries' \subseteq Addresses
  BY <1>2, <1>6 DEF ReconnectInv
<1>8. ASSUME NEW x \in DOMAIN entries' PROVE Knows(x)'
  <2>1. CASE x = a
    BY <1>3, <1>5, <1>6, <2>1 DEF Knows
  <2>2. CASE x # a
    <3>1. Knows(x) /\ x \in Addresses /\ entries'[x] = entries[x]
      BY <1>2, <1>6, <2>2 DEF ReconnectInv
    <3> QED BY <1>5, <2>2, <3>1 DEF Knows
  <2> QED BY <2>1, <2>2
<1>9. ASSUME NEW x \in Addresses \ DOMAIN entries' PROVE MayConnect(x)'
  BY <1>2, <1>5, <1>6 DEF MayConnect
<1> QED
  BY <1>4, <1>5, <1>7, <1>8, <1>9 DEF ReconnectInv

\* A rejection of a tracked address: its time runs on, a block is renewed.
LEMMA RejectKeeps ==
  ASSUME ReconnectInv, NEW a \in DOMAIN entries, record_rejection(a),
         quiet' = [quiet EXCEPT ![a] = 0], UNCHANGED <<apart, hasty>>,
         banned' \in [Addresses -> BOOLEAN],
         banned'[a] => banned[a] \/ entries'[a].blocked,
         \A x \in Addresses \ {a} : banned'[x] = banned[x]
  PROVE  ReconnectInv'
<1>1. a \in Addresses /\ Knows(a)
  BY DEF ReconnectInv
<1>2. /\ DOMAIN entries' = DOMAIN entries /\ entries'[a] = Rejected(entries[a])
      /\ \A x \in DOMAIN entries \ {a} : entries'[x] = entries[x]
  BY DEF record_rejection, With, Tracked
<1>3. /\ Rejected(entries[a]) \in EntryType
      /\ Rejected(entries[a]).last_connect = entries[a].last_connect
      /\ Rejected(entries[a]).backoff = entries[a].backoff
      /\ entries[a].blocked => Rejected(entries[a]).blocked
      /\ Rejected(entries[a]).blocked => Rejected(entries[a]).blocked_at = 0
  BY <1>1, RejectedEntry DEF Knows
<1>4. /\ quiet' \in [Addresses -> Nat] /\ quiet'[a] = 0
      /\ \A x \in Addresses \ {a} : quiet'[x] = quiet[x]
  BY <1>1 DEF ReconnectInv
<1>5. apart[a] \in Nat
  BY <1>1 DEF ReconnectInv
<1>6. Knows(a)'
  BY <1>1, <1>2, <1>3, <1>4, <1>5 DEF Knows
<1>7. ASSUME NEW x \in DOMAIN entries' PROVE Knows(x)'
  <2>1. CASE x # a
    <3>1. Knows(x) /\ x \in Addresses
      BY <1>2 DEF ReconnectInv
    <3> QED BY <1>2, <1>4, <2>1, <3>1 DEF Knows
  <2> QED BY <1>6, <2>1
<1>8. ASSUME NEW x \in Addresses \ DOMAIN entries' PROVE MayConnect(x)'
  BY <1>1, <1>2, <1>4 DEF MayConnect, ReconnectInv
<1> QED
  BY <1>2, <1>4, <1>7, <1>8 DEF ReconnectInv, NoHastyAccept

\* Time passes for everything alike.
LEMMA TickKeeps ==
  ASSUME ReconnectInv, ReconnectTick
  PROVE  ReconnectInv'
<1>1. \A n \in Nat : Older(n) \in Nat /\ n <= Older(n)
  BY ReconnectAssumption DEF Older
<1>2. \A n, k \in Nat : n <= k => Older(n) <= Older(k)
  BY ReconnectAssumption DEF Older
<1>3. /\ DOMAIN entries' = DOMAIN entries
      /\ apart' = [a \in Addresses |-> Older(apart[a])]
      /\ quiet' = [a \in Addresses |-> Older(quiet[a])]
      /\ banned' = banned /\ hasty' = hasty
  BY DEF ReconnectTick
<1>4. apart' \in [Addresses -> Nat] /\ quiet' \in [Addresses -> Nat]
  BY <1>1, <1>3 DEF ReconnectInv
<1>5. ASSUME NEW a \in DOMAIN entries' PROVE Knows(a)'
  <2>1. a \in Addresses /\ Knows(a) /\ apart[a] \in Nat /\ quiet[a] \in Nat
    BY <1>3 DEF ReconnectInv
  <2>2. entries'[a] = [entries[a] EXCEPT !.last_connect = Older(entries[a].last_connect),
                         !.blocked_at = IF entries[a].blocked THEN Older(entries[a].blocked_at)
                                        ELSE entries[a].blocked_at]
    BY <1>3 DEF ReconnectTick
  <2>3. /\ entries'[a] \in EntryType
        /\ entries'[a].last_connect = Older(entries[a].last_connect)
        /\ entries'[a].backoff = entries[a].backoff
        /\ entries'[a].blocked = entries[a].blocked
        /\ entries[a].blocked => entries'[a].blocked_at = Older(entries[a].blocked_at)
    BY <1>1, <2>1, <2>2 DEF Knows, EntryType
  <2>4. entries[a].blocked_at \in Nat /\ entries[a].last_connect \in Nat
    BY <2>1 DEF Knows, EntryType
  <2> QED
    BY <1>2, <1>3, <2>1, <2>3, <2>4 DEF Knows
<1>6. ASSUME NEW a \in Addresses \ DOMAIN entries' PROVE MayConnect(a)'
  <2>1. MayConnect(a) /\ apart[a] \in Nat /\ quiet[a] \in Nat
    BY <1>3 DEF ReconnectInv
  <2>2. apart[a] <= apart'[a] /\ quiet[a] <= quiet'[a] /\ apart'[a] \in Nat /\ quiet'[a] \in Nat
    BY <1>1, <1>3, <2>1
  <2> QED BY <1>3, <2>1, <2>2, ReconnectAssumption DEF MayConnect
<1> QED
  BY <1>3, <1>4, <1>5, <1>6 DEF ReconnectInv, NoHastyAccept

\* No connection is accepted before its time, although the cleanup forgets
\* entries: it forgets only what no longer matters (maybe_cleanup,
\* BackboneServer's accept loop).
THEOREM AcceptsInTime == Spec => []NoHastyAccept
<1>1. Init => ReconnectInv
  BY ReconnectAssumption DEF Init, ReconnectInit, ReconnectInv, NoHastyAccept, MayConnect
<1>2. ReconnectInv /\ [Next]_vars => ReconnectInv'
  <2> SUFFICES ASSUME ReconnectInv, [Next]_vars PROVE ReconnectInv'
    OBVIOUS
  <2>1. ASSUME NEW a \in Addresses, RejectBlocked(a) PROVE ReconnectInv'
    <3>1. a \in DOMAIN entries
      BY <2>1 DEF RejectBlocked, is_blocked, Tracked
    <3> QED BY <2>1, <3>1, RejectKeeps DEF RejectBlocked, ReconnectInv
  <2>2. ASSUME NEW a \in Addresses, RejectEarly(a) PROVE ReconnectInv'
    <3>1. a \in DOMAIN entries
      BY <2>2 DEF RejectEarly, is_allowed, Tracked
    <3>2. entries'[a].blocked \in BOOLEAN
      <4>1. Knows(a) /\ entries'[a] = Rejected(entries[a])
        BY <2>2, <3>1 DEF RejectEarly, record_rejection, With, Tracked, ReconnectInv
      <4> QED BY <4>1 DEF Rejected, Knows, EntryType
    <3>3. /\ banned' \in [Addresses -> BOOLEAN]
          /\ banned'[a] => banned[a] \/ entries'[a].blocked
          /\ \A x \in Addresses \ {a} : banned'[x] = banned[x]
      BY <2>2, <3>2 DEF RejectEarly, ReconnectInv
    <3> QED BY <2>2, <3>1, <3>3, RejectKeeps DEF RejectEarly
  <2>3. ASSUME NEW a \in Addresses, Accept(a) PROVE ReconnectInv'
    BY <2>3, AcceptKeeps
  <2>4. CASE ReconnectTick
    BY <2>4, TickKeeps
  <2>5. CASE UNCHANGED reconnectVars
    BY <2>5 DEF ReconnectInv, NoHastyAccept, Knows, MayConnect, reconnectVars
  <2> QED
    BY <2>1, <2>2, <2>3, <2>4, <2>5
    DEF Next, ReconnectStep, ReconnectNext, PacerStep, IngressStep, ControlStep, vars
<1>3. ReconnectInv => NoHastyAccept
  BY DEF ReconnectInv
<1> QED
  BY <1>1, <1>2, <1>3, PTL DEF Spec

=============================================================================
