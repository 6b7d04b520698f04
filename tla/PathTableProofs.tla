-------------------------- MODULE PathTableProofs --------------------------
(***************************************************************************)
(* What the path table promises, for any number of destinations, next hops *)
(* and interfaces, all emission times and every limit on the record.       *)
(*                                                                         *)
(* The record of emissions is coherent (EmissionsSafe), and both action    *)
(* properties follow from it: a copy of the installed emission is          *)
(* recognised as one, and forgetting the oldest record never forgets the   *)
(* newest emission.                                                        *)
(***************************************************************************)
EXTENDS PathTable, TLAPS, NaturalsInduction, WellFoundedInduction

\* EmissionsRecorded, for one entry.
Coherent(e) ==
  /\ e.blob \in Recorded(e)
  /\ Len(e.random_blobs) <= MAX_RANDOM_BLOBS
  /\ \A j, k \in 1..Len(e.random_blobs) : j # k => e.random_blobs[j] # e.random_blobs[k]

IInv == TypeOK /\ \A d \in DOMAIN map : Coherent(map[d])

-----------------------------------------------------------------------------
(* The record of emissions *)

\* What is recorded of a new emission: it comes last, and what is forgotten is
\* the oldest.
LEMMA NewBlobRecorded ==
  ASSUME NEW e \in PathEntries, Coherent(e), NEW b \in Blobs, b \notin Recorded(e)
  PROVE  LET r == updated_random_blobs(e, b) IN
         /\ r \in Seq(Blobs) /\ Len(r) <= MAX_RANDOM_BLOBS
         /\ \E k \in 1..Len(r) : r[k] = b
         /\ \A j, k \in 1..Len(r) : j # k => r[j] # r[k]
<1> DEFINE old == e.random_blobs
           N == Len(old)
           all == Append(old, b)
           excess == IF Len(all) > MAX_RANDOM_BLOBS THEN Len(all) - MAX_RANDOM_BLOBS ELSE 0
           r == SubSeq(all, excess + 1, Len(all))
           M == N + 1 - excess
<1>1. old \in Seq(Blobs) /\ N \in Nat
  BY DEF PathEntries
<1>2. /\ all \in Seq(Blobs) /\ Len(all) = N + 1
      /\ \A k \in 1..N : all[k] = old[k]
      /\ all[N + 1] = b
  BY <1>1
<1>3. updated_random_blobs(e, b) = r
  BY Zenon DEF updated_random_blobs
<1>4. MAX_RANDOM_BLOBS \in Nat \ {0}
  BY PathTableAssumption
<1>5. /\ excess \in 0..N /\ M \in Nat \ {0} /\ M <= MAX_RANDOM_BLOBS
      /\ excess + M = N + 1
  BY <1>1, <1>2, <1>4
<1>6. \A j, k \in 1..(N + 1) : j # k => all[j] # all[k]
  <2>1. \A k \in 1..N : old[k] # b
    BY DEF Recorded
  <2>2. \A j, k \in 1..N : j # k => old[j] # old[k]
    BY DEF Coherent
  <2> HIDE DEF all, N, old
  <2> QED BY <1>1, <1>2, <2>1, <2>2
<1> HIDE DEF all, excess, N, old
<1>7. r \in Seq(Blobs) /\ Len(r) = M /\ \A k \in 1..M : r[k] = all[excess + k]
  BY <1>1, <1>2, <1>5
<1> HIDE DEF r, M
<1>8. \A j, k \in 1..M : j # k => r[j] # r[k]
  BY <1>1, <1>5, <1>6, <1>7
<1>9. r[M] = b /\ M \in 1..Len(r)
  BY <1>2, <1>5, <1>7
<1> QED
  BY <1>3, <1>5, <1>7, <1>8, <1>9

\* A copy of a recorded emission leaves the record as it is.
LEMMA KnownBlobKept ==
  ASSUME NEW e \in PathEntries, Coherent(e), NEW b \in Recorded(e)
  PROVE  updated_random_blobs(e, b) = e.random_blobs
<1> DEFINE old == e.random_blobs
<1>1. old \in Seq(Blobs) /\ Len(old) \in Nat /\ Len(old) <= MAX_RANDOM_BLOBS
  BY DEF PathEntries, Coherent
<1>2. updated_random_blobs(e, b) = SubSeq(old, 1, Len(old))
  <2> DEFINE excess == IF Len(old) > MAX_RANDOM_BLOBS THEN Len(old) - MAX_RANDOM_BLOBS ELSE 0
  <2>1. updated_random_blobs(e, b) = SubSeq(old, excess + 1, Len(old))
    BY Zenon DEF updated_random_blobs
  <2>2. excess + 1 = 1
    BY <1>1, PathTableAssumption
  <2> QED BY <2>1, <2>2
<1> HIDE DEF old
<1>3. SubSeq(old, 1, Len(old)) = old
  BY <1>1
<1> QED BY <1>2, <1>3 DEF old

\* The interfaces' rates are numbers.
LEMMA RatesAreNumbers ==
  ASSUME NEW i \in Interfaces
  PROVE  IfaceGravity(i) \in Int /\ IfaceBitrate(i) \in Int
BY PathTableAssumption DEF IfaceGravity, IfaceBitrate

\* An announce makes a coherent entry.
LEMMA NewEntryCoherent ==
  ASSUME IInv, NEW a \in Announces
  PROVE  NewEntry(map, a) \in PathEntries /\ Coherent(NewEntry(map, a))
<1> DEFINE r == IF a.destination \in DOMAIN map
                THEN updated_random_blobs(map[a.destination], a.blob) ELSE <<a.blob>>
<1>1. /\ a.blob \in Blobs /\ a.hops \in Hops /\ a.iface \in Interfaces
      /\ a.via \in Transports \cup Destinations
  BY DEF Announces
<1>2. /\ r \in Seq(Blobs) /\ Len(r) <= MAX_RANDOM_BLOBS
      /\ \E k \in 1..Len(r) : r[k] = a.blob
      /\ \A j, k \in 1..Len(r) : j # k => r[j] # r[k]
  <2>1. CASE a.destination \notin DOMAIN map
    BY <1>1, <2>1, PathTableAssumption
  <2>2. CASE a.destination \in DOMAIN map
    <3>1. map[a.destination] \in PathEntries /\ Coherent(map[a.destination])
      BY <2>2 DEF IInv, TypeOK
    <3>2. CASE a.blob \in Recorded(map[a.destination])
      <4>1. r = map[a.destination].random_blobs
        BY <2>2, <3>1, <3>2, KnownBlobKept
      <4> HIDE DEF r
      <4> QED BY <3>1, <3>2, <4>1 DEF Coherent, PathEntries, Recorded
    <3>3. CASE a.blob \notin Recorded(map[a.destination])
      <4>1. r = updated_random_blobs(map[a.destination], a.blob)
        BY <2>2
      <4> HIDE DEF r
      <4> QED BY <1>1, <3>1, <3>3, <4>1, NewBlobRecorded
    <3> QED BY <3>2, <3>3
  <2> QED BY <2>1, <2>2
<1>3. NewEntry(map, a) =
        [received_from |-> a.via, hops |-> a.hops, iface |-> a.iface,
         gravity |-> IfaceGravity(a.iface), bitrate |-> IfaceBitrate(a.iface),
         expired |-> FALSE, blob |-> a.blob, random_blobs |-> r, state |-> "Unknown"]
  BY DEF NewEntry
<1> HIDE DEF r
<1>4. NewEntry(map, a) \in PathEntries
  BY <1>1, <1>2, <1>3, RatesAreNumbers DEF PathEntries, PathStates
<1>5. NewEntry(map, a).blob = a.blob /\ NewEntry(map, a).random_blobs = r
  BY <1>3
<1>6. Coherent(NewEntry(map, a))
  BY <1>2, <1>5 DEF Coherent, Recorded
<1> QED BY <1>4, <1>6

-----------------------------------------------------------------------------
(* The steps *)

\* A table of which some entries remain.
LEMMA FewerEntries ==
  ASSUME IInv, NEW D, map' = Keep(map, D), UNCHANGED active
  PROVE  IInv'
BY DEF Keep, IInv, TypeOK, Coherent, Recorded

\* A table in which one entry changed, but neither its emission nor its record.
LEMMA SameRecord ==
  ASSUME IInv, NEW d \in DOMAIN map, NEW e \in PathEntries,
         e.blob = map[d].blob, e.random_blobs = map[d].random_blobs,
         map' = [map EXCEPT ![d] = e], UNCHANGED active
  PROVE  IInv'
<1>1. Coherent(e)
  BY DEF IInv, Coherent, Recorded
<1>2. DOMAIN map' = DOMAIN map /\ \A x \in DOMAIN map : map'[x] = IF x = d THEN e ELSE map[x]
  OBVIOUS
<1>3. TypeOK'
  BY <1>2 DEF IInv, TypeOK
<1>4. \A x \in DOMAIN map' : Coherent(map'[x])
  BY <1>1, <1>2 DEF IInv
<1> QED
  BY <1>3, <1>4 DEF IInv, Coherent, Recorded

\* Every step keeps the table's entries coherent.
LEMMA StepKeepsInv == IInv /\ [Next]_vars => IInv'
<1> SUFFICES ASSUME IInv, [Next]_vars PROVE IInv'
  OBVIOUS
<1>1. ASSUME NEW a \in Announces, handle_announce(a) PROVE IInv'
  <2>1. CASE would_update_path(map, a)
    <3>1. NewEntry(map, a) \in PathEntries /\ Coherent(NewEntry(map, a))
      BY NewEntryCoherent
    <3>2. map' = Put(map, a.destination, NewEntry(map, a)) /\ active' = active
      BY <1>1, <2>1 DEF handle_announce, Install
    <3>3. a.destination \in Destinations
      BY DEF Announces
    <3>4. TypeOK'
      BY <3>1, <3>2, <3>3 DEF Put, IInv, TypeOK
    <3>5. \A d \in DOMAIN map' : Coherent(map'[d])
      BY <3>1, <3>2 DEF Put, IInv
    <3> QED BY <3>4, <3>5 DEF IInv, Coherent, Recorded
  <2>2. CASE ~would_update_path(map, a)
    BY <1>1, <2>2 DEF handle_announce, Install, IInv, TypeOK, Coherent, Recorded
  <2> QED BY <2>1, <2>2
<1>2. CASE remove_stale
  BY <1>2, FewerEntries DEF remove_stale, RemoveStale
<1>3. ASSUME NEW d \in Destinations, remove(d) PROVE IInv'
  BY <1>3, FewerEntries DEF remove
<1>4. ASSUME NEW via, drop_all_via(via) PROVE IInv'
  BY <1>4, FewerEntries DEF drop_all_via, DropVia
<1>5. ASSUME NEW d \in Destinations, refresh(d) PROVE IInv'
  <2>1. map[d] \in PathEntries /\ d \in DOMAIN map
    BY <1>5 DEF refresh, IInv, TypeOK
  <2> DEFINE e == [map[d] EXCEPT !.expired = FALSE]
  <2>2. e \in PathEntries /\ e.blob = map[d].blob /\ e.random_blobs = map[d].random_blobs
    BY <2>1 DEF PathEntries
  <2>3. map' = [map EXCEPT ![d] = e] /\ active' = active
    BY <1>5, <2>1 DEF refresh, Refresh
  <2> QED BY <2>1, <2>2, <2>3, SameRecord
<1>6. ASSUME NEW d \in Destinations, Expire(d) PROVE IInv'
  <2>1. map[d] \in PathEntries /\ d \in DOMAIN map
    BY <1>6 DEF Expire, IInv, TypeOK
  <2> DEFINE e == [map[d] EXCEPT !.expired = TRUE]
  <2>2. e \in PathEntries /\ e.blob = map[d].blob /\ e.random_blobs = map[d].random_blobs
    BY <2>1 DEF PathEntries
  <2>3. map' = [map EXCEPT ![d] = e] /\ active' = active
    BY <1>6, <2>1 DEF Expire
  <2> QED BY <2>1, <2>2, <2>3, SameRecord
<1>7. ASSUME NEW d \in Destinations, mark_unresponsive(d) PROVE IInv'
  <2>1. CASE d \in DOMAIN map
    <3>1. map[d] \in PathEntries
      BY <2>1 DEF IInv, TypeOK
    <3> DEFINE e == [map[d] EXCEPT !.state = "Unresponsive"]
    <3>2. e \in PathEntries /\ e.blob = map[d].blob /\ e.random_blobs = map[d].random_blobs
      BY <3>1 DEF PathEntries, PathStates
    <3>3. map' = [map EXCEPT ![d] = e] /\ active' = active
      BY <1>7, <2>1 DEF mark_unresponsive, MarkUnresponsive
    <3> QED BY <2>1, <3>2, <3>3, SameRecord
  <2>2. CASE d \notin DOMAIN map
    BY <1>7, <2>2 DEF mark_unresponsive, MarkUnresponsive, IInv, TypeOK, Coherent, Recorded
  <2> QED BY <2>1, <2>2
<1>8. ASSUME NEW d \in Destinations, NEW h \in Hops, rebalance_hops(d, h) PROVE IInv'
  <2>1. CASE d \in DOMAIN map /\ h < map[d].hops
    <3>1. map[d] \in PathEntries
      BY <2>1 DEF IInv, TypeOK
    <3> DEFINE e == [map[d] EXCEPT !.hops = h]
    <3>2. e \in PathEntries /\ e.blob = map[d].blob /\ e.random_blobs = map[d].random_blobs
      BY <3>1 DEF PathEntries
    <3>3. map' = [map EXCEPT ![d] = e] /\ active' = active
      BY <1>8, <2>1 DEF rebalance_hops, RebalanceHops
    <3> QED BY <2>1, <3>2, <3>3, SameRecord
  <2>2. CASE ~(d \in DOMAIN map /\ h < map[d].hops)
    BY <1>8, <2>2 DEF rebalance_hops, RebalanceHops, IInv, TypeOK, Coherent, Recorded
  <2> QED BY <2>1, <2>2
<1>9. ASSUME NEW i \in Interfaces, InterfaceDown(i) \/ InterfaceUp(i) PROVE IInv'
  BY <1>9 DEF InterfaceDown, InterfaceUp, IInv, TypeOK, Coherent, Recorded
<1>10. CASE UNCHANGED vars
  BY <1>10 DEF vars, IInv, TypeOK, Coherent, Recorded
<1> QED
  BY <1>1, <1>2, <1>3, <1>4, <1>5, <1>6, <1>7, <1>8, <1>9, <1>10 DEF Next

\* The table starts empty.
LEMMA InitHasInv == Init => IInv
BY DEF Init, IInv, TypeOK

LEMMA Invariance == Spec => []IInv
BY InitHasInv, StepKeepsInv, PTL DEF Spec

\* The table holds path entries only, and what an entry records about emissions
\* is coherent (updated_random_blobs, on which should_accept relies).
THEOREM EmissionsSafe == Spec => [](TypeOK /\ EmissionsRecorded)
<1>1. IInv => TypeOK /\ EmissionsRecorded
  BY DEF IInv, Coherent, EmissionsRecorded
<1> QED BY <1>1, Invariance, PTL

-----------------------------------------------------------------------------
(* What follows for announces *)

\* A copy of the installed emission is recognised by the record, so only a
\* closer path or a preferred interface replaces the path (should_accept).
THEOREM CopiesConverge == Spec => ConvergesOnClosest
<1> DEFINE Step(a) ==
      (/\ a.destination \in DOMAIN map
       /\ a.blob = map[a.destination].blob
       /\ map' = Install(map, a))
      => LET old == map[a.destination]
             new == map'[a.destination]
         IN  /\ new.hops <= a.hops /\ new.hops <= old.hops
             /\ new.hops = old.hops => new.gravity >= old.gravity
<1>1. ASSUME IInv, NEW a \in Announces PROVE Step(a)
  <2> SUFFICES ASSUME a.destination \in DOMAIN map, a.blob = map[a.destination].blob,
                      map' = Install(map, a)
               PROVE  LET old == map[a.destination]
                          new == map'[a.destination]
                      IN  /\ new.hops <= a.hops /\ new.hops <= old.hops
                          /\ new.hops = old.hops => new.gravity >= old.gravity
    OBVIOUS
  <2> DEFINE old == map[a.destination]
             new == map'[a.destination]
  <2>1. old \in PathEntries /\ a.blob \in Recorded(old)
    BY <1>1 DEF IInv, TypeOK, Coherent
  <2>2. /\ old.hops \in Nat /\ a.hops \in Nat /\ old.gravity \in Int
        /\ IfaceGravity(a.iface) \in Int
    BY <2>1, RatesAreNumbers, PathTableAssumption DEF PathEntries, Hops, Announces
  <2>3. would_update_path(map, a) <=> AcceptRecorded(old, a)
    BY <2>1 DEF would_update_path, should_accept
  <2>4. CASE AcceptRecorded(old, a)
    <3>1. new = NewEntry(map, a)
      BY <2>3, <2>4 DEF Install, Put
    <3>2. new.hops = a.hops /\ new.gravity = IfaceGravity(a.iface)
      BY <3>1 DEF NewEntry
    <3> HIDE DEF old, new
    <3> QED BY <2>2, <2>4, <3>2 DEF AcceptRecorded, prefers_interface, old, new
  <2>5. CASE ~AcceptRecorded(old, a)
    <3>1. new = old
      BY <2>3, <2>5 DEF Install
    <3>2. ~(a.hops < old.hops)
      BY <2>5 DEF AcceptRecorded
    <3> HIDE DEF old, new
    <3> QED BY <2>2, <3>1, <3>2 DEF old, new
  <2> QED BY <2>4, <2>5
<1>2. IInv /\ [Next]_vars => [\A a \in Announces : Step(a)]_vars
  BY <1>1
<1> QED
  BY <1>2, Invariance, PTL DEF Spec, ConvergesOnClosest

\* Among finitely many numbers there is a greatest; shown for the shortest
\* prefix that has none.
LEMMA GreatestTime ==
  ASSUME NEW N \in Nat \ {0}, NEW t, \A k \in 1..N : t[k] \in Nat
  PROVE  \E j \in 1..N : \A k \in 1..N : t[k] <= t[j]
<1> DEFINE Has(n) == \E j \in 1..n : \A k \in 1..n : t[k] <= t[j]
           S == {n \in 1..N : ~Has(n)}
           R == OpToRel(<, Nat)
<1> SUFFICES ASSUME ~Has(N) PROVE FALSE
  OBVIOUS
<1>1. N \in S /\ S \subseteq Nat
  OBVIOUS
<1>2. IsWellFoundedOn(R, Nat)
  BY NatLessThanWellFounded
<1>3. PICK n \in S : \A m \in S : ~(<<m, n>> \in R)
  <2> HIDE DEF S, R
  <2> QED BY <1>1, <1>2, WFMin
<1>4. \A y, z \in Nat : y < z => <<y, z>> \in R
  BY DEF OpToRel
<1> HIDE DEF R
<1>5. n \in 1..N /\ ~Has(n)
  BY <1>3
<1>6. n # 1
  BY <1>5
<1>7. n - 1 \in 1..N /\ n - 1 < n
  BY <1>5, <1>6
<1>8. Has(n - 1)
  <2> HIDE DEF Has
  <2>1. n - 1 \notin S
    <3>1. <<n - 1, n>> \in R
      BY <1>4, <1>5, <1>7
    <3> QED BY <1>3, <3>1
  <2> QED BY <1>7, <2>1
<1>9. PICK j \in 1..(n - 1) : \A k \in 1..(n - 1) : t[k] <= t[j]
  BY <1>8
<1>10. t[n] \in Nat /\ t[j] \in Nat /\ \A k \in 1..(n - 1) : t[k] \in Nat
  BY <1>5, <1>7, <1>9
<1>11. j \in 1..n /\ n \in 1..n /\ \A k \in 1..n : k \in 1..(n - 1) \/ k = n
  BY <1>5, <1>6
<1>12. CASE t[n] <= t[j]
  <2>1. \A k \in 1..n : t[k] <= t[j]
    BY <1>9, <1>11, <1>12
  <2> QED BY <1>5, <1>11, <2>1
<1>13. CASE ~(t[n] <= t[j])
  <2>1. \A k \in 1..n : t[k] <= t[n]
    <3> TAKE k \in 1..n
    <3>1. CASE k = n
      BY <1>10, <3>1
    <3>2. CASE k \in 1..(n - 1)
      BY <1>9, <1>10, <1>13, <3>2
    <3> QED BY <1>11, <3>1, <3>2
  <2> QED BY <1>5, <1>11, <2>1
<1> QED BY <1>12, <1>13

\* timebase is the greatest recorded time.
LEMMA TimebaseIsGreatest ==
  ASSUME NEW e \in PathEntries, Coherent(e)
  PROVE  /\ timebase(e) \in Nat
         /\ \A u \in EmissionTimes(e) : u \in Nat /\ u <= timebase(e)
<1> DEFINE s == e.random_blobs
           t == [k \in 1..Len(s) |-> s[k].time]
<1>1. s \in Seq(Blobs) /\ Len(s) \in Nat \ {0}
  BY DEF PathEntries, Coherent, Recorded
<1>2. \A k \in 1..Len(s) : s[k].time \in Nat
  <2> HIDE DEF s
  <2>1. \A k \in 1..Len(s) : s[k] \in Blobs
    BY <1>1
  <2>2. \A b \in Blobs : b.time \in Nat
    BY PathTableAssumption DEF Blobs
  <2> QED BY <2>1, <2>2
<1>3. EmissionTimes(e) = {s[k].time : k \in 1..Len(s)}
  BY DEF EmissionTimes, Recorded
<1> HIDE DEF s
<1>4. PICK j \in 1..Len(s) : \A k \in 1..Len(s) : t[k] <= t[j]
  <2>1. \A k \in 1..Len(s) : t[k] \in Nat
    BY <1>2
  <2> HIDE DEF t
  <2> QED BY <1>1, <2>1, GreatestTime
<1>5. s[j].time \in EmissionTimes(e) /\ \A u \in EmissionTimes(e) : u <= s[j].time
  BY <1>3, <1>4
<1>6. timebase(e) \in EmissionTimes(e) /\ \A u \in EmissionTimes(e) : u <= timebase(e)
  BY <1>5 DEF timebase
<1> QED BY <1>2, <1>3, <1>6

\* An entry that replaces one that has not expired has an emission no older.
LEMMA AnnounceNotOlder ==
  ASSUME IInv, NEW a \in Announces, a.destination \in DOMAIN map,
         would_update_path(map, a), ~map[a.destination].expired
  PROVE  timebase(NewEntry(map, a)) >= timebase(map[a.destination])
<1> DEFINE old == map[a.destination]
           new == NewEntry(map, a)
<1>1. old \in PathEntries /\ Coherent(old)
  BY DEF IInv, TypeOK
<1>2. new \in PathEntries /\ Coherent(new) /\ new.blob = a.blob
  BY NewEntryCoherent DEF NewEntry
<1>3. timebase(old) \in Nat /\ timebase(new) \in Nat
  BY <1>1, <1>2, TimebaseIsGreatest
<1>4. CASE a.blob \in Recorded(old)
  <2>1. new.random_blobs = old.random_blobs
    BY <1>1, <1>4, KnownBlobKept DEF NewEntry
  <2>2. EmissionTimes(new) = EmissionTimes(old)
    BY <2>1, Zenon DEF EmissionTimes, Recorded
  <2>3. timebase(new) = timebase(old)
    BY <2>2 DEF timebase
  <2> QED BY <1>3, <2>3
<1>5. CASE a.blob \notin Recorded(old)
  <2>1. a.blob.time > timebase(old) \/ a.blob.time = timebase(old)
    BY <1>5 DEF would_update_path, should_accept, AcceptCloser, AcceptLonger
  <2>2. a.blob.time \in EmissionTimes(new)
    BY <1>2 DEF Coherent, EmissionTimes
  <2>3. a.blob.time \in Nat /\ a.blob.time <= timebase(new)
    BY <1>2, <2>2, TimebaseIsGreatest
  <2> HIDE DEF old, new
  <2> QED BY <1>3, <2>1, <2>3 DEF old, new
<1> QED BY <1>4, <1>5

\* While a path has not expired, the newest emission its destination is known
\* by never goes back (should_accept and updated_random_blobs together).
THEOREM TimebaseMonotone == Spec => TimebaseNeverRegresses
<1> DEFINE Step(d) == Stays(d) /\ ~map[d].expired => timebase(map'[d]) >= timebase(map[d])
<1>1. ASSUME IInv, NEW d \in Destinations, d \in DOMAIN map,
             map'[d].random_blobs = map[d].random_blobs
      PROVE  Step(d)
  <2>1. EmissionTimes(map'[d]) = EmissionTimes(map[d])
    BY <1>1, Zenon DEF EmissionTimes, Recorded
  <2>2. timebase(map'[d]) = timebase(map[d])
    BY <2>1 DEF timebase
  <2>3. timebase(map[d]) \in Nat
    BY <1>1, TimebaseIsGreatest DEF IInv, TypeOK
  <2> QED BY <2>2, <2>3
<1>2. ASSUME IInv, Next, NEW d \in Destinations, Stays(d), ~map[d].expired
      PROVE  timebase(map'[d]) >= timebase(map[d])
  <2>0. d \in DOMAIN map /\ d \in DOMAIN map' /\ map[d] \in PathEntries
    BY <1>2 DEF Stays, IInv, TypeOK
  <2> SUFFICES ASSUME ~(map'[d].random_blobs = map[d].random_blobs) PROVE Step(d)
    BY <1>1, <1>2, <2>0
  <2>1. PICK a \in Announces : handle_announce(a)
    <3>1. ~remove_stale /\ (\A x : ~remove(x)) /\ (\A via : ~drop_all_via(via))
      BY <2>0 DEF remove_stale, RemoveStale, remove, drop_all_via, DropVia, Keep
    <3>2. \A x \in Destinations : ~refresh(x) /\ ~Expire(x) /\ ~mark_unresponsive(x)
      <4> TAKE x \in Destinations
      <4>1. \A y : ~(map' = [map EXCEPT ![x].expired = y]) /\ ~(map' = [map EXCEPT ![x].state = y])
        BY <2>0 DEF PathEntries
      <4> QED
        BY <2>0, <4>1 DEF refresh, Refresh, Expire, mark_unresponsive, MarkUnresponsive
    <3>3. \A x \in Destinations, h \in Hops : ~rebalance_hops(x, h)
      <4> TAKE x \in Destinations, h \in Hops
      <4>1. ~(map' = [map EXCEPT ![x].hops = h])
        BY <2>0 DEF PathEntries
      <4> QED BY <2>0, <4>1 DEF rebalance_hops, RebalanceHops
    <3>4. \A i \in Interfaces : ~InterfaceDown(i) /\ ~InterfaceUp(i)
      BY <2>0 DEF InterfaceDown, InterfaceUp
    <3> QED BY <1>2, <3>1, <3>2, <3>3, <3>4 DEF Next
  <2>2. would_update_path(map, a) /\ a.destination = d /\ map'[d] = NewEntry(map, a)
    BY <2>0, <2>1 DEF handle_announce, Install, Put
  <2> QED BY <1>2, <2>0, <2>2, AnnounceNotOlder
<1>3. IInv /\ [Next]_vars => [\A d \in Destinations : Step(d)]_vars
  BY <1>2
<1> QED
  BY <1>3, Invariance, PTL DEF Spec, TimebaseNeverRegresses

=============================================================================
