--------------------------- MODULE IngressLimiter ---------------------------
(***************************************************************************)
(* The burst limiter of one interface for announces or for path requests   *)
(* (iface.rs): a rate above the threshold starts a burst, in which what    *)
(* arrives is dropped.  Samples are kept as ages.                          *)
(***************************************************************************)
EXTENDS Naturals, Sequences, SequencesExt

CONSTANTS
  Samples,       \* INGRESS_FREQ_SAMPLES
  Decay,         \* INGRESS_FREQ_DECAY_S
  Hold,          \* INGRESS_BURST_HOLD_S
  NewThreshold,  \* arrivals per tick of a young interface
  Threshold,     \* and of one that is INGRESS_NEW_TIME_S old
  CalmGap        \* environment: the distance of arrivals after the flood

ASSUME IngressAssumption ==
  /\ Samples \in Nat \ {0, 1} /\ Decay \in Nat /\ Hold \in Nat
  /\ NewThreshold \in Nat /\ Threshold \in Nat /\ CalmGap \in Nat \ {0}

VARIABLES
  deque,      \* ages of the samples, oldest first
  burst,      \* ingress_burst_active
  activated,  \* how long ago, up to Hold + 1
  mature,     \* the interface is older than INGRESS_NEW_TIME_S
  calm,       \* the flood is over
  gap         \* time since the last arrival

ingressVars == <<deque, burst, activated, mature, calm, gap>>

IngressInit ==
  /\ deque = <<>> /\ burst = FALSE /\ activated = 0
  /\ mature = FALSE /\ calm = FALSE /\ gap = 0

\* ingress_freq first drops what is older than the decay window, except for
\* the last sample.
Decayed(q) ==
  LET young == SelectSeq(q, LAMBDA age : age <= Decay)
  IN  IF young = <<>> /\ q # <<>> THEN <<Last(q)>> ELSE young

Span(q) == q[1]

\* ingress_freq: samples over the age of the oldest, 0 for less than two or
\* for a span of nothing; compared with ingress_threshold.
Rated(q) == Len(q) >= 2 /\ Span(q) > 0

ingress_threshold == IF mature THEN Threshold ELSE NewThreshold

Above(q) == Rated(q) /\ Len(q) > ingress_threshold * Span(q)

Below(q) == IF Rated(q) THEN Len(q) < ingress_threshold * Span(q) ELSE ingress_threshold > 0

StillActiveRefreshed == 0

\* burst_activated keeps the start of the burst.
StillActive == activated

\* What ingress_record_impl and ingress_evaluate_impl decide from the samples.
Evaluated(q) ==
  /\ deque' = q
  /\ CASE burst /\ Below(q) /\ activated > Hold /\ Len(q) >= 2 ->
            burst' = FALSE /\ UNCHANGED activated
       [] ~burst /\ Above(q) -> burst' = TRUE /\ activated' = 0
       [] OTHER -> UNCHANGED burst /\ activated' = StillActive

\* ingress_record_announce, ingress_record_pr.
ingress_record ==
  /\ calm => gap >= CalmGap
  /\ LET pushed == Append(deque, 0)
     IN  Evaluated(Decayed(IF Len(pushed) > Samples THEN Tail(pushed) ELSE pushed))
  /\ gap' = 0
  /\ UNCHANGED <<mature, calm>>

\* ingress_evaluate_all, in the transport's periodic cleanup.
ingress_evaluate ==
  /\ Evaluated(Decayed(deque))
  /\ UNCHANGED <<mature, calm, gap>>

\* In the calm the next arrival comes when its time has come.
IngressTick ==
  /\ calm => gap < CalmGap
  /\ deque' = [i \in DOMAIN deque |-> IF deque[i] > Decay THEN deque[i] ELSE deque[i] + 1]
  /\ activated' = IF activated > Hold THEN activated ELSE activated + 1
  /\ gap' = IF gap < CalmGap THEN gap + 1 ELSE gap
  /\ UNCHANGED <<burst, mature, calm>>

Matures ==
  /\ ~mature /\ mature' = TRUE
  /\ UNCHANGED <<deque, burst, activated, calm, gap>>

FloodEnds ==
  /\ ~calm /\ calm' = TRUE
  /\ UNCHANGED <<deque, burst, activated, mature, gap>>

IngressNext == ingress_record \/ ingress_evaluate \/ IngressTick \/ Matures \/ FloodEnds

\* After a flood, traffic at a moderate rate gets through again, for good: the
\* flood's samples decay and the burst is not prolonged by what it drops
\* (ingress_record_impl).
BurstEnds == calm ~> []~burst
=============================================================================
