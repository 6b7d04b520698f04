--------------------------- MODULE ReconnectPacer ---------------------------
(***************************************************************************)
(* The reconnect pacer of a server interface (reconnect_pacer.rs, asked by *)
(* BackboneServer for every connection): a source address may connect      *)
(* again after a backoff that doubles; one that is rejected too often is   *)
(* blocked until it has been silent for the block's expiry.  Times are     *)
(* kept as ages, up to Cap.                                                *)
(***************************************************************************)
EXTENDS Naturals, FiniteSets

CONSTANTS
  Addresses,
  InitialBackoff, MaxBackoff, BlockExpiry, CleanupInterval,
  BlockThreshold,  \* RECONNECT_REJECTION_BLOCK_THRESHOLD
  Cap              \* bound: ages are not told apart beyond it

ASSUME ReconnectAssumption ==
  /\ InitialBackoff \in Nat /\ MaxBackoff \in Nat /\ BlockExpiry \in Nat
  /\ CleanupInterval \in Nat /\ BlockThreshold \in Nat \ {0} /\ Cap \in Nat
  /\ InitialBackoff <= MaxBackoff /\ InitialBackoff <= BlockExpiry
  /\ 2 * MaxBackoff <= Cap /\ BlockExpiry <= Cap /\ CleanupInterval <= Cap

VARIABLES
  entries,       \* of the addresses that are tracked
  last_cleanup,  \* how long ago
  apart,         \* how long each address's last accepted connection is ago
  quiet,         \* how long its last attempt is ago
  banned,        \* it was blocked since its last accepted connection
  hasty          \* a connection was accepted before its time

reconnectVars == <<entries, last_cleanup, apart, quiet, banned, hasty>>

ReconnectInit ==
  /\ entries = <<>> /\ last_cleanup = 0
  /\ apart = [a \in Addresses |-> Cap] /\ quiet = [a \in Addresses |-> Cap]
  /\ banned = [a \in Addresses |-> FALSE] /\ hasty = FALSE

NewEntry == [last_connect |-> 0, backoff |-> InitialBackoff, rejections |-> 0,
             blocked |-> FALSE, blocked_at |-> 0]

Tracked(table, a) == a \in DOMAIN table

With(table, a, e) == [x \in DOMAIN table \cup {a} |-> IF x = a THEN e ELSE table[x]]

\* is_blocked, and is_allowed of one that is not.
is_blocked(a) ==
  Tracked(entries, a) /\ entries[a].blocked /\ entries[a].blocked_at < BlockExpiry

is_allowed(a) ==
  Tracked(entries, a) => ~is_blocked(a) /\ entries[a].last_connect >= entries[a].backoff

\* Whom maybe_cleanup keeps: a block until it expires, the others for twice the
\* longest backoff.
Retained(e) ==
  IF e.blocked THEN e.blocked_at < BlockExpiry ELSE e.last_connect < 2 * MaxBackoff

CleanupDue == last_cleanup >= CleanupInterval

maybe_cleanup ==
  IF CleanupDue
    THEN [a \in {x \in DOMAIN entries : Retained(entries[x])} |-> entries[a]]
    ELSE entries

\* record: the backoff doubles, unless the address stayed away for the longest.
Recorded(e) ==
  [e EXCEPT !.backoff = IF e.last_connect >= MaxBackoff THEN InitialBackoff
                        ELSE IF 2 * e.backoff < MaxBackoff THEN 2 * e.backoff ELSE MaxBackoff,
            !.last_connect = 0, !.blocked = FALSE, !.blocked_at = 0]

record(a) ==
  /\ LET table == maybe_cleanup
     IN  entries' = With(table, a, IF Tracked(table, a) THEN Recorded(table[a]) ELSE NewEntry)
  /\ last_cleanup' = IF CleanupDue THEN 0 ELSE last_cleanup

\* record_rejection; rejections saturate at the threshold here.
Rejected(e) ==
  LET n == IF e.rejections < BlockThreshold THEN e.rejections + 1 ELSE e.rejections
      block == n >= BlockThreshold \/ e.blocked
  IN  [e EXCEPT !.rejections = n, !.blocked = block,
                !.blocked_at = IF block THEN 0 ELSE @]

record_rejection(a) ==
  /\ entries' = With(entries, a,
                     Rejected(IF Tracked(entries, a) THEN entries[a] ELSE NewEntry))
  /\ UNCHANGED last_cleanup

RejectBlockedSilently(a) ==
  /\ is_blocked(a)
  /\ UNCHANGED <<entries, last_cleanup, apart, banned, hasty>>
  /\ quiet' = [quiet EXCEPT ![a] = 0]

\* BackboneServer's accept loop: a blocked address is dropped, and its block
\* renewed.
RejectBlocked(a) ==
  /\ is_blocked(a)
  /\ record_rejection(a)
  /\ quiet' = [quiet EXCEPT ![a] = 0]
  /\ UNCHANGED <<apart, banned, hasty>>

RejectEarly(a) ==
  /\ ~is_blocked(a) /\ ~is_allowed(a)
  /\ record_rejection(a)
  /\ quiet' = [quiet EXCEPT ![a] = 0]
  /\ banned' = [banned EXCEPT ![a] = @ \/ entries'[a].blocked]
  /\ UNCHANGED <<apart, hasty>>

Accept(a) ==
  /\ ~is_blocked(a) /\ is_allowed(a)
  /\ record(a)
  /\ hasty' = (hasty \/ apart[a] < InitialBackoff \/ (banned[a] /\ quiet[a] < BlockExpiry))
  /\ apart' = [apart EXCEPT ![a] = 0] /\ quiet' = [quiet EXCEPT ![a] = 0]
  /\ banned' = [banned EXCEPT ![a] = FALSE]

Older(n) == IF n < Cap THEN n + 1 ELSE n

ReconnectTick ==
  /\ entries' = [a \in DOMAIN entries |->
       [entries[a] EXCEPT !.last_connect = Older(@),
                          !.blocked_at = IF entries[a].blocked THEN Older(@) ELSE @]]
  /\ last_cleanup' = Older(last_cleanup)
  /\ apart' = [a \in Addresses |-> Older(apart[a])]
  /\ quiet' = [a \in Addresses |-> Older(quiet[a])]
  /\ UNCHANGED <<banned, hasty>>

ReconnectNext ==
  \/ \E a \in Addresses : RejectBlocked(a) \/ RejectEarly(a) \/ Accept(a)
  \/ ReconnectTick

\* No connection is accepted before its time: accepted connections of one
\* address are the initial backoff apart, and after a block the address must
\* have kept silent for the block's expiry, although the cleanup, which other
\* addresses' connections trigger, forgets entries (record, maybe_cleanup,
\* BackboneServer's accept loop).
NoHastyAccept == ~hasty
=============================================================================
