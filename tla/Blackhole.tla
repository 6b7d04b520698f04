----------------------------- MODULE Blackhole -----------------------------
(***************************************************************************)
(* The identities a node does not listen to (blackhole.rs and its users in *)
(* transport.rs): the table, what a ban removes, announces, the periodic   *)
(* clean-up, and the updater that fetches the lists of other nodes over a  *)
(* link.  An identity has one destination, which stands for all of them.   *)
(* The link itself is LinkNetwork's subject; here it comes up or fails.    *)
(***************************************************************************)
EXTENDS Naturals, Sequences

CONSTANTS
  Identities,
  Local,       \* the node's own identity, the source of its bans
  SourceList   \* blackhole_sources, a sequence

ASSUME BlackholeAssumption == Local \notin Identities

VARIABLES
  blackhole_table,          \* by identity: [source, until]
  single_out_destinations,  \* the destinations known from announces
  path_table,               \* those with a path
  updater,                  \* blackhole_updater_job: where, and at which source
  updated,                  \* the sources whose last update is recent
  wanted                    \* identities banned here for good, and not lifted since

blackholeVars ==
  <<blackhole_table, single_out_destinations, path_table, updater, updated, wanted>>

BlackholeInit ==
  /\ blackhole_table = <<>>
  /\ single_out_destinations = {} /\ path_table = {}
  /\ updater = [at |-> "sleep", n |-> 1] /\ updated = {}
  /\ wanted = {}

\* until: None, an instant to come, one that has passed.
Untils == {"never", "later", "past"}

-----------------------------------------------------------------------------
(* BlackholeTable *)

add(table, i, until) ==
  [x \in DOMAIN table \cup {i} |-> IF x = i THEN [source |-> Local, until |-> until]
                                   ELSE table[x]]

InsertRemoteOver(table, list) ==
  [x \in DOMAIN table \cup DOMAIN list |-> IF x \in DOMAIN list THEN list[x] ELSE table[x]]

\* insert_remote_entry, for a whole list: what is in the table stays.
InsertRemote(table, list) ==
  [x \in DOMAIN table \cup DOMAIN list |-> IF x \in DOMAIN table THEN table[x] ELSE list[x]]

remove_expired(table) ==
  [x \in {y \in DOMAIN table : table[y].until # "past"} |-> table[x]]

\* remove_blackholed_paths finds the paths by way of the known destinations,
\* and passes over one that is locked at the moment.
BlackholedPaths(table, locked) == (single_out_destinations \cap DOMAIN table) \ locked

-----------------------------------------------------------------------------
(* The transport *)

Ban(i, until, locked) ==
  LET table == add(blackhole_table, i, until)
      gone == BlackholedPaths(table, locked)
  IN  /\ blackhole_table' = table
      /\ single_out_destinations' = single_out_destinations \ gone
      /\ path_table' = path_table \ gone
      /\ wanted' = IF until = "never" THEN wanted \cup {i} ELSE wanted \ {i}
      /\ UNCHANGED <<updater, updated>>

Lift(i) ==
  /\ blackhole_table' = [x \in DOMAIN blackhole_table \ {i} |-> blackhole_table[x]]
  /\ wanted' = wanted \ {i}
  /\ UNCHANGED <<single_out_destinations, path_table, updater, updated>>

\* Transport::blackhole_identity, while applications use some destinations.
blackhole_identity(i) ==
  \E until \in {"never", "later"}, locked \in SUBSET single_out_destinations :
    Ban(i, until, locked)

unblackhole_identity(i) == Lift(i)

\* A valid announce; one of a banned identity is dropped before anything else.
handle_announce(i) ==
  /\ i \notin DOMAIN blackhole_table
  /\ single_out_destinations' = single_out_destinations \cup {i}
  /\ path_table' = path_table \cup {i}
  /\ UNCHANGED <<blackhole_table, updater, updated, wanted>>

\* prune_single_out_destinations: destinations not heard of for long are
\* forgotten, their paths are not.
Pruned(old) == single_out_destinations \ old

\* The packet cache's clean-up task: the destinations, then, once a minute, the
\* bans that have expired.
CleanUp ==
  \E old \in SUBSET single_out_destinations, due \in BOOLEAN :
    /\ single_out_destinations' = Pruned(old)
    /\ blackhole_table' = IF due THEN remove_expired(blackhole_table) ELSE blackhole_table
    /\ UNCHANGED <<path_table, updater, updated, wanted>>

PathExpires(i) ==
  /\ i \in path_table /\ path_table' = path_table \ {i}
  /\ UNCHANGED <<blackhole_table, single_out_destinations, updater, updated, wanted>>

BanElapses(i) ==
  /\ i \in DOMAIN blackhole_table /\ blackhole_table[i].until = "later"
  /\ blackhole_table' = [blackhole_table EXCEPT ![i].until = "past"]
  /\ UNCHANGED <<single_out_destinations, path_table, updater, updated, wanted>>

-----------------------------------------------------------------------------
(* blackhole_updater_job *)

Tables == <<blackhole_table, single_out_destinations, path_table, wanted>>

Source == SourceList[updater.n]

\* The next source of this round, or the sleep before the next round.
Onwards ==
  IF updater.n < Len(SourceList) THEN [at |-> "source", n |-> updater.n + 1]
  ELSE [at |-> "sleep", n |-> 1]

UpdaterWakes ==
  /\ updater.at = "sleep" /\ SourceList # <<>>
  /\ updater' = [at |-> "source", n |-> 1]
  /\ UNCHANGED <<Tables, updated>>

\* An update needs a path to the source and its description.
Fetchable ==
  Source \notin updated /\ Source \in path_table /\ Source \in single_out_destinations

UpdaterSkips ==
  /\ updater.at = "source" /\ ~Fetchable
  /\ updater' = Onwards
  /\ UNCHANGED <<Tables, updated>>

UpdaterLinks ==
  /\ updater.at = "source" /\ Fetchable
  /\ updater' = [updater EXCEPT !.at = "linking"]
  /\ UNCHANGED <<Tables, updated>>

LinkActivated ==
  /\ updater.at = "linking"
  /\ updater' = [updater EXCEPT !.at = "asking"]
  /\ UNCHANGED <<Tables, updated>>

\* A timeout, or the link closes, before it is up or before the answer.
UpdateFails ==
  /\ updater.at \in {"linking", "asking"}
  /\ updater' = Onwards
  /\ UNCHANGED <<Tables, updated>>

\* The answer: any list.
ListReceived ==
  /\ updater.at = "asking"
  /\ \E listed \in SUBSET Identities, until \in {"never", "later"} :
       blackhole_table' = InsertRemote(blackhole_table,
                            [x \in listed |-> [source |-> Source, until |-> until]])
  /\ updated' = updated \cup {Source}
  /\ updater' = Onwards
  /\ UNCHANGED <<single_out_destinations, path_table, wanted>>

\* update_interval has passed since a source's last update.
UpdateDue(s) ==
  /\ s \in updated /\ updated' = updated \ {s}
  /\ UNCHANGED <<Tables, updater>>

BlackholeNext ==
  \/ \E i \in Identities :
       \/ blackhole_identity(i) \/ unblackhole_identity(i) \/ handle_announce(i)
       \/ PathExpires(i) \/ BanElapses(i) \/ UpdateDue(i)
  \/ CleanUp
  \/ UpdaterWakes \/ UpdaterSkips \/ UpdaterLinks \/ LinkActivated \/ UpdateFails
  \/ ListReceived

-----------------------------------------------------------------------------
\* A ban the operator set for good holds until the operator lifts it, whatever
\* the lists of other nodes say of the identity and whenever they arrive, expire
\* and are cleaned up (insert_remote_entry: "Local-originated entries are never
\* overwritten").
BanHolds ==
  \A i \in wanted : i \in DOMAIN blackhole_table /\ blackhole_table[i].until = "never"

=============================================================================
