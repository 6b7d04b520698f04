----------------------------- MODULE RpcControl -----------------------------
(***************************************************************************)
(* The control port of a node (start_tcp_rpc and handle_rpc_client in      *)
(* transport.rs): a task per client authenticates it, reads one request,   *)
(* and answers it from the tables or changes them.  A client may take its  *)
(* time, send something else, or go away at every step.                    *)
(***************************************************************************)
EXTENDS Blackhole

CONSTANTS
  RpcClients,
  MaxPolls  \* how often request_path looks for a path before its timeout

VARIABLE client  \* by client: where its task is, the path it asked for, polls

rpcVars == <<blackholeVars, client>>

RpcInit ==
  /\ BlackholeInit
  /\ client = [c \in RpcClients |-> [at |-> "none", wants |-> Local, polls |-> 0]]

At(c, at) == client[c].at = at

Goes(c, at) == client' = [client EXCEPT ![c].at = at]

-----------------------------------------------------------------------------
(* The connection and rpc_authenticate *)

\* The accept loop spawns a task, which sends the challenge.
rpc_accept(c) ==
  /\ At(c, "none") /\ Goes(c, "challenged")
  /\ UNCHANGED blackholeVars

\* rpc_response_is_authenticated: only the digest of this challenge will do.
rpc_authenticate(c) ==
  /\ At(c, "challenged")
  /\ \E authenticated \in BOOLEAN : Goes(c, IF authenticated THEN "welcomed" ELSE "ended")
  /\ UNCHANGED blackholeVars

\* A client that sends nothing in time, or what cannot be a small frame, is not
\* asked again; a challenge is answered; any other small frame ends the task,
\* be it the request.
rpc_answer_peer_challenge(c) ==
  /\ At(c, "welcomed")
  /\ \E frame \in {"nothing", "challenge", "other"} :
       Goes(c, CASE frame = "nothing" -> "ready"
                 [] frame = "challenge" -> "mutual"
                 [] frame = "other" -> "ended")
  /\ UNCHANGED blackholeVars

\* The peer's verdict on our digest.
PeerVerdict(c) ==
  /\ At(c, "mutual")
  /\ \E welcome \in BOOLEAN : Goes(c, IF welcome THEN "ready" ELSE "ended")
  /\ UNCHANGED blackholeVars

-----------------------------------------------------------------------------
(* handle_rpc_request; the answer is written whether or not it succeeds *)

\* Everything that is only looked up, and what is not understood.
rpc_get(c) ==
  /\ At(c, "ready") /\ Goes(c, "ended")
  /\ UNCHANGED blackholeVars

\* One path, or all by way of some neighbour.
rpc_drop(c) ==
  /\ At(c, "ready") /\ Goes(c, "ended")
  /\ \E dropped \in SUBSET path_table : path_table' = path_table \ dropped
  /\ UNCHANGED <<blackhole_table, single_out_destinations, updater, updated, wanted>>

rpc_blackhole_identity(c) ==
  /\ At(c, "ready") /\ Goes(c, "ended")
  /\ \E i \in Identities : blackhole_identity(i)

rpc_unblackhole_identity(c) ==
  /\ At(c, "ready") /\ Goes(c, "ended")
  /\ \E i \in Identities : unblackhole_identity(i)

\* handle_rpc_request_path sends a path request and gives back the lock.
rpc_request_path(c) ==
  /\ At(c, "ready")
  /\ \E i \in Identities :
       client' = [client EXCEPT ![c] = [at |-> "searching", wants |-> i, polls |-> 0]]
  /\ UNCHANGED blackholeVars

PollRestarting(c) ==
  /\ At(c, "searching")
  /\ Goes(c, IF client[c].wants \in path_table THEN "ended" ELSE "searching")
  /\ UNCHANGED blackholeVars

\* Every 100 ms the table is looked at, until the timeout.
Poll(c) ==
  /\ At(c, "searching")
  /\ IF client[c].polls = MaxPolls \/ client[c].wants \in path_table
       THEN Goes(c, "ended")
       ELSE client' = [client EXCEPT ![c].polls = @ + 1]
  /\ UNCHANGED blackholeVars

\* handle_rpc_listen follows what arrives until a write fails.
handle_rpc_listen(c) ==
  /\ At(c, "ready") /\ Goes(c, "listening")
  /\ UNCHANGED blackholeVars

\* A read or a write fails.
ConnectionLost(c) ==
  /\ client[c].at \in {"challenged", "welcomed", "mutual", "ready", "listening"}
  /\ Goes(c, "ended")
  /\ UNCHANGED blackholeVars

\* The client connects anew.
Returns(c) ==
  /\ At(c, "ended")
  /\ client' = [client EXCEPT ![c] = [at |-> "none", wants |-> Local, polls |-> 0]]
  /\ UNCHANGED blackholeVars

RpcStep(c) ==
  \/ rpc_accept(c) \/ rpc_authenticate(c) \/ rpc_answer_peer_challenge(c) \/ PeerVerdict(c)
  \/ rpc_get(c) \/ rpc_drop(c) \/ rpc_blackhole_identity(c) \/ rpc_unblackhole_identity(c)
  \/ rpc_request_path(c) \/ Poll(c) \/ handle_rpc_listen(c)
  \/ ConnectionLost(c) \/ Returns(c)

RpcNext ==
  \/ BlackholeNext /\ UNCHANGED client
  \/ \E c \in RpcClients : RpcStep(c)

-----------------------------------------------------------------------------
\* Whoever asks for a path is answered, also when none is found: while it waits
\* for an announce its task holds no lock and its time runs out
\* (handle_rpc_request_path).
PathSearchEnds ==
  \A c \in RpcClients : At(c, "searching") ~> ~At(c, "searching")
=============================================================================
