--------------------------- MODULE MCLinkNetwork ---------------------------
(***************************************************************************)
(* LinkNetwork for TLC: a diamond of two relays, in which paths may change *)
(* and may form a loop, and a chain with a single relay.                   *)
(***************************************************************************)
EXTENDS LinkNetwork

CONSTANTS I, A, B, D

Path(iface, hops) == [iface |-> iface, hops |-> hops]

\* Two relays that are connected to both ends and to each other.
DiamondEdges == {{I, A}, {I, B}, {A, B}, {A, D}, {B, D}}

DiamondRoutes ==
  [n \in {I, A, B} |->
     CASE n = I -> {Path(A, 2), Path(B, 2)}
       [] n = A -> {Path(D, 1), Path(B, 2)}
       [] n = B -> {Path(D, 1), Path(A, 2)}]

\* One relay between the ends.
ChainEdges == {{I, A}, {A, D}}

ChainRoutes == [n \in {I, A} |-> IF n = I THEN {Path(A, 2)} ELSE {Path(D, 1)}]

BudgetOf(losses, reroutes, expiries, idles, sends, closes) ==
  [k \in Kinds |->
     CASE k = "lose" -> losses [] k = "reroute" -> reroutes [] k = "expire" -> expiries
       [] k \in {"idle", "release"} -> idles [] k = "send" -> sends
       [] k = "close" -> closes]

\* Packets get lost, paths change, an entry expires, data is sent.
RoutingBudget == BudgetOf(1, 1, 1, 0, 1, 0)

\* Packets get lost, links fall idle and are closed.
LifecycleBudget == BudgetOf(1, 0, 0, 1, 0, 1)

=============================================================================
