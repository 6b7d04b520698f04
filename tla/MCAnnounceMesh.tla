--------------------------- MODULE MCAnnounceMesh ---------------------------
(***************************************************************************)
(* AnnounceMesh for TLC: a ring of the owner O and two relays with a node  *)
(* behind it, and a chain along which announces do not travel.             *)
(***************************************************************************)
EXTENDS AnnounceMesh

CONSTANTS O, A, B, C

RingEdges == {{O, A}, {O, B}, {A, B}, {B, C}}

ChainEdges == {{O, A}, {A, B}, {B, C}}

AllFull == [n \in Nodes |-> [i \in Nodes |-> "Full"]]

\* Relays A and B serve the node behind them as access points.
AccessPoints ==
  [n \in Nodes |-> [i \in Nodes |->
     IF <<n, i>> \in {<<A, B>>, <<B, C>>} THEN "AccessPoint" ELSE "Full"]]

BudgetOf(announces, requests, losses, others) ==
  [k \in Kinds |->
     CASE k = "announce" -> announces [] k = "request" -> requests
       [] k = "lose" -> losses [] OTHER -> others]

\* One announce, undisturbed.
SpreadBudget == BudgetOf(1, 0, 0, 0)

\* Anything once.
AnythingBudget == BudgetOf(1, 1, 1, 1)

=============================================================================
