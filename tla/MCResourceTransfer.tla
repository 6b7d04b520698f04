------------------------- MODULE MCResourceTransfer -------------------------
(***************************************************************************)
(* ResourceTransfer for TLC: a resource long enough for its last part to   *)
(* share the map hash of its first one, which the collision guard allows.  *)
(***************************************************************************)
EXTENDS ResourceTransfer

RepeatedHash == [i \in 0..(TotalParts - 1) |-> 1 + (i % (CollisionGuard + 1))]
=============================================================================
