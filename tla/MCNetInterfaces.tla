-------------------------- MODULE MCNetInterfaces --------------------------
(***************************************************************************)
(* NetInterfaces for TLC: each kind of interface by itself, TcpServer with *)
(* one slot and two clients, BackboneServer with one.                      *)
(***************************************************************************)
EXTENDS NetInterfaces

Clients == [k \in AllKinds |-> CASE k = "tcp_server" -> 2 [] k = "backbone_server" -> 1 [] OTHER -> 0]
=============================================================================
