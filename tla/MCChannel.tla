----------------------------- MODULE MCChannel -----------------------------
(***************************************************************************)
(* Channel for TLC, with a short sequence space.                           *)
(***************************************************************************)
EXTENDS Channel
=============================================================================
