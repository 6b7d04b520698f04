--------------------------- MODULE MCLinkChannel ---------------------------
(***************************************************************************)
(* LinkChannel for TLC: the sender stops after MaxSent messages, which is  *)
(* more than one lap of the sequence space.                                *)
(***************************************************************************)
EXTENDS LinkChannel

CONSTANT MaxSent  \* bound on the number of messages

Bounded == sent <= MaxSent
=============================================================================
