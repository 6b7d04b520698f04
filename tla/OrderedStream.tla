--------------------------- MODULE OrderedStream ---------------------------
(***************************************************************************)
(* What a link channel promises to the application that reads its events:  *)
(* messages are numbered in the order they were handed to the sender, and  *)
(* the receiver sees an increasing selection of them.  Messages may be     *)
(* missing (the link channel does not retransmit), but none is delivered   *)
(* twice, out of order, or before it was sent.                             *)
(***************************************************************************)
EXTENDS Integers, Sequences

VARIABLES
  sent,       \* how many messages were handed to the sender
  delivered   \* the numbers of the delivered messages, in delivery order

vars == <<sent, delivered>>

Increasing(s) == \A j, k \in 1..Len(s) : j < k => s[j] < s[k]

Init == sent = 0 /\ delivered = <<>>

Send == sent' = sent + 1 /\ delivered' = delivered

\* A batch of new messages reaches the application: what was delivered stays,
\* and the longer log is still an increasing selection of the sent messages.
Deliver ==
  /\ sent' = sent
  /\ Len(delivered) <= Len(delivered')
  /\ \A k \in 1..Len(delivered) : delivered'[k] = delivered[k]
  /\ Increasing(delivered')
  /\ \A k \in 1..Len(delivered') : delivered'[k] \in 0..(sent - 1)

Next == Send \/ Deliver

Spec == Init /\ [][Next]_vars
=============================================================================
