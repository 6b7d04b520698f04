----------------------------- MODULE Admission -----------------------------
(***************************************************************************)
(* What a node lets in and out, each mechanism by itself: the announces an *)
(* interface passes on (AnnouncePacer) and takes in (IngressLimiter), the  *)
(* addresses that may connect (ReconnectPacer), the identities that are    *)
(* banned and the clients that may ban them (Blackhole, RpcControl).  They *)
(* share no state.                                                         *)
(***************************************************************************)
EXTENDS AnnouncePacer, IngressLimiter, ReconnectPacer, RpcControl

VARIABLE about  \* the mechanism this behaviour is about

vars == <<about, pacerVars, ingressVars, reconnectVars, rpcVars>>

Init ==
  /\ about \in {"announces", "ingress", "reconnects", "bans"}
  /\ PacerInit /\ IngressInit /\ ReconnectInit /\ RpcInit

PacerStep ==
  /\ about = "announces" /\ PacerNext
  /\ UNCHANGED <<about, ingressVars, reconnectVars, rpcVars>>

IngressStep(A) ==
  /\ about = "ingress" /\ A
  /\ UNCHANGED <<about, pacerVars, reconnectVars, rpcVars>>

ReconnectStep ==
  /\ about = "reconnects" /\ ReconnectNext
  /\ UNCHANGED <<about, pacerVars, ingressVars, rpcVars>>

ControlStep(A) ==
  /\ about = "bans" /\ A
  /\ UNCHANGED <<about, pacerVars, ingressVars, reconnectVars>>

Next == PacerStep \/ IngressStep(IngressNext) \/ ReconnectStep \/ ControlStep(RpcNext)

Spec == Init /\ [][Next]_vars

\* Time passes, in the calm something arrives whenever its time has come, and a
\* task of the runtime whose timer has fired runs.
FairSpec ==
  /\ Spec
  /\ WF_vars(IngressStep(IngressTick))
  /\ WF_vars(IngressStep(calm /\ ingress_record))
  /\ \A c \in RpcClients : WF_vars(ControlStep(Poll(c)))
=============================================================================
