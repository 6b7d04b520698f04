---------------------------- MODULE MCAdmission ----------------------------
(***************************************************************************)
(* Admission for TLC.  The calm's rate, one arrival in three ticks, is     *)
(* below both thresholds also when it is computed from two samples.  One   *)
(* of two identities is a source of lists.                                 *)
(***************************************************************************)
EXTENDS Admission

CONSTANTS i1, s1

Sources == <<s1>>
=============================================================================
