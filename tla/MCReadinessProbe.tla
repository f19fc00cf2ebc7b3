-------------------------- MODULE MCReadinessProbe --------------------------
(***************************************************************************)
(* TLC instance of ReadinessProbe.                                         *)
(***************************************************************************)
EXTENDS ReadinessProbe
=============================================================================
