------------------------- MODULE MCProcessLifecycle -------------------------
(***************************************************************************)
(* TLC instance of ProcessLifecycle.                                       *)
(***************************************************************************)
EXTENDS ProcessLifecycle
=============================================================================
