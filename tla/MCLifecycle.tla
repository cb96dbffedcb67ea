----------------------------- MODULE MCLifecycle -----------------------------
(* A small instance of Lifecycle for TLC.  It checks liveness, so that no  *)
(* symmetry is declared.                                                   *)
EXTENDS Lifecycle, TLC
=============================================================================
