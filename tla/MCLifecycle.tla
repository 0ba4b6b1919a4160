----------------------------- MODULE MCLifecycle -----------------------------
(* Lifecycle on small sets of callers and sessions, without symmetry: TLC  *)
(* may not use it for the liveness properties.                             *)
EXTENDS Lifecycle
=============================================================================
