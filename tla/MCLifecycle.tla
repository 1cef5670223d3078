---------------------------- MODULE MCLifecycle -----------------------------
(* Lifecycle on small instances. *)
EXTENDS Lifecycle
=============================================================================
