---------------------------- MODULE MCLifecycle -----------------------------
(* Model-checking instances of Lifecycle. *)
EXTENDS Lifecycle
=============================================================================
