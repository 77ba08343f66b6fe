---------------------------- MODULE MCLifecycle ----------------------------
(* Two nodes and three tries: see Lifecycle.cfg. *)
EXTENDS LifecycleProperties
============================================================================
