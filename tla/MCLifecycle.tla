---------------------------- MODULE MCLifecycle ----------------------------
(* Lifecycle for TLC: its state space is finite as it is.                   *)
EXTENDS Lifecycle

=============================================================================
