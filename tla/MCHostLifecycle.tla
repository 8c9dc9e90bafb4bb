-------------------------- MODULE MCHostLifecycle --------------------------
(* Small instances of HostLifecycle for TLC. *)
EXTENDS HostLifecycleRefinement

(* One operation dispatch_health answers and one it does not know. *)
MCOperation == {[kind |-> "application-health"], [kind |-> "show-about"]}
=============================================================================
