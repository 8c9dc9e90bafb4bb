-------------------------- MODULE MCLifecycleRecords --------------------------
(* Small instances of LifecycleRecords for TLC. *)
EXTENDS LifecycleRecords
=============================================================================
