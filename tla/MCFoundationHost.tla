-------------------------- MODULE MCFoundationHost --------------------------
(* Small instances of FoundationHost for TLC. *)
EXTENDS FoundationHost

Commit == [kind |-> "commit-canvas-text", tooLong |-> FALSE]

Kinds(kinds) == {[kind |-> k] : k \in kinds}

(* What is persisted. *)
MCSaving == {Commit} \cup Kinds({"dismiss-welcome"})

(* What must not happen once it was cancelled, what takes effect in place   *)
(* and what is refused.                                                    *)
MCGated ==
  {Commit} \cup
  Kinds({"quit-application", "application-health", "show-about",
         "open-foundation-link"})
=============================================================================
