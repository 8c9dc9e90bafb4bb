---------------------------- MODULE MCEpicMerge ----------------------------
(* Small instances of EpicMerge for TLC. *)
EXTENDS EpicMergeRefinement, TLC

(* Nothing tells two operations, pull requests, processes or eligible      *)
(* contents apart.                                                         *)
MCSymmetry ==
  Permutations(Operation) \cup Permutations(PullRequest) \cup
  Permutations(Broker) \cup Permutations(Maintainer) \cup
  Permutations(Eligible)
=============================================================================
