------------------------ MODULE EpicMergeRefinement ------------------------
(***************************************************************************)
(* EpicMerge implements MergeLedger: the state of an operation is read off *)
(* its row, its settlements and its submission, as readOperation does.     *)
(***************************************************************************)
EXTENDS EpicMerge

LedgerBase ==
  [o \in Operation |-> IF operations[o] = None THEN None ELSE operations[o].base]

LedgerStateOf(o) ==
  IF operations[o] = None THEN "absent"
  ELSE IF Latest(o) = None THEN IF o \in submissions THEN "submitted" ELSE "prepared"
  ELSE IF Latest(o) # "indeterminate" THEN Latest(o)
  ELSE IF o \in submissions THEN "ambiguous" ELSE "doubtful"

LedgerState == [o \in Operation |-> LedgerStateOf(o)]

(* Each pull request is merged once, so the base is never beyond this. *)
Ledger == INSTANCE MergeLedger WITH
  Base <- 0..Cardinality(PullRequest), base <- LedgerBase, state <- LedgerState

(* What the store records of an operation moves only as the ledger says,   *)
(* whatever its brokers, duplicates and maintainers do (ADR-0009, "At-most- *)
(* once effect and read-back").                                            *)
ImplementsLedger == Ledger!Spec
=============================================================================
