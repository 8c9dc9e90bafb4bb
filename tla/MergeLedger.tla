---------------------------- MODULE MergeLedger ----------------------------
(***************************************************************************)
(* What the guarded epic merge promises about each operation, without      *)
(* processes, reads, claims and the order of its writes: an operation is   *)
(* submitted at most once and only while it is prepared; from then on it   *)
(* is never cancelled; it is merged only after it was submitted; one whose *)
(* outcome nobody knows stays open until somebody proves the outcome; and  *)
(* at most one operation on a base is open.  EpicMerge implements this     *)
(* specification.                                                          *)
(***************************************************************************)
CONSTANTS
  Operation,
  Base,      \* the bases an operation may be prepared for
  None       \* an operation that does not exist has no base

VARIABLES
  base,      \* the base each operation was prepared for
  state      \* of each operation

vars == <<base, state>>

State == {"absent", "prepared", "submitted", "doubtful", "ambiguous",
          "merged", "rejected", "cancelled"}

(* Doubtful and ambiguous: given up before and after it was submitted. *)
Open == {"prepared", "submitted", "doubtful", "ambiguous"}

Init ==
  /\ base = [o \in Operation |-> None]
  /\ state = [o \in Operation |-> "absent"]

Prepare(o) ==
  /\ state[o] = "absent"
  /\ \E n \in Base :
       /\ \A p \in Operation : state[p] \in Open => base[p] # n
       /\ base' = [base EXCEPT ![o] = n]
  /\ state' = [state EXCEPT ![o] = "prepared"]

Move(o, from, to) ==
  /\ state[o] \in from
  /\ state' = [state EXCEPT ![o] = to]
  /\ UNCHANGED base

Submit(o) == Move(o, {"prepared"}, "submitted")
Doubt(o) == Move(o, {"prepared"}, "doubtful") \/ Move(o, {"submitted"}, "ambiguous")
Merge(o) == Move(o, {"submitted", "ambiguous"}, "merged")
Reject(o) == Move(o, {"submitted"}, "rejected")
Cancel(o) == Move(o, {"prepared", "doubtful"}, "cancelled")

(* No step leaves its operation as it was: TLC sees at once which of the   *)
(* many steps that map to nothing are stutters.                            *)
Next ==
  \E o \in Operation :
    /\ state'[o] # state[o]
    /\ Prepare(o) \/ Submit(o) \/ Doubt(o) \/ Merge(o) \/ Reject(o) \/ Cancel(o)

Spec == Init /\ [][Next]_vars
=============================================================================
