------------------------- MODULE RendererAuthority -------------------------
(***************************************************************************)
(* What the host lifecycle promises its renderer documents, without page   *)
(* loads, clocks, windows of replayed ids or acknowledgements: at any time *)
(* at most one document generation has authority, generations only move    *)
(* forward, a request belongs to the generation that had authority when it *)
(* was accepted, and it is answered only while that generation still has   *)
(* it.  HostLifecycle implements this specification.                       *)
(***************************************************************************)
EXTENDS Naturals

CONSTANTS
  Request,      \* requests, each of one generation
  GenerationOf, \* the generation of each request
  None          \* no generation has authority

VARIABLES
  last,    \* the last generation that was ever created
  current, \* the generation with authority, or None
  status   \* of each request

vars == <<last, current, status>>

Status == {"new", "live", "doomed", "answered", "discarded"}

Init ==
  /\ last = 0
  /\ current = None
  /\ status = [r \in Request |-> "new"]

(* A document takes over, or none does.  The requests of the one that had  *)
(* authority are doomed with it.                                           *)
Replace ==
  /\ last' \in {last, last + 1}
  /\ current' \in {None} \cup (IF last' > last THEN {last'} ELSE {})
  /\ status' = [r \in Request |->
                  IF status[r] = "live" THEN "doomed" ELSE status[r]]

Accept(r) ==
  /\ status[r] = "new"
  /\ current # None /\ GenerationOf[r] = current
  /\ status' = [status EXCEPT ![r] = "live"]
  /\ UNCHANGED <<last, current>>

(* An explicit cancellation *)
Doom(r) ==
  /\ status[r] = "live"
  /\ status' = [status EXCEPT ![r] = "doomed"]
  /\ UNCHANGED <<last, current>>

Answer(r) ==
  /\ status[r] = "live"
  /\ current # None /\ GenerationOf[r] = current
  /\ status' = [status EXCEPT ![r] = "answered"]
  /\ UNCHANGED <<last, current>>

(* Cancelled, or past its deadline *)
Discard(r) ==
  /\ status[r] \in {"live", "doomed"}
  /\ status' = [status EXCEPT ![r] = "discarded"]
  /\ UNCHANGED <<last, current>>

Next ==
  \/ Replace
  \/ \E r \in Request : Accept(r) \/ Doom(r) \/ Answer(r) \/ Discard(r)

Spec == Init /\ [][Next]_vars
=============================================================================
