---------------------- MODULE HostLifecycleRefinement ----------------------
(***************************************************************************)
(* HostLifecycle implements RendererAuthority: the session is the current  *)
(* authority while the host accepts, and a request's status is read off    *)
(* its entry in flight and its recorded outcome.                           *)
(***************************************************************************)
EXTENDS HostLifecycle

AuthorityCurrent ==
  IF host.accepting /\ host.session # None THEN host.session.generation
                                           ELSE None

StatusOf(id) ==
  CASE outcome[id] \in Live -> "answered"
    [] outcome[id] \notin Live \cup {None} -> "discarded"
    [] outcome[id] = None /\ host.inFlight[id] = None -> "new"
    [] OTHER -> IF host.inFlight[id].cancelledAt = None THEN "live"
                                                        ELSE "doomed"

RequestStatus == [id \in RequestId |-> StatusOf(id)]

GenerationOfId == [id \in RequestId |-> id.generation]

Promise == INSTANCE RendererAuthority WITH
  Request <- RequestId, GenerationOf <- GenerationOfId,
  last <- host.generation, current <- AuthorityCurrent, status <- RequestStatus

(* Every step of the host is a step of the promise, or changes nothing the *)
(* promise speaks of.                                                      *)
ImplementsAuthority == Promise!Spec
=============================================================================
