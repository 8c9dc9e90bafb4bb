--------------------------- MODULE HostLifecycle ---------------------------
(***************************************************************************)
(* The native host's lifecycle: which renderer document holds authority,   *)
(* which requests are in flight, how each of them ends.                    *)
(*                                                                         *)
(* Code: native/crates/keiko-host-macos/src/{lib,request_timing,           *)
(* acknowledgement,request_adapter,tauri_adapter}.rs.  The HostLifecycle   *)
(* struct sits behind one Mutex; an action is what one handler does while  *)
(* it holds that Mutex, so a request is two steps (begin, complete) and    *)
(* anything may happen between them.  Page-load, window and run events are *)
(* delivered by one event loop, so each of their handlers is one step.     *)
(*                                                                         *)
(* The struct's methods are operators from a host record and the clock to  *)
(* a host record: the handlers call several of them in a row.              *)
(*                                                                         *)
(* Abstracted: reason codes of refused requests (a refused request changes *)
(* nothing), JSON, Mutex poisoning, the u32 saturation of                  *)
(* pending_page_loads (out of reach: MaxLoads is small).                   *)
(***************************************************************************)
EXTENDS Naturals, Sequences, FiniteSets

CONSTANTS
  MaxSequence,   \* MAX_SEQUENCE: the last generation and the last sequence
  ReplayWindow,  \* REPLAY_WINDOW: how many request ids a session remembers
  MaxTimeout,    \* the largest timeout a request may ask for
  MaxLoads,      \* bound: document loads the platform starts
  MaxTime,       \* bound: the monotonic clock
  MaxRequests,   \* bound: requests accepted in one run of the host
  Operation,     \* what a request may ask for: records with a field kind
  None           \* Rust's Option::None

ASSUME LifecycleAssumption ==
  /\ MaxSequence \in Nat \ {0}
  /\ ReplayWindow \in Nat \ {0}
  /\ MaxTimeout \in Nat \ {0}
  /\ MaxLoads \in Nat
  /\ MaxTime \in Nat
  /\ MaxRequests \in Nat

Generation == 1..MaxSequence
Sequence == 1..MaxSequence
Time == 0..MaxTime
Load == 1..MaxLoads        \* a document load, in the order the loads started
Nonce == Load              \* a fresh random nonce, named by its document

(* request-{generation:016}-{sequence:016} *)
RequestId == [generation: Generation, sequence: Sequence]

UiRequest == [id: RequestId, sequence: Sequence, timeout: 1..MaxTimeout,
              operation: Operation]

SenderContext == [main: BOOLEAN, generation: Generation, nonce: Nonce]

InFlight == [generation: Generation, startedAt: Time, timeout: 1..MaxTimeout,
             cancelledAt: Time \cup {None}]

RendererSession == [generation: Generation, nonce: Nonce,
                    lastSequence: 0..MaxSequence, replayed: Seq(RequestId),
                    firstHealth: BOOLEAN, emitted: BOOLEAN]

Host == [accepting: BOOLEAN, generation: 0..MaxSequence,
         inFlight: [RequestId -> InFlight \cup {None}],
         ambiguous: BOOLEAN, pending: Nat,
         session: RendererSession \cup {None}]

(* How an accepted request ends: the answer of its dispatch, or the reason *)
(* complete_with_availability puts in its place.                           *)
Live == {"healthy", "unknown-operation", "dispatched"}
Terminal == {"cancelled", "timed-out"}
Outcome == Live \cup Terminal \cup {"internal-failure"}

Authority == [generation: Generation, nonce: Nonce]

ASSUME NoneAssumption ==
  /\ None \notin RendererSession
  /\ None \notin InFlight
  /\ None \notin Authority
  /\ None \notin Nat
  /\ None \notin Operation
  /\ None \notin Outcome

-----------------------------------------------------------------------------
(* Methods of HostLifecycle *)

NewHost ==
  [accepting |-> TRUE, generation |-> 0,
   inFlight |-> [id \in RequestId |-> None],
   ambiguous |-> FALSE, pending |-> 0, session |-> None]

(* Mutant: a later cancellation replaces the first. *)
CancelAtReplaced(request, t) == [request EXCEPT !.cancelledAt = t]

(* cancelled_at_ms.get_or_insert(now): the first cancellation stays. *)
CancelAt(request, t) ==
  IF request.cancelledAt = None THEN [request EXCEPT !.cancelledAt = t]
                                ELSE request

OwnedBySession(h, request) ==
  /\ request # None
  /\ h.session # None
  /\ request.generation = h.session.generation

CancelGeneration(h, t) ==
  [h EXCEPT !.inFlight =
     [id \in RequestId |->
        IF OwnedBySession(h, h.inFlight[id]) THEN CancelAt(h.inFlight[id], t)
                                             ELSE h.inFlight[id]]]

(* Mutant: the session is dropped before its requests are cancelled. *)
RetireSwapped(h, t) == CancelGeneration([h EXCEPT !.session = None], t)

(* retire_renderer_authority *)
Retire(h, t) == [CancelGeneration(h, t) EXCEPT !.session = None]

RendererLost(h, t) ==
  [Retire(h, t) EXCEPT !.ambiguous = FALSE, !.pending = 0]

NewSession(g, nonce) ==
  [generation |-> g, nonce |-> nonce, lastSequence |-> 0, replayed |-> <<>>,
   firstHealth |-> FALSE, emitted |-> FALSE]

(* Mutant: the generation wraps around. *)
BeginSessionWrapped(h, nonce, t) ==
  LET g == IF h.generation < MaxSequence THEN h.generation + 1 ELSE 1
  IN  [CancelGeneration(h, t) EXCEPT
         !.generation = g, !.session = NewSession(g, nonce)]

(* Mutant: one generation too many. *)
BeginSessionPastLast(h, nonce, t) ==
  [CancelGeneration(h, t) EXCEPT
     !.generation = h.generation + 1,
     !.session = NewSession(h.generation + 1, nonce)]

(* Generations are never reused: past the last one there is no session. *)
BeginSession(h, nonce, t) ==
  IF h.generation < MaxSequence
    THEN [CancelGeneration(h, t) EXCEPT
            !.generation = h.generation + 1,
            !.session = NewSession(h.generation + 1, nonce)]
    ELSE [CancelGeneration(h, t) EXCEPT !.session = None]

(* activate_renderer_document; nonce is None when the producer fails. *)
Activate(h, nonce, t) ==
  IF nonce = None THEN Retire(h, t) ELSE BeginSession(Retire(h, t), nonce, t)

BeginPageLoad(h, nonce, t) ==
  Activate([h EXCEPT !.ambiguous = h.ambiguous \/ h.pending > 0,
                     !.pending = h.pending + 1], nonce, t)

(* finish_renderer_page_load: the host it leaves, ... *)
FinishPageLoad(h, t) ==
  LET one == [h EXCEPT !.pending = h.pending - 1]
  IN  CASE h.pending = 0 -> RendererLost(h, t)
        [] h.pending # 0 /\ h.ambiguous ->
             [Retire(one, t) EXCEPT !.ambiguous = one.pending # 0]
        [] h.pending > 1 /\ ~h.ambiguous ->
             [Retire(one, t) EXCEPT !.ambiguous = TRUE]
        [] OTHER -> one

(* Mutant: overlapping loads are not told apart. *)
FinishedAuthorityOverlapping(h) ==
  IF h.pending > 0 /\ h.session # None
    THEN [generation |-> h.session.generation, nonce |-> h.session.nonce]
    ELSE None

(* ... and the authority it returns. *)
FinishedAuthority(h) ==
  IF h.pending = 1 /\ ~h.ambiguous /\ h.session # None
    THEN [generation |-> h.session.generation, nonce |-> h.session.nonce]
    ELSE None

(* Mutant: shutdown forgets the requests in flight. *)
CloseHostOnly(h, t) ==
  [h EXCEPT !.accepting = FALSE, !.ambiguous = FALSE, !.pending = 0,
            !.session = None]

(* shutdown *)
CloseHost(h, t) ==
  [h EXCEPT
     !.accepting = FALSE,
     !.inFlight = [id \in RequestId |->
                     IF h.inFlight[id] = None THEN None
                                              ELSE CancelAt(h.inFlight[id], t)],
     !.ambiguous = FALSE, !.pending = 0, !.session = None]

(* validate_sender *)
ValidSender(h, context) ==
  /\ h.accepting
  /\ context.main
  /\ h.session # None
  /\ h.session.generation = context.generation
  /\ h.session.nonce = context.nonce

(* Mutant: the replay window alone is trusted to catch a reused id. *)
AcceptableByWindow(h, context, request) ==
  /\ ValidSender(h, context)
  /\ request.id = [generation |-> context.generation,
                   sequence |-> request.sequence]
  /\ \A i \in 1..Len(h.session.replayed) : h.session.replayed[i] # request.id
  /\ h.inFlight[request.id] = None

(* What begin_application_request requires of a request it accepts. *)
Acceptable(h, context, request) ==
  /\ ValidSender(h, context)
  /\ request.id = [generation |-> context.generation,
                   sequence |-> request.sequence]
  /\ \A i \in 1..Len(h.session.replayed) : h.session.replayed[i] # request.id
  /\ h.inFlight[request.id] = None
  /\ request.sequence > h.session.lastSequence

Remember(window, id) ==
  Append(IF Len(window) = ReplayWindow THEN Tail(window) ELSE window, id)

Begin(h, context, request, t) ==
  [h EXCEPT
     !.session.lastSequence = request.sequence,
     !.session.replayed = Remember(h.session.replayed, request.id),
     !.inFlight[request.id] =
        [generation |-> context.generation, startedAt |-> t,
         timeout |-> request.timeout, cancelledAt |-> None]]

(* cancel_application_request: who may cancel which request, ... *)
MayCancel(h, context, id) ==
  /\ ValidSender(h, context)
  /\ h.inFlight[id] # None
  /\ h.inFlight[id].generation = context.generation

Cancel(h, id, t) == [h EXCEPT !.inFlight[id] = CancelAt(h.inFlight[id], t)]

CancelledInTime(request) ==
  /\ request.cancelledAt # None
  /\ request.cancelledAt - request.startedAt < request.timeout

(* ... and what the canceller is told, from the entry Cancel left. *)
CancelAnswer(request) ==
  IF CancelledInTime(request) THEN "cancelled" ELSE "timed-out"

(* terminal_reason with the host available, or the dispatched answer. *)
CompletionOutcome(request, t, answer) ==
  CASE request = None -> "internal-failure"
    [] request # None /\ CancelledInTime(request) -> "cancelled"
    [] request # None /\ ~CancelledInTime(request)
         /\ t - request.startedAt >= request.timeout -> "timed-out"
    [] OTHER -> answer

(* AcknowledgementState::record_success: its effect and its result. *)
RecordSuccess(session, sequence) ==
  [session EXCEPT
     !.firstHealth = session.firstHealth \/ sequence = 1,
     !.emitted = session.emitted \/ (sequence = 2 /\ session.firstHealth)]

(* Mutant: the second request alone is acknowledged. *)
EmitsOnSecond(session, sequence) == sequence = 2 /\ ~session.emitted

Emits(session, sequence) ==
  sequence = 2 /\ session.firstHealth /\ ~session.emitted

(* complete_with_availability: an answered request of the current session  *)
(* counts towards the acknowledgement, whatever the answer says.           *)
Counts(h, id, outcome) ==
  /\ outcome \in Live
  /\ h.session # None
  /\ h.session.generation = id.generation

Complete(h, id, outcome) ==
  [h EXCEPT
     !.inFlight[id] = None,
     !.session = IF Counts(h, id, outcome)
                   THEN RecordSuccess(h.session, id.sequence) ELSE h.session]
-----------------------------------------------------------------------------
VARIABLES
  host,          \* the HostLifecycle behind the Mutex
  now,           \* MonotonicClock
  accepted,      \* AcceptedRequest tokens the handlers hold: id -> operation
  loads,         \* platform: document loads started so far
  unfinished,    \* platform: loads whose Finished event may still arrive
  outcome,       \* history: how each request ended
  cancelAnswers, \* history: what cancellers of each request were told
  acks,          \* history: acknowledgements printed, per generation
  grants,        \* history: authorities installed, and by whose Finished event
  uncounted      \* history: unfinished loads that host.pending leaves out

platform == <<loads, unfinished>>
history == <<outcome, cancelAnswers, acks, grants, uncounted>>
vars == <<host, now, accepted, platform, history>>

Init ==
  /\ host = NewHost
  /\ now = 0
  /\ accepted = [id \in RequestId |-> None]
  /\ loads = 0
  /\ unfinished = {}
  /\ outcome = [id \in RequestId |-> None]
  /\ cancelAnswers = [id \in RequestId |-> {}]
  /\ acks = [g \in Generation |-> 0]
  /\ grants = {}
  /\ uncounted = {}

Tick ==
  /\ now < MaxTime
  /\ now' = now + 1
  /\ UNCHANGED <<host, accepted, platform, history>>

(* handle_page_load, Started *)
PageLoadStarted ==
  /\ loads < MaxLoads
  /\ loads' = loads + 1
  /\ unfinished' = unfinished \cup {loads + 1}
  /\ \E nonce \in {loads + 1, None} : host' = BeginPageLoad(host, nonce, now)
  /\ UNCHANGED <<now, accepted, history>>

(* handle_page_load, Finished: evaluating the script may fail, and a load  *)
(* that installs nothing loses the renderer.                               *)
PageLoadFinished(load) ==
  /\ load \in unfinished
  /\ unfinished' = unfinished \ {load}
  /\ LET authority == FinishedAuthority(host)
         after == FinishPageLoad(host, now)
     IN  \/ /\ authority # None
            /\ host' = after
            /\ grants' = grants \cup {[authority |-> authority, by |-> load,
                                      counted |-> load \notin uncounted]}
         \/ /\ host' = RendererLost(after, now)
            /\ UNCHANGED grants
  /\ uncounted' = unfinished'
  /\ UNCHANGED <<now, accepted, loads, outcome, cancelAnswers, acks>>

(* handle_web_content_process_terminate, handle_window_event(Destroyed):   *)
(* a process or a window that is gone finishes none of its loads.          *)
LoseRenderer ==
  /\ host' = RendererLost(host, now)
  /\ unfinished' = {}
  /\ uncounted' = {}
  /\ UNCHANGED <<now, accepted, loads, outcome, cancelAnswers, acks, grants>>

(* handle_run_event(Exit | ExitRequested) *)
Shutdown ==
  /\ host' = CloseHost(host, now)
  /\ uncounted' = unfinished
  /\ UNCHANGED <<now, accepted, platform, outcome, cancelAnswers, acks, grants>>

Begun == {id \in RequestId : accepted[id] # None \/ outcome[id] # None}

(* application_request up to the release of the Mutex *)
BeginRequest(context, request) ==
  /\ Cardinality(Begun) < MaxRequests
  /\ Acceptable(host, context, request)
  /\ host' = Begin(host, context, request, now)
  /\ accepted' = [accepted EXCEPT ![request.id] = request.operation]
  /\ UNCHANGED <<now, platform, history>>

(* application_cancel *)
CancelRequest(context, id) ==
  /\ MayCancel(host, context, id)
  /\ host' = Cancel(host, id, now)
  /\ cancelAnswers' = [cancelAnswers EXCEPT ![id] =
                         @ \cup {CancelAnswer(host'.inFlight[id])}]
  /\ UNCHANGED <<now, accepted, platform, outcome, acks, grants, uncounted>>

(* dispatch_health *)
DispatchHealth(operation) ==
  IF operation.kind = "application-health" THEN "healthy" ELSE "unknown-operation"

(* complete_with_availability: the request leaves the flight, and its      *)
(* answer stands if nothing terminal came before it.                       *)
CompleteWith(id, answer) ==
  /\ accepted[id] # None
  /\ LET result == CompletionOutcome(host.inFlight[id], now, answer)
     IN  /\ host' = Complete(host, id, result)
         /\ outcome' = [outcome EXCEPT ![id] = result]
  /\ accepted' = [accepted EXCEPT ![id] = None]
  /\ UNCHANGED <<now, platform, cancelAnswers, grants, uncounted>>

(* application_request from the second lock on *)
CompleteRequest(id) ==
  /\ CompleteWith(id, DispatchHealth(accepted[id]))
  /\ acks' = IF Counts(host, id, outcome'[id]) /\ Emits(host.session, id.sequence)
               THEN [acks EXCEPT ![id.generation] = @ + 1] ELSE acks

Next ==
  \/ Tick
  \/ PageLoadStarted
  \/ \E load \in unfinished : PageLoadFinished(load)
  \/ LoseRenderer
  \/ Shutdown
  \/ \E context \in SenderContext :
       /\ ValidSender(host, context)
       /\ \/ \E request \in UiRequest : BeginRequest(context, request)
          \/ \E id \in RequestId : CancelRequest(context, id)
  \/ \E id \in RequestId : CompleteRequest(id)

Spec == Init /\ [][Next]_vars
-----------------------------------------------------------------------------
TypeOK ==
  /\ host \in Host
  /\ now \in Time
  /\ accepted \in [RequestId -> Operation \cup {None}]
  /\ loads \in 0..MaxLoads
  /\ unfinished \subseteq Load
  /\ outcome \in [RequestId -> Outcome \cup {None}]
  /\ cancelAnswers \in [RequestId -> SUBSET Terminal]
  /\ acks \in [Generation -> Nat]
  /\ grants \subseteq [authority: Authority, by: Load, counted: BOOLEAN]
  /\ uncounted \subseteq Load

(* Work of a document that lost its authority is cancelled: whatever is in *)
(* flight belongs to the current session of a host that still accepts, or  *)
(* carries a cancellation (retire_renderer_authority, shutdown).           *)
RetiredWorkIsCancelled ==
  \A id \in RequestId :
    /\ host.inFlight[id] # None
    /\ host.inFlight[id].cancelledAt = None
    => host.accepting /\ OwnedBySession(host, host.inFlight[id])

(* A request identity lives once: an id is in flight exactly while one     *)
(* handler holds its token, and an id that has ended is never accepted     *)
(* again.  The bounded replay window is not what ensures it                *)
(* (ADR-0006, "not the lifetime-uniqueness authority").                    *)
AcceptedOnce ==
  \A id \in RequestId :
    /\ host.inFlight[id] = None <=> accepted[id] = None
    /\ outcome[id] # None => accepted[id] = None

(* The one who cancels a request and the one who made it are told the same *)
(* thing, however often and however late it is cancelled.                  *)
CancelAnswerIsFinal ==
  \A id \in RequestId :
    outcome[id] # None => cancelAnswers[id] \subseteq {outcome[id]}

(* The package process sees at most one acknowledgement per generation,    *)
(* and only after requests 1 and 2 of that generation were both answered   *)
(* while it was current (acknowledgement_requires_two_successes_...).      *)
AcknowledgedAtMostOnce ==
  \A g \in Generation :
    /\ acks[g] <= 1
    /\ acks[g] = 1 /\ MaxSequence > 1 =>
         \A s \in {1, 2} :
           outcome[[generation |-> g, sequence |-> s]] \in Live

(* A Finished event the host still counts installs the authority of the    *)
(* very document that finished (page_load_ambiguous, pending_page_loads).  *)
CountedInstallsAreExact ==
  \A grant \in grants :
    grant.counted => grant.authority.nonce = grant.by

(* The stronger claim of the test                                          *)
(* overlapping_page_loads_never_install_the_wrong_authority: as long as    *)
(* the host accepts requests, no Finished event has installed the          *)
(* authority of another document.                                          *)
InstallsAreExact ==
  host.accepting => \A grant \in grants : grant.authority.nonce = grant.by

(* A request is answered only before its deadline, by a host that accepts, *)
(* in the session that began it: a cancellation, a replaced or lost        *)
(* document and a shutdown all discard the late answer (ADR-0006).         *)
AnswersAreLive ==
  [][\A id \in RequestId :
       outcome'[id] \in Live /\ outcome[id] = None =>
         /\ host.accepting
         /\ host.session # None
         /\ host.session.generation = id.generation
         /\ cancelAnswers[id] = {}
         /\ now - host.inFlight[id].startedAt < host.inFlight[id].timeout]_vars

IsCurrent(authority, h) ==
  h.session # None /\ h.session.generation = authority.generation

(* An installed authority that has been retired is never current again: a  *)
(* stale document cannot come back to life in a later generation.          *)
RetiredAuthorityStaysRetired ==
  [][\A grant \in grants :
       IsCurrent(grant.authority, host') => IsCurrent(grant.authority, host)]_vars
=============================================================================
