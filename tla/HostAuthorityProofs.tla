------------------------ MODULE HostAuthorityProofs ------------------------
(***************************************************************************)
(* What the page loads install, what the acknowledgements mean, and that   *)
(* the host implements RendererAuthority.  HostLifecycleProofs has the     *)
(* invariant of the host record; here it is extended with what the counts  *)
(* of page loads say (LoadInv) and with what the acknowledgement state of  *)
(* the session says (AckInv, SessionAckInv).                               *)
(***************************************************************************)
EXTENDS HostLifecycleRefinement, HostLifecycleProofs

(* The only loads the host still counts are started after the last event   *)
(* that settled the counts; with exactly one of them, it is the last one   *)
(* started, and the session is its own.                                    *)
LoadInv ==
  /\ loads \in Nat
  /\ unfinished \subseteq 1..loads
  /\ uncounted \subseteq 1..loads
  /\ host.pending = 0 => unfinished \subseteq uncounted
  /\ host.pending = 1 /\ ~host.ambiguous =>
       /\ unfinished \ uncounted \subseteq {loads}
       /\ host.session # None => host.session.nonce = loads

LEMMA RendererLostPages ==
  ASSUME NEW t \in Time, NEW h, HostInv(h, t)
  PROVE  RendererLost(h, t).pending = 0 /\ RendererLost(h, t).session = None
<1> DEFINE r == Retire(h, t)
<1>1. r \in Host BY RetireFacts DEF HostInv
<1> HIDE DEF r
<1>2. [r EXCEPT !.ambiguous = FALSE, !.pending = 0].pending = 0
  BY <1>1 DEF Host
<1> QED BY <1>2, RendererLostFacts DEF RendererLost, r

LEMMA BeginSessionPages ==
  ASSUME NEW t \in Time, NEW nonce, NEW h \in Host
  PROVE  /\ BeginSession(h, nonce, t).pending = h.pending
         /\ BeginSession(h, nonce, t).ambiguous = h.ambiguous
         /\ BeginSession(h, nonce, t).session # None =>
              /\ BeginSession(h, nonce, t).session.nonce = nonce
              /\ BeginSession(h, nonce, t).session.generation = h.generation + 1
<1> DEFINE c == CancelGeneration(h, t)
<1>1. c \in Host /\ c.pending = h.pending /\ c.ambiguous = h.ambiguous
  BY CancelGenerationFacts
<1>2. BeginSession(h, nonce, t) =
        IF h.generation < MaxSequence
          THEN [c EXCEPT !.generation = h.generation + 1,
                         !.session = NewSession(h.generation + 1, nonce)]
          ELSE [c EXCEPT !.session = None]
  BY DEF BeginSession
<1> HIDE DEF c
<1>3. CASE h.generation < MaxSequence
  <2> DEFINE s == NewSession(h.generation + 1, nonce)
             g == h.generation + 1
             n == [c EXCEPT !.generation = g, !.session = s]
  <2>1. s.nonce = nonce /\ s.generation = h.generation + 1 BY DEF NewSession
  <2> HIDE DEF s, g
  <2>2. n.pending = c.pending /\ n.ambiguous = c.ambiguous /\ n.session = s
    BY <1>1 DEF Host
  <2>3. BeginSession(h, nonce, t) = n BY <1>2, <1>3 DEF s, g
  <2> HIDE DEF n
  <2> QED BY <1>1, <2>1, <2>2, <2>3
<1>4. CASE ~(h.generation < MaxSequence)
  <2> DEFINE n == [c EXCEPT !.session = None]
  <2>1. n.pending = c.pending /\ n.ambiguous = c.ambiguous /\ n.session = None
    BY <1>1 DEF Host
  <2>2. BeginSession(h, nonce, t) = n BY <1>2, <1>4
  <2> HIDE DEF n
  <2> QED BY <1>1, <2>1, <2>2
<1> QED BY <1>3, <1>4

LEMMA BeginPageLoadPages ==
  ASSUME NEW t \in Time, NEW nonce, NEW h, HostInv(h, t)
  PROVE  /\ BeginPageLoad(h, nonce, t).pending = h.pending + 1
         /\ BeginPageLoad(h, nonce, t).ambiguous = (h.ambiguous \/ h.pending > 0)
         /\ BeginPageLoad(h, nonce, t).session # None =>
              /\ BeginPageLoad(h, nonce, t).session.nonce = nonce
              /\ BeginPageLoad(h, nonce, t).session.generation = h.generation + 1
<1> DEFINE c == [h EXCEPT !.ambiguous = h.ambiguous \/ h.pending > 0,
                          !.pending = h.pending + 1]
           r == Retire(c, t)
<1>1. /\ HostInv(c, t) /\ c.pending = h.pending + 1
      /\ c.generation = h.generation
      /\ c.ambiguous = (h.ambiguous \/ h.pending > 0)
  <2>1. (h.ambiguous \/ h.pending > 0) \in BOOLEAN /\ h.pending + 1 \in Nat
    BY HostFields DEF HostInv
  <2>2. /\ c \in Host /\ c.pending = h.pending + 1
        /\ c.ambiguous = (h.ambiguous \/ h.pending > 0)
        /\ c.session = h.session /\ c.generation = h.generation
        /\ c.accepting = h.accepting /\ c.inFlight = h.inFlight
    BY <2>1 DEF HostInv, Host
  <2> HIDE DEF c
  <2> QED BY <2>2, CountsDoNotMatter
<1>2. BeginPageLoad(h, nonce, t) = Activate(c, nonce, t) BY DEF BeginPageLoad
<1> HIDE DEF c
<1>3. /\ r \in Host /\ r.pending = c.pending /\ r.ambiguous = c.ambiguous
      /\ r.session = None /\ r.generation = c.generation
  BY <1>1, RetireFacts DEF HostInv
<1>4. Activate(c, nonce, t) = IF nonce = None THEN r ELSE BeginSession(r, nonce, t)
  BY DEF Activate
<1> HIDE DEF r
<1> QED BY <1>1, <1>2, <1>3, <1>4, BeginSessionPages

(* A load that installs its document is the only one counted. *)
LEMMA FinishPageLoadPages ==
  ASSUME NEW t \in Time, NEW h, HostInv(h, t), FinishedAuthority(h) # None
  PROVE  /\ h.pending = 1 /\ ~h.ambiguous /\ h.session # None
         /\ FinishedAuthority(h).nonce = h.session.nonce
         /\ FinishPageLoad(h, t) = [h EXCEPT !.pending = 0]
         /\ FinishPageLoad(h, t).pending = 0
<1>1. /\ h.pending = 1 /\ ~h.ambiguous /\ h.session # None
      /\ FinishedAuthority(h).nonce = h.session.nonce
  BY DEF FinishedAuthority
<1>2. FinishPageLoad(h, t) = [h EXCEPT !.pending = 0]
  BY <1>1 DEF FinishPageLoad
<1>3. [h EXCEPT !.pending = 0].pending = 0 BY DEF HostInv, Host
<1> QED BY <1>1, <1>2, <1>3

LEMMA CloseHostPages ==
  ASSUME NEW t \in Time, NEW h \in Host
  PROVE  CloseHost(h, t).pending = 0
<1> DEFINE f == [id \in RequestId |->
                   IF h.inFlight[id] = None THEN None
                                            ELSE CancelAt(h.inFlight[id], t)]
<1>1. CloseHost(h, t) =
        [h EXCEPT !.accepting = FALSE, !.inFlight = f,
                  !.ambiguous = FALSE, !.pending = 0, !.session = None]
  BY DEF CloseHost
<1> HIDE DEF f
<1> QED BY <1>1 DEF Host

(* Requests leave the counts and the session's document alone. *)
SameDocument(h, h2) ==
  /\ h2.pending = h.pending /\ h2.ambiguous = h.ambiguous
  /\ h2.accepting = h.accepting /\ h2.generation = h.generation
  /\ h2.session # None <=> h.session # None
  /\ h.session # None => /\ h2.session.nonce = h.session.nonce
                         /\ h2.session.generation = h.session.generation

LEMMA BeginDocument ==
  ASSUME NEW h \in Host, NEW context \in SenderContext,
         NEW request \in UiRequest, NEW t \in Time,
         Acceptable(h, context, request)
  PROVE  /\ SameDocument(h, Begin(h, context, request, t))
         /\ LET after == Begin(h, context, request, t).session
            IN  /\ after.emitted = h.session.emitted
                /\ after.firstHealth = h.session.firstHealth
<1> DEFINE q == request.sequence
           w == Remember(h.session.replayed, request.id)
           s0 == h.session
           s == [s0 EXCEPT !.lastSequence = q, !.replayed = w]
           f == [h.inFlight EXCEPT ![request.id] =
                   [generation |-> context.generation, startedAt |-> t,
                    timeout |-> request.timeout, cancelledAt |-> None]]
           n == [h EXCEPT !.session = s, !.inFlight = f]
           Replays == Seq(RequestId)
<1>1. s0 \in RendererSession /\ s0 # None
  BY HostFields DEF Acceptable, ValidSender
<1>2. Begin(h, context, request, t) = n BY DEF Begin, Host
<1>3. q \in 0..MaxSequence /\ w \in Replays
  BY <1>1, RememberType, LifecycleAssumption
  DEF RendererSession, UiRequest, Sequence
<1>4. s0 \in [generation: Generation, nonce: Nonce,
              lastSequence: 0..MaxSequence, replayed: Replays,
              firstHealth: BOOLEAN, emitted: BOOLEAN]
  BY <1>1 DEF RendererSession
<1> HIDE DEF q, w, s0, Replays
<1>5. /\ s \in [generation: Generation, nonce: Nonce,
               lastSequence: 0..MaxSequence, replayed: Replays,
               firstHealth: BOOLEAN, emitted: BOOLEAN]
      /\ s.nonce = s0.nonce /\ s.generation = s0.generation
      /\ s.emitted = s0.emitted /\ s.firstHealth = s0.firstHealth
  BY <1>3, <1>4
<1>6. s # None BY <1>5, NoneAssumption DEF RendererSession, Replays
<1> HIDE DEF s, f
<1>7. /\ n.session = s /\ n.pending = h.pending /\ n.ambiguous = h.ambiguous
      /\ n.accepting = h.accepting /\ n.generation = h.generation
  BY DEF Host
<1> HIDE DEF n
<1>8. SameDocument(h, n) BY <1>1, <1>5, <1>6, <1>7 DEF SameDocument, s0
<1>9. /\ n.session.emitted = h.session.emitted
      /\ n.session.firstHealth = h.session.firstHealth
  BY <1>5, <1>7 DEF s0
<1> QED BY <1>2, <1>8, <1>9

LEMMA CancelDocument ==
  ASSUME NEW h \in Host, NEW id \in RequestId, NEW t \in Time
  PROVE  SameDocument(h, Cancel(h, id, t)) /\ Cancel(h, id, t).session = h.session
<1> DEFINE f == [h.inFlight EXCEPT ![id] = CancelAt(h.inFlight[id], t)]
           n == [h EXCEPT !.inFlight = f]
<1>1. Cancel(h, id, t) = n BY DEF Cancel, Host
<1> HIDE DEF f
<1>2. /\ n.session = h.session /\ n.pending = h.pending
      /\ n.ambiguous = h.ambiguous
      /\ n.accepting = h.accepting /\ n.generation = h.generation
  BY DEF Host
<1> HIDE DEF n
<1> QED BY <1>1, <1>2 DEF SameDocument

LEMMA RecordSuccessSession ==
  ASSUME NEW session \in RendererSession, NEW sequence \in Nat
  PROVE  LET after == RecordSuccess(session, sequence)
         IN  /\ after.nonce = session.nonce
             /\ after.emitted =
                  (session.emitted \/ (sequence = 2 /\ session.firstHealth))
             /\ after.firstHealth = (session.firstHealth \/ sequence = 1)
<1> DEFINE first == session.firstHealth \/ sequence = 1
           emitted == session.emitted \/ (sequence = 2 /\ session.firstHealth)
<1>1. RecordSuccess(session, sequence) =
        [session EXCEPT !.firstHealth = first, !.emitted = emitted]
  BY DEF RecordSuccess
<1>2. first \in BOOLEAN /\ emitted \in BOOLEAN BY DEF RendererSession
<1> HIDE DEF first, emitted
<1>3. LET after == [session EXCEPT !.firstHealth = first, !.emitted = emitted]
      IN  /\ after.nonce = session.nonce
          /\ after.emitted = emitted
          /\ after.firstHealth = first
  BY DEF RendererSession
<1> QED BY <1>1, <1>3 DEF first, emitted

LEMMA CompleteDocument ==
  ASSUME NEW h \in Host, NEW id \in RequestId, NEW answer
  PROVE  /\ SameDocument(h, Complete(h, id, answer))
         /\ Complete(h, id, answer).inFlight = [h.inFlight EXCEPT ![id] = None]
         /\ Complete(h, id, answer).session =
              IF Counts(h, id, answer)
                THEN RecordSuccess(h.session, id.sequence) ELSE h.session
<1> DEFINE f == [h.inFlight EXCEPT ![id] = None]
           s == IF Counts(h, id, answer)
                  THEN RecordSuccess(h.session, id.sequence) ELSE h.session
           n == [h EXCEPT !.inFlight = f, !.session = s]
<1>1. Complete(h, id, answer) = n BY DEF Complete, Host
<1>2. /\ s # None <=> h.session # None
      /\ h.session # None => /\ s.nonce = h.session.nonce
                             /\ s.generation = h.session.generation
  <2>1. CASE Counts(h, id, answer)
    <3>1. h.session \in RendererSession /\ id.sequence \in Nat
      BY <2>1, HostFields DEF Counts, RequestId, Sequence
    <3> QED
      BY <2>1, <3>1, RecordSuccessFacts, RecordSuccessSession, NoneAssumption
  <2>2. CASE ~Counts(h, id, answer) BY <2>2
  <2> QED BY <2>1, <2>2
<1>3. /\ n.session = s /\ n.inFlight = f
      /\ n.pending = h.pending /\ n.ambiguous = h.ambiguous
      /\ n.accepting = h.accepting /\ n.generation = h.generation
  <2> HIDE DEF s, f
  <2> QED BY DEF Host
<1> HIDE DEF n, s, f
<1>4. SameDocument(h, n) BY <1>2, <1>3 DEF SameDocument
<1> QED BY <1>1, <1>3, <1>4 DEF s, f
-----------------------------------------------------------------------------
(* What a page load installs *)

LEMMA LoadsHold ==
  ASSUME IInv, LoadInv, [Next]_vars
  PROVE  LoadInv'
<1>1. /\ now \in Time /\ HostInv(host, now) /\ host \in Host
      /\ host.pending \in Nat /\ loads \in Nat
  BY TimeType, HostFields DEF LoadInv
<1>2. ASSUME SameDocument(host, host'), UNCHANGED <<platform, uncounted>>
      PROVE  LoadInv'
  <2>1. loads' = loads /\ unfinished' = unfinished /\ uncounted' = uncounted
    BY <1>2 DEF platform
  <2> QED BY <1>2, <2>1 DEF LoadInv, SameDocument
<1>3. CASE Tick
  BY <1>3 DEF Tick, LoadInv, platform, history
<1>4. CASE PageLoadStarted
  <2>1. PICK nonce \in {loads + 1, None} : host' = BeginPageLoad(host, nonce, now)
    BY <1>4 DEF PageLoadStarted
  <2>2. /\ host'.pending = host.pending + 1
        /\ host'.ambiguous = (host.ambiguous \/ host.pending > 0)
        /\ host'.session # None => host'.session.nonce = nonce
    BY <1>1, <2>1, BeginPageLoadPages
  <2>3. host'.session # None => nonce = loads + 1
    <3>1. CASE nonce = None
      <4>1. Activate([host EXCEPT !.ambiguous = host.ambiguous \/ host.pending > 0,
                                  !.pending = host.pending + 1], nonce, now).session
              = None
        <5> DEFINE c == [host EXCEPT !.ambiguous = host.ambiguous \/ host.pending > 0,
                                     !.pending = host.pending + 1]
        <5>1. HostInv(c, now)
          <6>1. (host.ambiguous \/ host.pending > 0) \in BOOLEAN
                /\ host.pending + 1 \in Nat
            BY <1>1, HostFields
          <6>2. /\ c \in Host
                /\ c.session = host.session /\ c.generation = host.generation
                /\ c.accepting = host.accepting /\ c.inFlight = host.inFlight
            BY <1>1, <6>1 DEF Host
          <6> HIDE DEF c
          <6> QED BY <1>1, <6>2, CountsDoNotMatter
        <5> HIDE DEF c
        <5>2. Activate(c, nonce, now).session = None
          BY <1>1, <3>1, <5>1, RetireFacts DEF Activate
        <5> QED BY <5>2 DEF c
      <4> QED BY <2>1, <4>1 DEF BeginPageLoad
    <3> QED BY <3>1, <2>1
  <2>4. /\ loads' = loads + 1 /\ unfinished' = unfinished \cup {loads + 1}
        /\ uncounted' = uncounted
    BY <1>4 DEF PageLoadStarted, history
  <2>5. unfinished' \subseteq 1..loads' /\ uncounted' \subseteq 1..loads' /\ loads' \in Nat
    BY <1>1, <2>4 DEF LoadInv
  <2>6. host'.pending # 0 BY <1>1, <2>2
  <2>7. ASSUME host'.pending = 1, ~host'.ambiguous
        PROVE  unfinished' \ uncounted' \subseteq {loads'}
    <3>1. host.pending = 0 BY <1>1, <2>2, <2>7
    <3> QED BY <2>4, <3>1 DEF LoadInv
  <2> QED BY <2>2, <2>3, <2>4, <2>5, <2>6, <2>7 DEF LoadInv
<1>5. ASSUME NEW load \in unfinished, PageLoadFinished(load) PROVE LoadInv'
  <2> DEFINE after == FinishPageLoad(host, now)
  <2>1. host'.pending = 0
    <3>1. CASE FinishedAuthority(host) # None /\ host' = after
      BY <1>1, <3>1, FinishPageLoadPages
    <3>2. CASE host' = RendererLost(after, now)
      <4>1. HostInv(after, now) BY <1>1, FinishPageLoadFacts DEF DocumentEvent
      <4> HIDE DEF after
      <4> QED BY <1>1, <3>2, <4>1, RendererLostPages
    <3> QED BY <1>5, <3>1, <3>2 DEF PageLoadFinished
  <2>2. /\ loads' = loads /\ unfinished' \subseteq unfinished
        /\ uncounted' = unfinished'
    BY <1>5 DEF PageLoadFinished
  <2> QED BY <2>1, <2>2 DEF LoadInv
<1>6. CASE LoseRenderer
  <2>1. host'.pending = 0 BY <1>1, <1>6, RendererLostPages DEF LoseRenderer
  <2> QED BY <1>1, <1>6, <2>1 DEF LoseRenderer, LoadInv
<1>7. CASE Shutdown
  <2>1. host'.pending = 0 BY <1>1, <1>7, CloseHostPages DEF Shutdown
  <2> QED BY <1>7, <2>1 DEF Shutdown, LoadInv, platform
<1>8. ASSUME NEW context \in SenderContext, NEW request \in UiRequest,
             BeginRequest(context, request)
      PROVE  LoadInv'
  BY <1>1, <1>2, <1>8, BeginDocument DEF BeginRequest, history
<1>9. ASSUME NEW context \in SenderContext, NEW id \in RequestId,
             CancelRequest(context, id)
      PROVE  LoadInv'
  BY <1>1, <1>2, <1>9, CancelDocument DEF CancelRequest
<1>10. ASSUME NEW id \in RequestId, CompleteRequest(id) PROVE LoadInv'
  BY <1>1, <1>2, <1>10, CompleteDocument DEF CompleteRequest, CompleteWith
<1>11. CASE UNCHANGED vars
  BY <1>11 DEF vars, LoadInv, platform, history
<1> QED
  BY <1>3, <1>4, <1>5, <1>6, <1>7, <1>8, <1>9, <1>10, <1>11 DEF Next

LEMMA InstallsStayExact ==
  ASSUME IInv, LoadInv, CountedInstallsAreExact, [Next]_vars
  PROVE  CountedInstallsAreExact'
<1>1. CASE grants' = grants
  BY <1>1 DEF CountedInstallsAreExact
<1>2. ASSUME NEW load \in unfinished, PageLoadFinished(load),
             FinishedAuthority(host) # None,
             grants' = grants \cup {[authority |-> FinishedAuthority(host),
                                     by |-> load,
                                     counted |-> load \notin uncounted]}
      PROVE  CountedInstallsAreExact'
  <2> SUFFICES ASSUME NEW grant \in grants', grant.counted, grant \notin grants
               PROVE  grant.authority.nonce = grant.by
    BY DEF CountedInstallsAreExact
  <2> DEFINE c == load \notin uncounted
  <2>1. grant = [authority |-> FinishedAuthority(host), by |-> load, counted |-> c]
    BY <1>2
  <2>2. load \notin uncounted
    <3>1. grant.counted = c
      <4> HIDE DEF c
      <4> QED BY <2>1
    <3> QED BY <3>1
  <2>3. /\ host.pending = 1 /\ ~host.ambiguous /\ host.session # None
        /\ FinishedAuthority(host).nonce = host.session.nonce
    BY <1>2, TimeType, FinishPageLoadPages
  <2>4. load = loads /\ host.session.nonce = loads
    BY <1>2, <2>2, <2>3 DEF LoadInv
  <2> HIDE DEF c
  <2> QED BY <2>1, <2>3, <2>4
<1>3. \/ grants' = grants
      \/ \E load \in unfinished :
           /\ PageLoadFinished(load)
           /\ FinishedAuthority(host) # None
           /\ grants' = grants \cup {[authority |-> FinishedAuthority(host),
                                      by |-> load,
                                      counted |-> load \notin uncounted]}
  <2>1. ASSUME NEW load \in unfinished, PageLoadFinished(load)
        PROVE  \/ grants' = grants
               \/ /\ FinishedAuthority(host) # None
                  /\ grants' = grants \cup {[authority |-> FinishedAuthority(host),
                                             by |-> load,
                                             counted |-> load \notin uncounted]}
    BY <2>1 DEF PageLoadFinished
  <2>2. \/ grants' = grants
        \/ \E load \in unfinished : PageLoadFinished(load)
    BY DEF Next, vars, platform, history, Tick, PageLoadStarted,
           LoseRenderer, Shutdown, BeginRequest, CancelRequest,
           CompleteRequest, CompleteWith
  <2> QED BY <2>1, <2>2
<1> QED BY <1>1, <1>2, <1>3

(* A Finished event the host still counts installs the authority of the    *)
(* very document that finished, for any number of loads, failed nonces and *)
(* lost renderers (begin_page_load, finish_renderer_page_load).            *)
THEOREM CountedInstallsAreAlwaysExact == Spec => []CountedInstallsAreExact
<1> DEFINE J == IInv /\ LoadInv /\ CountedInstallsAreExact
<1>1. Init => J
  <2>1. Init => LoadInv /\ CountedInstallsAreExact
    BY DEF Init, NewHost, LoadInv, CountedInstallsAreExact
  <2> QED BY <2>1, InitEstablishes
<1>2. J /\ [Next]_vars => J'
  BY NextKeeps, LoadsHold, InstallsStayExact
<1>3. J => CountedInstallsAreExact OBVIOUS
<1> QED BY <1>1, <1>2, <1>3, PTL DEF Spec
-----------------------------------------------------------------------------
(* Acknowledgements *)

IdOf(g, s) == [generation |-> g, sequence |-> s]

(* Nothing is acknowledged of a generation to come, and what was           *)
(* acknowledged of another was earned by its first two requests.           *)
AckInv ==
  \A g \in Generation :
    /\ g > host.generation => acks[g] = 0
    /\ acks[g] <= 1
    /\ acks[g] = 1 => /\ outcome[IdOf(g, 1)] \in Live
                      /\ outcome[IdOf(g, 2)] \in Live

(* The acknowledgement state of the session says what was printed of its   *)
(* generation, and that its first request was answered.                    *)
SessionAckInv ==
  host.session # None =>
    /\ host.session.emitted <=> acks[host.session.generation] = 1
    /\ host.session.firstHealth =>
         outcome[IdOf(host.session.generation, 1)] \in Live

LEMMA DocumentEventKeepsAcks ==
  ASSUME IInv, AckInv, SessionAckInv, DocumentEvent(host, host', now),
         acks' = acks, outcome' = outcome
  PROVE  AckInv' /\ SessionAckInv'
<1>1. /\ host.generation \in Nat /\ host'.generation \in Nat
      /\ host.generation <= host'.generation
      /\ host'.session # None =>
           /\ host'.session.generation = host'.generation
           /\ host'.session.generation \in Generation
  BY TimeType, HostFields DEF DocumentEvent, HostInv, RendererSession
<1>2. AckInv'
  BY <1>1 DEF AckInv, Generation
<1>3. SessionAckInv'
  <2>1. CASE host'.session \in {None, host.session}
    BY <2>1 DEF SessionAckInv
  <2>2. CASE /\ host'.generation = host.generation + 1
             /\ host'.session # None
             /\ ~host'.session.firstHealth /\ ~host'.session.emitted
    <3>1. acks[host'.session.generation] = 0
      BY <1>1, <2>2 DEF AckInv
    <3> QED BY <2>2, <3>1 DEF SessionAckInv
  <2> QED BY <2>1, <2>2 DEF DocumentEvent
<1> QED BY <1>2, <1>3

LEMMA CompletionKeepsAcks ==
  ASSUME IInv, AckInv, SessionAckInv, NEW old \in RequestId,
         CompleteRequest(old)
  PROVE  AckInv' /\ SessionAckInv'
<1> DEFINE answer == DispatchHealth(accepted[old])
           result == CompletionOutcome(host.inFlight[old], now, answer)
           g0 == old.generation
<1>1. /\ host \in Host /\ outcome \in [RequestId -> Outcome \cup {None}]
      /\ acks \in [Generation -> Nat]
      /\ g0 \in Generation /\ old.sequence \in Nat
      /\ old = IdOf(g0, old.sequence)
      /\ host.session \in RendererSession \cup {None}
  BY TimeType, HostFields DEF IInv, TypeOK, RequestId, Sequence, IdOf
<1>2. /\ accepted[old] # None
      /\ host' = Complete(host, old, result)
      /\ outcome' = [outcome EXCEPT ![old] = result]
      /\ acks' = IF Counts(host, old, outcome'[old])
                      /\ Emits(host.session, old.sequence)
                   THEN [acks EXCEPT ![g0] = acks[g0] + 1] ELSE acks
  BY DEF CompleteRequest, CompleteWith
<1> HIDE DEF result
<1>3. outcome'[old] = result /\ outcome[old] = None
      /\ \A id \in RequestId : id # old => outcome'[id] = outcome[id]
  BY <1>1, <1>2 DEF IInv, AcceptedOnce
<1>4. None \notin Live BY NoneAssumption DEF Outcome
<1>5. \A id \in RequestId : outcome[id] \in Live => outcome'[id] \in Live
  BY <1>3, <1>4
<1>6. \A g \in Generation, s \in Sequence : IdOf(g, s) \in RequestId
  BY DEF IdOf, RequestId
<1>7. /\ SameDocument(host, host')
      /\ host'.session = IF Counts(host, old, result)
                           THEN RecordSuccess(host.session, old.sequence)
                           ELSE host.session
  BY <1>1, <1>2, CompleteDocument
<1>8. CASE ~Counts(host, old, result)
  <2>1. acks' = acks /\ host'.session = host.session
    BY <1>2, <1>3, <1>7, <1>8
  <2>2. \A id : outcome[id] \in Live => outcome'[id] \in Live
    BY <1>1, <1>2, <1>3, <1>4, <1>5
  <2>3. host'.generation = host.generation BY <1>7 DEF SameDocument
  <2> QED BY <2>1, <2>2, <2>3 DEF AckInv, SessionAckInv
<1>9. CASE Counts(host, old, result)
  <2>1. /\ result \in Live /\ host.session # None
        /\ host.session.generation = g0 /\ g0 = host.generation
        /\ host.session \in RendererSession
    BY <1>1, <1>9, TimeType DEF Counts, HostInv
  <2>2. /\ host'.session # None /\ host'.generation = host.generation
        /\ host'.session.generation = g0
    BY <1>7, <2>1 DEF SameDocument
  <2>3. /\ host'.session.emitted =
             (host.session.emitted \/ (old.sequence = 2 /\ host.session.firstHealth))
        /\ host'.session.firstHealth =
             (host.session.firstHealth \/ old.sequence = 1)
    <3>1. host'.session = RecordSuccess(host.session, old.sequence)
      BY <1>7, <1>9
    <3> QED BY <1>1, <2>1, <3>1, RecordSuccessSession
  <2>4. host.session.firstHealth => outcome'[IdOf(g0, 1)] \in Live
    BY <2>1, <1>1, <1>2, <1>4, <1>5 DEF SessionAckInv, IdOf
  <2>5. host'.session.firstHealth => outcome'[IdOf(g0, 1)] \in Live
    BY <1>1, <1>3, <2>1, <2>3, <2>4
  <2>6. \A id : outcome[id] \in Live => outcome'[id] \in Live
    BY <1>1, <1>2, <1>3, <1>4, <1>5
  <2>7. CASE Emits(host.session, old.sequence)
    <3>1. /\ old.sequence = 2 /\ host.session.firstHealth
          /\ ~host.session.emitted
          /\ acks' = [acks EXCEPT ![g0] = acks[g0] + 1]
      BY <1>2, <1>3, <1>9, <2>7 DEF Emits
    <3>2. acks[g0] = 0
      BY <1>1, <2>1, <3>1 DEF AckInv, SessionAckInv
    <3>3. acks'[g0] = 1 /\ \A g \in Generation : g # g0 => acks'[g] = acks[g]
      BY <1>1, <3>1, <3>2
    <3>4. outcome'[IdOf(g0, 2)] \in Live
      BY <1>1, <1>3, <2>1, <3>1
    <3>5. AckInv'
      <4> SUFFICES ASSUME NEW g \in Generation
                   PROVE  /\ g > host.generation => acks'[g] = 0
                          /\ acks'[g] <= 1
                          /\ acks'[g] = 1 => /\ outcome'[IdOf(g, 1)] \in Live
                                             /\ outcome'[IdOf(g, 2)] \in Live
        BY <2>2 DEF AckInv
      <4>1. CASE g = g0
        BY <1>1, <2>1, <2>4, <3>1, <3>3, <3>4, <4>1 DEF Generation
      <4>2. CASE g # g0
        BY <2>6, <3>3, <4>2 DEF AckInv
      <4> QED BY <4>1, <4>2
    <3>6. SessionAckInv'
      BY <2>2, <2>3, <2>5, <3>1, <3>3 DEF SessionAckInv
    <3> QED BY <3>5, <3>6
  <2>8. CASE ~Emits(host.session, old.sequence)
    <3>1. acks' = acks BY <1>2, <2>8
    <3>2. host'.session.emitted <=> host.session.emitted
      BY <2>1, <2>3, <2>8 DEF Emits, RendererSession
    <3>3. AckInv' BY <2>2, <2>6, <3>1 DEF AckInv
    <3>4. SessionAckInv'
      BY <2>1, <2>2, <2>5, <3>1, <3>2 DEF SessionAckInv
    <3> QED BY <3>3, <3>4
  <2> QED BY <2>7, <2>8
<1> QED BY <1>8, <1>9

LEMMA AcksHold ==
  ASSUME IInv, AckInv, SessionAckInv, [Next]_vars
  PROVE  AckInv' /\ SessionAckInv'
<1>1. /\ now \in Time /\ HostInv(host, now) /\ host \in Host BY TimeType
<1>2. CASE Tick
  BY <1>2 DEF Tick, history, AckInv, SessionAckInv
<1>3. CASE PageLoadStarted
  BY <1>3, PageLoadStartedKeeps, DocumentEventKeepsAcks DEF PageLoadStarted, history
<1>4. ASSUME NEW load \in unfinished, PageLoadFinished(load)
      PROVE  AckInv' /\ SessionAckInv'
  BY <1>4, PageLoadFinishedKeeps, DocumentEventKeepsAcks DEF PageLoadFinished
<1>5. CASE LoseRenderer
  BY <1>5, LoseRendererKeeps, DocumentEventKeepsAcks DEF LoseRenderer
<1>6. CASE Shutdown
  BY <1>6, ShutdownKeeps, DocumentEventKeepsAcks DEF Shutdown
<1>7. ASSUME NEW context \in SenderContext, NEW request \in UiRequest,
             BeginRequest(context, request)
      PROVE  AckInv' /\ SessionAckInv'
  <2>1. /\ SameDocument(host, host')
        /\ host'.session.emitted = host.session.emitted
        /\ host'.session.firstHealth = host.session.firstHealth
    BY <1>1, <1>7, BeginDocument DEF BeginRequest
  <2>2. acks' = acks /\ outcome' = outcome BY <1>7 DEF BeginRequest, history
  <2> QED BY <2>1, <2>2 DEF AckInv, SessionAckInv, SameDocument
<1>8. ASSUME NEW context \in SenderContext, NEW id \in RequestId,
             CancelRequest(context, id)
      PROVE  AckInv' /\ SessionAckInv'
  <2>1. SameDocument(host, host') /\ host'.session = host.session
    BY <1>1, <1>8, CancelDocument DEF CancelRequest
  <2>2. acks' = acks /\ outcome' = outcome BY <1>8 DEF CancelRequest
  <2> QED BY <2>1, <2>2 DEF AckInv, SessionAckInv, SameDocument
<1>9. ASSUME NEW id \in RequestId, CompleteRequest(id)
      PROVE  AckInv' /\ SessionAckInv'
  BY <1>9, CompletionKeepsAcks
<1>10. CASE UNCHANGED vars
  BY <1>10 DEF vars, history, AckInv, SessionAckInv
<1> QED
  BY <1>2, <1>3, <1>4, <1>5, <1>6, <1>7, <1>8, <1>9, <1>10 DEF Next

(* The package process sees at most one acknowledgement per generation,    *)
(* and only after requests 1 and 2 of that generation were both answered   *)
(* (AcknowledgementState::record_success), for any number of generations.  *)
THEOREM AcknowledgementsAreEarnedOnce == Spec => []AcknowledgedAtMostOnce
<1> DEFINE J == IInv /\ AckInv /\ SessionAckInv
<1>1. Init => J
  <2>1. Init => AckInv /\ SessionAckInv
    BY DEF Init, NewHost, AckInv, SessionAckInv
  <2> QED BY <2>1, InitEstablishes
<1>2. J /\ [Next]_vars => J' BY NextKeeps, AcksHold
<1>3. J => AcknowledgedAtMostOnce
  BY DEF AckInv, AcknowledgedAtMostOnce, IdOf
<1> QED BY <1>1, <1>2, <1>3, PTL DEF Spec
-----------------------------------------------------------------------------
(* The host implements RendererAuthority *)

LEMMA StatusElsewhere ==
  ASSUME NEW old \in RequestId,
         \A id \in RequestId : id # old =>
           outcome'[id] = outcome[id] /\ host'.inFlight[id] = host.inFlight[id]
  PROVE  RequestStatus' = [RequestStatus EXCEPT ![old] = StatusOf(old)']
<1>1. \A id \in RequestId : id # old => StatusOf(id)' = StatusOf(id)
  BY DEF StatusOf
<1>2. RequestStatus = [id \in RequestId |-> StatusOf(id)]
  BY DEF RequestStatus
<1>3. RequestStatus' = [id \in RequestId |-> StatusOf(id)']
  BY DEF RequestStatus
<1> HIDE DEF RequestStatus
<1> QED BY <1>1, <1>2, <1>3

LEMMA StutterMaps ==
  ASSUME SameDocument(host, host'), RequestStatus' = RequestStatus
  PROVE  UNCHANGED Promise!vars
BY DEF SameDocument, Promise!vars, AuthorityCurrent

(* A page-load, window or run event that leaves no document with authority *)
(* or creates a new one takes it from the old one, with all its requests.  *)
LEMMA ReplaceMaps ==
  ASSUME IInv, DocumentEvent(host, host', now),
         accepted' = accepted, outcome' = outcome,
         \/ host'.session = None
         \/ ~host'.accepting
         \/ host'.generation = host.generation + 1
  PROVE  Promise!Replace
<1>1. /\ HostInv(host, now) /\ HostInv(host', now)
      /\ OnlyCancels(host, host', now)
      /\ host.generation \in Nat /\ host'.generation \in Nat
  BY TimeType, HostFields DEF DocumentEvent, HostInv
<1>2. \A id \in RequestId :
        host'.inFlight[id] # None => host'.inFlight[id].cancelledAt # None
  <2> SUFFICES ASSUME NEW id \in RequestId, host'.inFlight[id] # None,
                      host'.inFlight[id].cancelledAt = None
               PROVE  FALSE
    OBVIOUS
  <2>1. /\ host'.accepting /\ host'.session # None
        /\ host'.inFlight[id].generation = host'.session.generation
        /\ host'.inFlight[id].generation = id.generation
        /\ host'.session.generation = host'.generation
    BY <1>1 DEF HostInv, OthersAreCancelled, OwnedBySession, EntriesAreOwn
  <2>2. host.inFlight[id] # None BY <1>1 DEF OnlyCancels
  <2>3. id.generation <= host.generation
    BY <2>2 DEF IInv, AcceptedOnce, UsedIdsArePassed
  <2>4. host'.generation = host.generation + 1 BY <2>1
  <2>5. id.generation = host.generation + 1 BY <2>1, <2>4
  <2> QED BY <1>1, <2>3, <2>5
<1>3. RequestStatus' = [id \in RequestId |->
                          IF RequestStatus[id] = "live" THEN "doomed"
                                                        ELSE RequestStatus[id]]
  <2>1. ASSUME NEW id \in RequestId
        PROVE  StatusOf(id)' = IF StatusOf(id) = "live" THEN "doomed"
                                                        ELSE StatusOf(id)
    <3>1. /\ host.inFlight[id] = None <=> host'.inFlight[id] = None
          /\ host'.inFlight[id] # None => host'.inFlight[id].cancelledAt # None
      BY <1>1, <1>2 DEF OnlyCancels
    <3> QED BY <3>1 DEF StatusOf
  <2>2. \A id \in RequestId : RequestStatus[id] = StatusOf(id)
    BY DEF RequestStatus
  <2>3. RequestStatus' = [id \in RequestId |-> StatusOf(id)']
    BY DEF RequestStatus
  <2> HIDE DEF RequestStatus
  <2> QED BY <2>1, <2>2, <2>3
<1>4. host'.generation \in {host.generation, host.generation + 1}
  BY DEF DocumentEvent
<1>5. AuthorityCurrent' \in {None} \cup (IF host'.generation > host.generation
                                         THEN {host'.generation} ELSE {})
  BY <1>1 DEF AuthorityCurrent, HostInv
<1> QED BY <1>3, <1>4, <1>5 DEF Promise!Replace

LEMMA DocumentsImplement ==
  ASSUME IInv
  PROVE  /\ PageLoadStarted => Promise!Replace
         /\ \A load \in unfinished :
              PageLoadFinished(load) => Promise!Replace \/ UNCHANGED Promise!vars
         /\ LoseRenderer => Promise!Replace
         /\ Shutdown => Promise!Replace
<1>1. /\ now \in Time /\ HostInv(host, now) /\ host \in Host BY TimeType
<1>2. ASSUME PageLoadStarted PROVE Promise!Replace
  <2>1. /\ DocumentEvent(host, host', now) /\ HostInv(host', now)
        /\ accepted' = accepted /\ outcome' = outcome
    BY <1>2, PageLoadStartedKeeps DEF PageLoadStarted, history, DocumentEvent
  <2>2. PICK nonce \in {loads + 1, None} : host' = BeginPageLoad(host, nonce, now)
    BY <1>2 DEF PageLoadStarted
  <2>3. host'.session # None => host'.session.generation = host.generation + 1
    <3> DEFINE h2 == BeginPageLoad(host, nonce, now)
    <3>1. h2.session # None => h2.session.generation = host.generation + 1
      BY <1>1, BeginPageLoadPages
    <3> HIDE DEF h2
    <3>2. host' = h2 BY <2>2 DEF h2
    <3> QED BY <3>1, <3>2
  <2>4. host'.session # None => host'.generation = host.generation + 1
    BY <2>1, <2>3 DEF HostInv
  <2> QED BY <2>1, <2>4, ReplaceMaps
<1>3. ASSUME NEW load \in unfinished, PageLoadFinished(load)
      PROVE  Promise!Replace \/ UNCHANGED Promise!vars
  <2> DEFINE after == FinishPageLoad(host, now)
  <2>1. /\ DocumentEvent(host, host', now)
        /\ accepted' = accepted /\ outcome' = outcome
    BY <1>3, PageLoadFinishedKeeps DEF PageLoadFinished
  <2>2. CASE FinishedAuthority(host) # None /\ host' = after
    <3>1. host' = [host EXCEPT !.pending = 0]
      BY <1>1, <2>2, FinishPageLoadPages
    <3>2. /\ host'.session = host.session /\ host'.generation = host.generation
          /\ host'.accepting = host.accepting /\ host'.inFlight = host.inFlight
      BY <1>1, <3>1 DEF Host
    <3>3. AuthorityCurrent' = AuthorityCurrent BY <3>2 DEF AuthorityCurrent
    <3>4. RequestStatus' = RequestStatus
      BY <2>1, <3>2 DEF RequestStatus, StatusOf
    <3> QED BY <3>2, <3>3, <3>4 DEF Promise!vars
  <2>3. CASE host' = RendererLost(after, now)
    <3>1. HostInv(after, now) BY <1>1, FinishPageLoadFacts DEF DocumentEvent
    <3> HIDE DEF after
    <3>2. host'.session = None BY <1>1, <2>3, <3>1, RendererLostPages
    <3> QED BY <2>1, <3>2, ReplaceMaps
  <2> QED BY <1>3, <2>2, <2>3 DEF PageLoadFinished
<1>4. ASSUME LoseRenderer PROVE Promise!Replace
  <2>1. host'.session = None BY <1>1, <1>4, RendererLostPages DEF LoseRenderer
  <2> QED BY <1>4, <2>1, LoseRendererKeeps, ReplaceMaps DEF LoseRenderer
<1>5. ASSUME Shutdown PROVE Promise!Replace
  <2>1. ~host'.accepting BY <1>1, <1>5, CloseHostFacts DEF Shutdown
  <2> QED BY <1>5, <2>1, ShutdownKeeps, ReplaceMaps DEF Shutdown
<1> QED BY <1>2, <1>3, <1>4, <1>5

LEMMA RequestsImplement ==
  ASSUME IInv
  PROVE  /\ \A context \in SenderContext, request \in UiRequest :
              BeginRequest(context, request) => Promise!Next
         /\ \A context \in SenderContext, id \in RequestId :
              CancelRequest(context, id) => Promise!Next \/ UNCHANGED Promise!vars
         /\ \A id \in RequestId : CompleteRequest(id) => Promise!Next
<1>1. /\ now \in Time /\ HostInv(host, now) /\ host \in Host
      /\ host.inFlight \in [RequestId -> InFlight \cup {None}]
  BY TimeType, HostFields
<1>2. None \notin Live BY NoneAssumption DEF Outcome
<1>3. ASSUME NEW id \in RequestId
      PROVE  RequestStatus[id] = StatusOf(id) /\ GenerationOfId[id] = id.generation
  BY DEF RequestStatus, GenerationOfId
<1>4. ASSUME SameDocument(host, host')
      PROVE  host'.generation = host.generation /\ AuthorityCurrent' = AuthorityCurrent
  BY <1>4 DEF SameDocument, AuthorityCurrent
<1>5. ASSUME NEW context \in SenderContext, NEW request \in UiRequest,
             BeginRequest(context, request)
      PROVE  Promise!Next
  <2> DEFINE new == request.id
             entry == [generation |-> request.id.generation, startedAt |-> now,
                       timeout |-> request.timeout, cancelledAt |-> None]
  <2>1. /\ SameDocument(host, host') /\ outcome' = outcome
        /\ new \in RequestId
    BY <1>1, <1>5, BeginDocument DEF BeginRequest, history, UiRequest
  <2>2. /\ host.inFlight[new] = None /\ outcome[new] = None
        /\ host'.inFlight = [host.inFlight EXCEPT ![new] = entry]
        /\ new.generation = host.session.generation /\ host.session # None
        /\ host.accepting
    <3>1. Acceptable(host, context, request) /\ host' = Begin(host, context, request, now)
      BY <1>5 DEF BeginRequest
    <3>2. /\ host.inFlight[new] = None /\ host.session # None /\ host.accepting
          /\ new.generation = context.generation
          /\ new.generation = host.session.generation
      BY <3>1 DEF Acceptable, ValidSender
    <3>3. outcome[new] = None BY <1>5, BeginRequestKeeps
    <3>4. host'.inFlight = [host.inFlight EXCEPT ![new] =
                              [generation |-> context.generation, startedAt |-> now,
                               timeout |-> request.timeout, cancelledAt |-> None]]
      BY <1>1, <3>1 DEF Begin, Host
    <3> QED BY <3>2, <3>3, <3>4
  <2>3. entry # None /\ entry.cancelledAt = None
    <3>1. entry \in InFlight
      BY <1>1, <2>1 DEF InFlight, UiRequest, RequestId
    <3> QED BY <3>1, NoneAssumption
  <2> HIDE DEF entry
  <2>4. host'.inFlight[new] = entry
        /\ \A id \in RequestId : id # new => host'.inFlight[id] = host.inFlight[id]
    BY <1>1, <2>1, <2>2
  <2>5. StatusOf(new) = "new" BY <1>2, <2>2 DEF StatusOf
  <2>6. RequestStatus' = [RequestStatus EXCEPT ![new] = "live"]
    <3>1. PICK old \in RequestId : old = new BY <2>1
    <3>2. StatusOf(old)' = "live"
      BY <1>2, <2>1, <2>2, <2>3, <2>4, <3>1 DEF StatusOf
    <3>3. RequestStatus' = [RequestStatus EXCEPT ![old] = StatusOf(old)']
      BY <2>1, <2>4, <3>1, StatusElsewhere
    <3> QED BY <3>1, <3>2, <3>3
  <2>7. AuthorityCurrent # None /\ GenerationOfId[new] = AuthorityCurrent
    <3>1. host.session.generation # None
      BY <1>1, <2>2, NoneAssumption DEF HostInv, Host
    <3> QED BY <1>3, <2>1, <2>2, <3>1 DEF AuthorityCurrent
  <2>8. Promise!Accept(new)
    BY <1>3, <1>4, <2>1, <2>5, <2>6, <2>7 DEF Promise!Accept
  <2> QED BY <2>1, <2>8 DEF Promise!Next
<1>6. ASSUME NEW context \in SenderContext, NEW id \in RequestId,
             CancelRequest(context, id)
      PROVE  Promise!Next \/ UNCHANGED Promise!vars
  <2> DEFINE entry == CancelAt(host.inFlight[id], now)
  <2>1. /\ SameDocument(host, host') /\ outcome' = outcome
        /\ host.inFlight[id] # None /\ host.inFlight[id] \in InFlight
    BY <1>1, <1>6, CancelDocument DEF CancelRequest, MayCancel
  <2>2. entry # None /\ entry.cancelledAt # None
    BY <1>1, <2>1, CancelAtType
  <2>3. host'.inFlight = [host.inFlight EXCEPT ![id] = entry]
    BY <1>1, <1>6 DEF CancelRequest, Cancel, Host
  <2> HIDE DEF entry
  <2>4. host'.inFlight[id] = entry
        /\ \A other \in RequestId :
             other # id => host'.inFlight[other] = host.inFlight[other]
    BY <1>1, <2>3
  <2>5. outcome[id] = None BY <2>1 DEF IInv, AcceptedOnce
  <2>6. StatusOf(id)' = "doomed"
    BY <1>2, <2>1, <2>2, <2>4, <2>5 DEF StatusOf
  <2>7. RequestStatus' = [RequestStatus EXCEPT ![id] = "doomed"]
    BY <2>1, <2>4, <2>6, StatusElsewhere
  <2>8. StatusOf(id) \in {"live", "doomed"}
    BY <1>2, <2>1, <2>5 DEF StatusOf
  <2>9. CASE StatusOf(id) = "live"
    <3>1. Promise!Doom(id)
      BY <1>3, <1>4, <2>1, <2>7, <2>9 DEF Promise!Doom
    <3> QED BY <3>1 DEF Promise!Next
  <2>10. CASE StatusOf(id) = "doomed"
    <3>1. RequestStatus' = RequestStatus
      BY <1>3, <2>7, <2>10 DEF RequestStatus
    <3> QED BY <2>1, <3>1, StutterMaps
  <2> QED BY <2>8, <2>9, <2>10
<1>7. ASSUME NEW id \in RequestId, CompleteRequest(id) PROVE Promise!Next
  <2> DEFINE result == CompletionOutcome(host.inFlight[id], now,
                                         DispatchHealth(accepted[id]))
             entry == host.inFlight[id]
  <2>1. /\ CompleteWith(id, DispatchHealth(accepted[id]))
        /\ DispatchHealth(accepted[id]) \in Live
        /\ acks' \in [Generation -> Nat]
    BY <1>7, CompleteRequestCounts
  <2>2. /\ accepted[id] # None
        /\ host' = Complete(host, id, result)
        /\ outcome' = [outcome EXCEPT ![id] = result]
    BY <2>1 DEF CompleteWith
  <2>3. /\ entry \in InFlight /\ entry # None /\ outcome[id] = None
    BY <1>1, <2>2 DEF IInv, AcceptedOnce
  <2>4. result \in Live \cup Terminal
    <3>1. now \in Nat BY <1>1 DEF Time
    <3> QED BY <2>1, <2>3, <3>1, CompletionOutcomeFacts
  <2>5. /\ SameDocument(host, host')
        /\ host'.inFlight = [host.inFlight EXCEPT ![id] = None]
    BY <1>1, <2>2, CompleteDocument
  <2> HIDE DEF result
  <2>6. /\ \A other \in RequestId : other # id =>
             /\ host'.inFlight[other] = host.inFlight[other]
             /\ outcome'[other] = outcome[other]
        /\ outcome'[id] = result
    BY <1>1, <2>2, <2>5 DEF IInv, TypeOK
  <2>7. RequestStatus' = [RequestStatus EXCEPT ![id] = StatusOf(id)']
    BY <2>6, StatusElsewhere
  <2>8. StatusOf(id) \in {"live", "doomed"}
    BY <1>2, <2>3 DEF StatusOf
  <2>9. CASE result \in Live
    <3>1. /\ host.accepting /\ host.session # None
          /\ host.session.generation = id.generation
          /\ entry.cancelledAt = None
      <4>1. entry.cancelledAt # None => entry.cancelledAt <= now
        BY <1>1, <2>3 DEF HostInv, EntriesAreOwn
      <4>2. now \in Nat BY <1>1 DEF Time
      <4>3. entry.cancelledAt # None => result = CancelAnswer(entry)
        BY <2>1, <2>3, <4>1, <4>2, CompletionOutcomeFacts DEF result
      <4>4. CancelAnswer(entry) \notin Live BY DEF CancelAnswer, Live
      <4>5. entry.cancelledAt = None BY <2>9, <4>3, <4>4
      <4>6. host.accepting /\ OwnedBySession(host, entry)
        BY <1>1, <2>3, <4>5 DEF HostInv, OthersAreCancelled
      <4>7. entry.generation = id.generation
        BY <1>1, <2>3 DEF HostInv, EntriesAreOwn
      <4> QED BY <4>5, <4>6, <4>7 DEF OwnedBySession
    <3>2. StatusOf(id) = "live" BY <1>2, <2>3, <3>1 DEF StatusOf
    <3>3. StatusOf(id)' = "answered"
      <4>1. outcome'[id] \in Live BY <2>6, <2>9
      <4> QED BY <1>2, <4>1 DEF StatusOf
    <3>4. AuthorityCurrent = id.generation /\ AuthorityCurrent # None
      <4>1. host.session.generation # None
        BY <1>1, <3>1, NoneAssumption DEF HostInv, Host
      <4> QED BY <3>1, <4>1 DEF AuthorityCurrent
    <3>5. Promise!Answer(id)
      BY <1>3, <1>4, <2>5, <2>7, <3>2, <3>3, <3>4 DEF Promise!Answer
    <3> QED BY <3>5 DEF Promise!Next
  <2>10. CASE result \in Terminal
    <3>1. result # None /\ result \notin Live
      BY <2>10, NoneAssumption DEF Outcome, Live, Terminal
    <3>2. StatusOf(id)' = "discarded" BY <2>6, <3>1 DEF StatusOf
    <3>3. Promise!Discard(id)
      BY <1>3, <1>4, <2>5, <2>7, <2>8, <3>2 DEF Promise!Discard
    <3> QED BY <3>3 DEF Promise!Next
  <2> QED BY <2>4, <2>9, <2>10
<1> QED BY <1>5, <1>6, <1>7

LEMMA NextImplements ==
  ASSUME IInv, [Next]_vars
  PROVE  [Promise!Next]_(Promise!vars)
<1>1. CASE Tick \/ UNCHANGED vars
  BY <1>1 DEF Tick, vars, history, Promise!vars, AuthorityCurrent,
              RequestStatus, StatusOf
<1>2. CASE PageLoadStarted \/ LoseRenderer \/ Shutdown
  BY <1>2, DocumentsImplement DEF Promise!Next
<1>3. ASSUME NEW load \in unfinished, PageLoadFinished(load)
      PROVE  [Promise!Next]_(Promise!vars)
  BY <1>3, DocumentsImplement DEF Promise!Next
<1>4. ASSUME NEW context \in SenderContext, NEW request \in UiRequest,
             BeginRequest(context, request)
      PROVE  [Promise!Next]_(Promise!vars)
  BY <1>4, RequestsImplement
<1>5. ASSUME NEW context \in SenderContext, NEW id \in RequestId,
             CancelRequest(context, id)
      PROVE  [Promise!Next]_(Promise!vars)
  BY <1>5, RequestsImplement
<1>6. ASSUME NEW id \in RequestId, CompleteRequest(id)
      PROVE  [Promise!Next]_(Promise!vars)
  BY <1>6, RequestsImplement
<1> QED BY <1>1, <1>2, <1>3, <1>4, <1>5, <1>6 DEF Next

(* The host implements RendererAuthority: at most one generation has       *)
(* authority, and a request is answered only by the generation that was    *)
(* current when it was accepted and still is (lib.rs, ADR-0006).           *)
THEOREM HostImplementsAuthority == Spec => ImplementsAuthority
<1>1. Init => Promise!Init
  <2>1. ASSUME Init PROVE RequestStatus = [r \in RequestId |-> "new"]
    <3>1. None \notin Live BY NoneAssumption DEF Outcome
    <3>2. \A id \in RequestId : StatusOf(id) = "new"
      BY <2>1, <3>1 DEF Init, NewHost, StatusOf
    <3> QED BY <3>2 DEF RequestStatus
  <2> QED
    BY <2>1 DEF Init, NewHost, Promise!Init, AuthorityCurrent
<1>2. IInv /\ [Next]_vars => [Promise!Next]_(Promise!vars)
  BY NextImplements
<1> QED
  BY <1>1, <1>2, InvariantHolds, PTL DEF Spec, Promise!Spec, ImplementsAuthority
=============================================================================
