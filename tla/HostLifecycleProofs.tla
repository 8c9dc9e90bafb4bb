------------------------ MODULE HostLifecycleProofs ------------------------
(***************************************************************************)
(* The lifecycle's safety, for every number of documents, requests and     *)
(* ticks.  First, what each method of a host record does to it             *)
(* (OnlyCancels, HostInv, DocumentEvent); then, that each handler keeps    *)
(* the invariant IInv; last, the theorems.                                 *)
(***************************************************************************)
EXTENDS HostLifecycle, TLAPS

(* h2 is h after some cancellations: what is in flight stays in flight,    *)
(* entries keep their identity and their first cancellation.               *)
OnlyCancels(h, h2, t) ==
  \A id \in RequestId :
    /\ h.inFlight[id] = None => h2.inFlight[id] = None
    /\ h.inFlight[id] # None =>
         /\ h2.inFlight[id] # None
         /\ h2.inFlight[id].generation = h.inFlight[id].generation
         /\ h2.inFlight[id].startedAt = h.inFlight[id].startedAt
         /\ h2.inFlight[id].timeout = h.inFlight[id].timeout
         /\ h2.inFlight[id].cancelledAt \in {h.inFlight[id].cancelledAt, t}
         /\ h.inFlight[id].cancelledAt # None =>
              h2.inFlight[id].cancelledAt = h.inFlight[id].cancelledAt

AllCancelled(h) ==
  \A id \in RequestId :
    h.inFlight[id] # None => h.inFlight[id].cancelledAt # None

LEMMA CancelAtType ==
  ASSUME NEW r \in InFlight, NEW t \in Time
  PROVE  /\ CancelAt(r, t) \in InFlight
         /\ CancelAt(r, t) # None
         /\ CancelAt(r, t).generation = r.generation
         /\ CancelAt(r, t).startedAt = r.startedAt
         /\ CancelAt(r, t).timeout = r.timeout
         /\ CancelAt(r, t).cancelledAt # None
         /\ CancelAt(r, t).cancelledAt \in {r.cancelledAt, t}
         /\ r.cancelledAt # None => CancelAt(r, t).cancelledAt = r.cancelledAt
BY NoneAssumption DEF CancelAt, InFlight, Time

LEMMA CancelGenerationFacts ==
  ASSUME NEW h \in Host, NEW t \in Time
  PROVE  /\ CancelGeneration(h, t) \in Host
         /\ OnlyCancels(h, CancelGeneration(h, t), t)
         /\ CancelGeneration(h, t).accepting = h.accepting
         /\ CancelGeneration(h, t).generation = h.generation
         /\ CancelGeneration(h, t).session = h.session
         /\ CancelGeneration(h, t).ambiguous = h.ambiguous
         /\ CancelGeneration(h, t).pending = h.pending
         /\ \A id \in RequestId :
              OwnedBySession(h, h.inFlight[id]) =>
                CancelGeneration(h, t).inFlight[id].cancelledAt # None
<1> DEFINE f == [id \in RequestId |->
                   IF OwnedBySession(h, h.inFlight[id])
                     THEN CancelAt(h.inFlight[id], t) ELSE h.inFlight[id]]
<1>1. CancelGeneration(h, t) = [h EXCEPT !.inFlight = f]
  BY DEF CancelGeneration
<1>2. \A id \in RequestId : h.inFlight[id] \in InFlight \cup {None}
  BY DEF Host
<1>3. \A id \in RequestId : OwnedBySession(h, h.inFlight[id]) => h.inFlight[id] \in InFlight
  BY <1>2 DEF OwnedBySession
<1>4. f \in [RequestId -> InFlight \cup {None}]
  BY <1>2, <1>3, CancelAtType
<1>5. [h EXCEPT !.inFlight = f] \in Host
  BY <1>4 DEF Host
<1>6. /\ [h EXCEPT !.inFlight = f].inFlight = f
      /\ [h EXCEPT !.inFlight = f].accepting = h.accepting
      /\ [h EXCEPT !.inFlight = f].generation = h.generation
      /\ [h EXCEPT !.inFlight = f].session = h.session
      /\ [h EXCEPT !.inFlight = f].ambiguous = h.ambiguous
      /\ [h EXCEPT !.inFlight = f].pending = h.pending
  BY DEF Host
<1>7. \A id \in RequestId :
        OwnedBySession(h, h.inFlight[id]) => f[id].cancelledAt # None
  BY <1>3, CancelAtType
<1>8. OnlyCancels(h, [h EXCEPT !.inFlight = f], t)
  <2> SUFFICES ASSUME NEW id \in RequestId
               PROVE  /\ h.inFlight[id] = None => f[id] = None
                      /\ h.inFlight[id] # None =>
                           /\ f[id] # None
                           /\ f[id].generation = h.inFlight[id].generation
                           /\ f[id].startedAt = h.inFlight[id].startedAt
                           /\ f[id].timeout = h.inFlight[id].timeout
                           /\ f[id].cancelledAt \in {h.inFlight[id].cancelledAt, t}
                           /\ h.inFlight[id].cancelledAt # None =>
                                f[id].cancelledAt = h.inFlight[id].cancelledAt
    BY <1>6 DEF OnlyCancels
  <2>1. CASE OwnedBySession(h, h.inFlight[id])
    BY <2>1, <1>3, CancelAtType DEF OwnedBySession
  <2>2. CASE ~OwnedBySession(h, h.inFlight[id])
    BY <2>2
  <2> QED BY <2>1, <2>2
<1> QED BY <1>1, <1>5, <1>6, <1>7, <1>8
-----------------------------------------------------------------------------
(* The invariant of the host record: its session is of the last generation *)
(* created, its entries are of their id's generation and carry no time of  *)
(* the future, and whatever is not the session's is cancelled.             *)
EntriesAreOwn(h, t) ==
  \A id \in RequestId :
    h.inFlight[id] # None =>
      /\ h.inFlight[id].generation = id.generation
      /\ h.inFlight[id].startedAt <= t
      /\ h.inFlight[id].cancelledAt # None => h.inFlight[id].cancelledAt <= t

OthersAreCancelled(h) ==
  \A id \in RequestId :
    /\ h.inFlight[id] # None
    /\ h.inFlight[id].cancelledAt = None
    => h.accepting /\ OwnedBySession(h, h.inFlight[id])

HostInv(h, t) ==
  /\ h \in Host
  /\ h.session # None => h.session.generation = h.generation
  /\ EntriesAreOwn(h, t)
  /\ OthersAreCancelled(h)

(* What a page-load, window or run event does to a host. *)
DocumentEvent(h, h2, t) ==
  /\ HostInv(h2, t)
  /\ OnlyCancels(h, h2, t)
  /\ \/ h2.generation = h.generation /\ h2.session \in {None, h.session}
     \/ /\ h2.generation = h.generation + 1
        /\ h2.session # None
        /\ h2.session.lastSequence = 0
        /\ ~h2.session.firstHealth /\ ~h2.session.emitted

LEMMA HostFields ==
  ASSUME NEW h \in Host
  PROVE  /\ h.accepting \in BOOLEAN /\ h.ambiguous \in BOOLEAN
         /\ h.generation \in 0..MaxSequence /\ h.pending \in Nat
         /\ h.inFlight \in [RequestId -> InFlight \cup {None}]
         /\ h.session \in RendererSession \cup {None}
BY DEF Host

LEMMA RetireFacts ==
  ASSUME NEW t \in Time, NEW h, HostInv(h, t)
  PROVE  /\ HostInv(Retire(h, t), t)
         /\ OnlyCancels(h, Retire(h, t), t)
         /\ AllCancelled(Retire(h, t))
         /\ Retire(h, t).session = None
         /\ Retire(h, t).generation = h.generation
         /\ Retire(h, t).accepting = h.accepting
         /\ Retire(h, t).ambiguous = h.ambiguous
         /\ Retire(h, t).pending = h.pending
<1> DEFINE c == CancelGeneration(h, t)
           r == [c EXCEPT !.session = None]
<1>1. h \in Host BY DEF HostInv
<1>2. /\ c \in Host
      /\ OnlyCancels(h, c, t)
      /\ c.accepting = h.accepting /\ c.generation = h.generation
      /\ c.session = h.session /\ c.ambiguous = h.ambiguous
      /\ c.pending = h.pending
      /\ \A id \in RequestId : OwnedBySession(h, h.inFlight[id]) =>
            c.inFlight[id].cancelledAt # None
  BY <1>1, CancelGenerationFacts
<1> HIDE DEF c
<1>3. /\ r \in Host
      /\ r.session = None
      /\ r.generation = c.generation /\ r.accepting = c.accepting
      /\ r.ambiguous = c.ambiguous /\ r.pending = c.pending
      /\ r.inFlight = c.inFlight
  BY <1>2 DEF Host
<1>4. Retire(h, t) = r BY DEF Retire, c
<1> HIDE DEF r
<1>5. OnlyCancels(h, r, t) BY <1>2, <1>3 DEF OnlyCancels
<1>6. AllCancelled(r)
  BY <1>2, <1>3 DEF AllCancelled, OnlyCancels, HostInv, OthersAreCancelled
<1>7. EntriesAreOwn(r, t)
  <2> SUFFICES ASSUME NEW id \in RequestId, r.inFlight[id] # None
               PROVE  /\ r.inFlight[id].generation = id.generation
                      /\ r.inFlight[id].startedAt <= t
                      /\ r.inFlight[id].cancelledAt # None =>
                           r.inFlight[id].cancelledAt <= t
    BY DEF EntriesAreOwn
  <2> QED BY <1>5 DEF OnlyCancels, HostInv, EntriesAreOwn, Time
<1>8. OthersAreCancelled(r) BY <1>6 DEF AllCancelled, OthersAreCancelled
<1> QED BY <1>2, <1>3, <1>4, <1>5, <1>6, <1>7, <1>8 DEF HostInv

LEMMA RendererLostFacts ==
  ASSUME NEW t \in Time, NEW h, HostInv(h, t)
  PROVE  /\ DocumentEvent(h, RendererLost(h, t), t)
         /\ RendererLost(h, t).session = None
         /\ RendererLost(h, t).generation = h.generation
<1> DEFINE r == Retire(h, t)
           l == [r EXCEPT !.ambiguous = FALSE, !.pending = 0]
<1>1. /\ HostInv(r, t) /\ OnlyCancels(h, r, t)
      /\ r.session = None /\ r.generation = h.generation
  BY RetireFacts
<1> HIDE DEF r
<1>2. /\ l \in Host
      /\ l.session = r.session /\ l.generation = r.generation
      /\ l.accepting = r.accepting /\ l.inFlight = r.inFlight
  BY <1>1 DEF HostInv, Host
<1>3. RendererLost(h, t) = l BY DEF RendererLost, r
<1> HIDE DEF l
<1>4. HostInv(l, t)
  BY <1>1, <1>2 DEF HostInv, EntriesAreOwn, OthersAreCancelled, OwnedBySession
<1>5. OnlyCancels(h, l, t) BY <1>1, <1>2 DEF OnlyCancels
<1> QED BY <1>1, <1>2, <1>3, <1>4, <1>5 DEF DocumentEvent

LEMMA BeginSessionFacts ==
  ASSUME NEW t \in Time, NEW nonce \in Nonce, NEW h, HostInv(h, t),
         AllCancelled(h), h.session = None
  PROVE  DocumentEvent(h, BeginSession(h, nonce, t), t)
<1> DEFINE c == CancelGeneration(h, t)
           n == [c EXCEPT !.generation = h.generation + 1,
                          !.session = NewSession(h.generation + 1, nonce)]
           e == [c EXCEPT !.session = None]
<1>1. h \in Host BY DEF HostInv
<1>2. /\ c \in Host
      /\ OnlyCancels(h, c, t)
      /\ c.accepting = h.accepting /\ c.generation = h.generation
      /\ c.session = h.session
  BY <1>1, CancelGenerationFacts
<1>3. h.generation \in 0..MaxSequence BY <1>1, HostFields
<1> HIDE DEF c
<1>4. AllCancelled(c) BY <1>2 DEF AllCancelled, OnlyCancels
<1>5. EntriesAreOwn(c, t)
  BY <1>2 DEF OnlyCancels, HostInv, EntriesAreOwn, Time
<1>6. CASE h.generation < MaxSequence
  <2>1. BeginSession(h, nonce, t) = n BY <1>6 DEF BeginSession, c
  <2>2. NewSession(h.generation + 1, nonce) \in RendererSession
    BY <1>3, <1>6, LifecycleAssumption
    DEF NewSession, RendererSession, Generation
  <2>3. /\ NewSession(h.generation + 1, nonce).generation = h.generation + 1
        /\ NewSession(h.generation + 1, nonce).lastSequence = 0
        /\ ~NewSession(h.generation + 1, nonce).firstHealth
        /\ ~NewSession(h.generation + 1, nonce).emitted
    BY DEF NewSession
  <2>4. /\ n \in Host
        /\ n.generation = h.generation + 1
        /\ n.session = NewSession(h.generation + 1, nonce)
        /\ n.accepting = c.accepting /\ n.inFlight = c.inFlight
    <3> DEFINE g == h.generation + 1
               s == NewSession(g, nonce)
    <3>1. g \in 0..MaxSequence /\ s \in RendererSession
      BY <1>3, <1>6, <2>2, LifecycleAssumption
    <3> HIDE DEF g, s
    <3>2. /\ [c EXCEPT !.generation = g, !.session = s] \in Host
          /\ [c EXCEPT !.generation = g, !.session = s].generation = g
          /\ [c EXCEPT !.generation = g, !.session = s].session = s
          /\ [c EXCEPT !.generation = g, !.session = s].accepting = c.accepting
          /\ [c EXCEPT !.generation = g, !.session = s].inFlight = c.inFlight
      BY <1>2, <3>1 DEF Host
    <3> QED BY <3>2 DEF g, s
  <2> HIDE DEF n
  <2>5. HostInv(n, t)
    BY <1>4, <1>5, <2>3, <2>4
    DEF HostInv, EntriesAreOwn, OthersAreCancelled, AllCancelled
  <2>6. OnlyCancels(h, n, t) BY <1>2, <2>4 DEF OnlyCancels
  <2> QED BY <2>1, <2>2, <2>3, <2>4, <2>5, <2>6, NoneAssumption DEF DocumentEvent
<1>7. CASE ~(h.generation < MaxSequence)
  <2>1. BeginSession(h, nonce, t) = e BY <1>7 DEF BeginSession, c
  <2>2. /\ e \in Host
        /\ e.session = None /\ e.generation = c.generation
        /\ e.accepting = c.accepting /\ e.inFlight = c.inFlight
    BY <1>2 DEF Host
  <2> HIDE DEF e
  <2>3. HostInv(e, t)
    BY <1>4, <1>5, <2>2
    DEF HostInv, EntriesAreOwn, OthersAreCancelled, AllCancelled
  <2>4. OnlyCancels(h, e, t) BY <1>2, <2>2 DEF OnlyCancels
  <2> QED BY <1>2, <2>1, <2>2, <2>3, <2>4 DEF DocumentEvent
<1> QED BY <1>6, <1>7

LEMMA OnlyCancelsTransitive ==
  ASSUME NEW t \in Time, NEW h1, NEW h2, NEW h3,
         OnlyCancels(h1, h2, t), OnlyCancels(h2, h3, t)
  PROVE  OnlyCancels(h1, h3, t)
BY DEF OnlyCancels

LEMMA ActivateFacts ==
  ASSUME NEW t \in Time, NEW nonce \in Nonce \cup {None}, NEW h, HostInv(h, t)
  PROVE  DocumentEvent(h, Activate(h, nonce, t), t)
<1> DEFINE r == Retire(h, t)
<1>1. /\ HostInv(r, t) /\ OnlyCancels(h, r, t) /\ AllCancelled(r)
      /\ r.session = None /\ r.generation = h.generation
  BY RetireFacts
<1>2. CASE nonce = None
  BY <1>1, <1>2 DEF Activate, DocumentEvent
<1>3. CASE nonce # None
  <2>1. DocumentEvent(r, BeginSession(r, nonce, t), t)
    BY <1>1, <1>3, BeginSessionFacts
  <2>2. Activate(h, nonce, t) = BeginSession(r, nonce, t) BY <1>3 DEF Activate
  <2> HIDE DEF r
  <2>3. OnlyCancels(h, BeginSession(r, nonce, t), t)
    BY <1>1, <2>1, OnlyCancelsTransitive DEF DocumentEvent
  <2> QED BY <1>1, <2>1, <2>2, <2>3 DEF DocumentEvent
<1> QED BY <1>2, <1>3

(* A host that differs only in what it counts of page loads. *)
LEMMA CountsDoNotMatter ==
  ASSUME NEW t \in Time, NEW h, HostInv(h, t), NEW h2 \in Host,
         h2.session = h.session, h2.generation = h.generation,
         h2.accepting = h.accepting, h2.inFlight = h.inFlight
  PROVE  HostInv(h2, t) /\ OnlyCancels(h, h2, t)
<1>1. HostInv(h2, t)
  BY DEF HostInv, EntriesAreOwn, OthersAreCancelled, OwnedBySession
<1>2. OnlyCancels(h, h2, t) BY DEF OnlyCancels
<1> QED BY <1>1, <1>2

LEMMA BeginPageLoadFacts ==
  ASSUME NEW t \in Time, NEW nonce \in Nonce \cup {None}, NEW h, HostInv(h, t)
  PROVE  DocumentEvent(h, BeginPageLoad(h, nonce, t), t)
<1> DEFINE c == [h EXCEPT !.ambiguous = h.ambiguous \/ h.pending > 0,
                          !.pending = h.pending + 1]
<1>1. (h.ambiguous \/ h.pending > 0) \in BOOLEAN /\ h.pending + 1 \in Nat
  BY HostFields DEF HostInv
<1>2. /\ HostInv(c, t) /\ OnlyCancels(h, c, t)
      /\ c.session = h.session /\ c.generation = h.generation
  <2>1. /\ c \in Host
        /\ c.session = h.session /\ c.generation = h.generation
        /\ c.accepting = h.accepting /\ c.inFlight = h.inFlight
    BY <1>1 DEF HostInv, Host
  <2> HIDE DEF c
  <2> QED BY <2>1, CountsDoNotMatter
<1>3. BeginPageLoad(h, nonce, t) = Activate(c, nonce, t) BY DEF BeginPageLoad
<1> HIDE DEF c
<1>4. DocumentEvent(c, Activate(c, nonce, t), t) BY <1>2, ActivateFacts
<1>5. OnlyCancels(h, Activate(c, nonce, t), t)
  BY <1>2, <1>4, OnlyCancelsTransitive DEF DocumentEvent
<1> QED BY <1>2, <1>3, <1>4, <1>5 DEF DocumentEvent

LEMMA FinishPageLoadFacts ==
  ASSUME NEW t \in Time, NEW h, HostInv(h, t)
  PROVE  DocumentEvent(h, FinishPageLoad(h, t), t)
<1> DEFINE one == [h EXCEPT !.pending = h.pending - 1]
           r == Retire(one, t)
<1>0. h.pending \in Nat /\ h.ambiguous \in BOOLEAN BY HostFields DEF HostInv
<1>1. CASE h.pending = 0
  BY <1>1, RendererLostFacts DEF FinishPageLoad
<1>2. ASSUME h.pending # 0
      PROVE  /\ HostInv(one, t) /\ OnlyCancels(h, one, t)
             /\ one.session = h.session /\ one.generation = h.generation
             /\ one.pending \in Nat
  <2>1. h.pending - 1 \in Nat BY <1>0, <1>2
  <2>2. /\ one \in Host /\ one.pending = h.pending - 1
        /\ one.session = h.session /\ one.generation = h.generation
        /\ one.accepting = h.accepting /\ one.inFlight = h.inFlight
    BY <2>1 DEF HostInv, Host
  <2> HIDE DEF one
  <2> QED BY <2>1, <2>2, CountsDoNotMatter
<1>3. ASSUME h.pending # 0, NEW a \in BOOLEAN
      PROVE  DocumentEvent(h, [r EXCEPT !.ambiguous = a], t)
  <2>1. /\ HostInv(one, t) /\ OnlyCancels(h, one, t)
        /\ one.session = h.session /\ one.generation = h.generation
    BY <1>2, <1>3
  <2> HIDE DEF one
  <2>2. /\ HostInv(r, t) /\ OnlyCancels(one, r, t)
        /\ r.session = None /\ r.generation = one.generation
    BY <2>1, RetireFacts
  <2> HIDE DEF r
  <2> DEFINE d == [r EXCEPT !.ambiguous = a]
  <2>3. /\ d \in Host
        /\ d.session = r.session /\ d.generation = r.generation
        /\ d.accepting = r.accepting /\ d.inFlight = r.inFlight
    BY <2>2 DEF HostInv, Host
  <2> HIDE DEF d
  <2>5. HostInv(d, t) /\ OnlyCancels(r, d, t)
    BY <2>2, <2>3, CountsDoNotMatter
  <2>6. OnlyCancels(h, d, t)
    BY <2>1, <2>2, <2>5, OnlyCancelsTransitive
  <2>7. DocumentEvent(h, d, t)
    BY <2>1, <2>2, <2>3, <2>5, <2>6 DEF DocumentEvent
  <2> QED BY <2>7 DEF d
<1>4. CASE h.pending # 0 /\ h.ambiguous
  <2>1. FinishPageLoad(h, t) = [r EXCEPT !.ambiguous = one.pending # 0]
    BY <1>0, <1>4 DEF FinishPageLoad
  <2>2. (one.pending # 0) \in BOOLEAN OBVIOUS
  <2> HIDE DEF r, one
  <2> QED BY <1>3, <1>4, <2>1, <2>2
<1>5. CASE h.pending > 1 /\ ~h.ambiguous
  <2>1. FinishPageLoad(h, t) = [r EXCEPT !.ambiguous = TRUE] /\ h.pending # 0
    BY <1>0, <1>5 DEF FinishPageLoad
  <2>2. TRUE \in BOOLEAN OBVIOUS
  <2> HIDE DEF r, one
  <2> QED BY <1>3, <2>1, <2>2
<1>6. CASE h.pending = 1 /\ ~h.ambiguous
  <2>1. FinishPageLoad(h, t) = one BY <1>6 DEF FinishPageLoad
  <2> HIDE DEF one
  <2> QED BY <1>2, <1>6, <2>1 DEF DocumentEvent
<1> QED BY <1>0, <1>1, <1>4, <1>5, <1>6

(* No document begins when another has finished. *)
LEMMA FinishPageLoadKeepsGeneration ==
  ASSUME NEW t \in Time, NEW h, HostInv(h, t)
  PROVE  FinishPageLoad(h, t).generation = h.generation
<1> DEFINE one == [h EXCEPT !.pending = h.pending - 1]
           r == Retire(one, t)
<1>0. h.pending \in Nat /\ h.ambiguous \in BOOLEAN BY HostFields DEF HostInv
<1>1. CASE h.pending = 0
  BY <1>1, RendererLostFacts DEF FinishPageLoad
<1>2. ASSUME h.pending # 0
      PROVE  one.generation = h.generation /\ HostInv(one, t)
  <2>1. /\ one \in Host
        /\ one.session = h.session /\ one.generation = h.generation
        /\ one.accepting = h.accepting /\ one.inFlight = h.inFlight
    BY <1>0, <1>2 DEF HostInv, Host
  <2> HIDE DEF one
  <2> QED BY <2>1, CountsDoNotMatter
<1>3. ASSUME h.pending # 0
      PROVE  r \in Host /\ r.generation = h.generation
  <2> HIDE DEF one
  <2> QED BY <1>2, <1>3, RetireFacts DEF HostInv
<1>4. CASE h.pending # 0 /\ (h.pending > 1 \/ h.ambiguous)
  <2>1. PICK a \in BOOLEAN : FinishPageLoad(h, t) = [r EXCEPT !.ambiguous = a]
    <3>1. (one.pending # 0) \in BOOLEAN OBVIOUS
    <3>2. CASE h.ambiguous
      BY <1>0, <1>4, <3>1, <3>2 DEF FinishPageLoad
    <3>3. CASE ~h.ambiguous
      BY <1>0, <1>4, <3>3 DEF FinishPageLoad
    <3> QED BY <3>2, <3>3
  <2> HIDE DEF r
  <2> QED BY <1>3, <1>4, <2>1 DEF Host
<1>5. CASE h.pending = 1 /\ ~h.ambiguous
  <2>1. FinishPageLoad(h, t) = one BY <1>5 DEF FinishPageLoad
  <2> QED BY <1>2, <1>5, <2>1
<1> QED BY <1>0, <1>1, <1>4, <1>5

LEMMA CloseHostFacts ==
  ASSUME NEW t \in Time, NEW h, HostInv(h, t)
  PROVE  /\ DocumentEvent(h, CloseHost(h, t), t)
         /\ ~CloseHost(h, t).accepting
<1> DEFINE f == [id \in RequestId |->
                   IF h.inFlight[id] = None THEN None
                                            ELSE CancelAt(h.inFlight[id], t)]
           c == [h EXCEPT !.accepting = FALSE, !.inFlight = f,
                          !.ambiguous = FALSE, !.pending = 0, !.session = None]
<1>1. CloseHost(h, t) = c BY DEF CloseHost
<1>2. \A id \in RequestId : h.inFlight[id] \in InFlight \cup {None}
  BY HostFields DEF HostInv
<1>3. \A id \in RequestId :
        /\ h.inFlight[id] = None => f[id] = None
        /\ h.inFlight[id] # None =>
             /\ f[id] \in InFlight
             /\ f[id] # None
             /\ f[id].generation = h.inFlight[id].generation
             /\ f[id].startedAt = h.inFlight[id].startedAt
             /\ f[id].timeout = h.inFlight[id].timeout
             /\ f[id].cancelledAt # None
             /\ f[id].cancelledAt \in {h.inFlight[id].cancelledAt, t}
             /\ h.inFlight[id].cancelledAt # None =>
                  f[id].cancelledAt = h.inFlight[id].cancelledAt
  BY <1>2, CancelAtType
<1>4. f \in [RequestId -> InFlight \cup {None}] BY <1>3
<1> HIDE DEF f
<1>5. /\ c \in Host /\ c.inFlight = f /\ c.session = None
      /\ c.generation = h.generation /\ c.accepting = FALSE
  BY <1>4 DEF HostInv, Host
<1> HIDE DEF c
<1>6. OnlyCancels(h, c, t) BY <1>3, <1>5 DEF OnlyCancels
<1>7. EntriesAreOwn(c, t)
  BY <1>6 DEF OnlyCancels, HostInv, EntriesAreOwn, Time
<1>8. OthersAreCancelled(c) BY <1>3, <1>5 DEF OthersAreCancelled
<1> QED BY <1>1, <1>5, <1>6, <1>7, <1>8 DEF DocumentEvent, HostInv
-----------------------------------------------------------------------------
(* The inductive invariant.  An id that was used is of a generation that   *)
(* exists, and in its session the sequence has passed it: this is why no   *)
(* id is accepted twice although the replay window forgets.                *)
UsedIdsArePassed ==
  \A id \in RequestId :
    accepted[id] # None \/ outcome[id] # None =>
      /\ id.generation <= host.generation
      /\ host.session # None /\ host.session.generation = id.generation =>
           id.sequence <= host.session.lastSequence

(* Until the request ends, its cancellers were all told what its entry     *)
(* says, and the entry is cancelled.                                       *)
CancelsAreRecorded ==
  \A id \in RequestId :
    outcome[id] = None /\ cancelAnswers[id] # {} =>
      /\ host.inFlight[id] # None
      /\ host.inFlight[id].cancelledAt # None
      /\ cancelAnswers[id] = {CancelAnswer(host.inFlight[id])}

GrantsAreOfThePast ==
  \A grant \in grants : grant.authority.generation <= host.generation

IInv ==
  /\ TypeOK
  /\ HostInv(host, now)
  /\ AcceptedOnce
  /\ UsedIdsArePassed
  /\ CancelAnswerIsFinal
  /\ CancelsAreRecorded
  /\ GrantsAreOfThePast

(* What a document event leaves of the invariant's request part. *)
LEMMA DocumentEventKeepsRequests ==
  ASSUME IInv, DocumentEvent(host, host', now), now' = now,
         accepted' = accepted, outcome' = outcome,
         cancelAnswers' = cancelAnswers
  PROVE  /\ HostInv(host, now)'
         /\ AcceptedOnce'
         /\ UsedIdsArePassed'
         /\ CancelAnswerIsFinal'
         /\ CancelsAreRecorded'
         /\ host'.generation \in Nat /\ host.generation \in Nat
         /\ host.generation <= host'.generation
<1>1. /\ HostInv(host', now) /\ OnlyCancels(host, host', now)
      /\ HostInv(host, now)
  BY DEF IInv, DocumentEvent
<1>2. /\ host.generation \in Nat /\ host'.generation \in Nat
      /\ host.generation <= host'.generation
  BY <1>1, HostFields DEF HostInv, DocumentEvent
<1>3. AcceptedOnce'
  BY <1>1 DEF IInv, AcceptedOnce, OnlyCancels
<1>4. UsedIdsArePassed'
  <2> SUFFICES ASSUME NEW id \in RequestId,
                      accepted[id] # None \/ outcome[id] # None
               PROVE  /\ id.generation <= host'.generation
                      /\ host'.session # None
                         /\ host'.session.generation = id.generation =>
                           id.sequence <= host'.session.lastSequence
    BY DEF UsedIdsArePassed
  <2>1. /\ id.generation <= host.generation
        /\ host.session # None /\ host.session.generation = id.generation =>
             id.sequence <= host.session.lastSequence
    BY DEF IInv, UsedIdsArePassed
  <2>2. id.generation \in Nat BY DEF RequestId, Generation
  <2>3. CASE host'.generation = host.generation /\ host'.session \in {None, host.session}
    BY <2>1, <2>3
  <2>4. CASE host'.generation = host.generation + 1
    BY <1>1, <1>2, <2>1, <2>2, <2>4 DEF HostInv
  <2> QED BY <2>3, <2>4 DEF DocumentEvent
<1>5. CancelAnswerIsFinal' BY DEF IInv, CancelAnswerIsFinal
<1>6. CancelsAreRecorded'
  <2> SUFFICES ASSUME NEW id \in RequestId,
                      outcome[id] = None, cancelAnswers[id] # {}
               PROVE  /\ host'.inFlight[id] # None
                      /\ host'.inFlight[id].cancelledAt # None
                      /\ cancelAnswers[id] = {CancelAnswer(host'.inFlight[id])}
    BY DEF CancelsAreRecorded
  <2>1. /\ host.inFlight[id] # None
        /\ host.inFlight[id].cancelledAt # None
        /\ cancelAnswers[id] = {CancelAnswer(host.inFlight[id])}
    BY DEF IInv, CancelsAreRecorded
  <2>2. /\ host'.inFlight[id] # None
        /\ host'.inFlight[id].startedAt = host.inFlight[id].startedAt
        /\ host'.inFlight[id].timeout = host.inFlight[id].timeout
        /\ host'.inFlight[id].cancelledAt = host.inFlight[id].cancelledAt
    BY <1>1, <2>1 DEF OnlyCancels
  <2>3. CancelAnswer(host'.inFlight[id]) = CancelAnswer(host.inFlight[id])
    BY <2>2 DEF CancelAnswer, CancelledInTime
  <2> QED BY <2>1, <2>2, <2>3
<1> QED BY <1>1, <1>2, <1>3, <1>4, <1>5, <1>6

LEMMA TimeType ==
  ASSUME IInv
  PROVE  now \in Time /\ HostInv(host, now) /\ host \in Host
BY DEF IInv, TypeOK

LEMMA InitEstablishes == Init => IInv
<1> SUFFICES ASSUME Init PROVE IInv OBVIOUS
<1>1. NewHost \in Host
  BY LifecycleAssumption DEF NewHost, Host
<1>2. TypeOK
  BY <1>1, LifecycleAssumption DEF Init, TypeOK, Time
<1>3. HostInv(host, now)
  BY <1>1 DEF Init, NewHost, HostInv, EntriesAreOwn, OthersAreCancelled
<1>4. AcceptedOnce
  BY DEF Init, NewHost, AcceptedOnce
<1>5. UsedIdsArePassed /\ CancelAnswerIsFinal /\ CancelsAreRecorded /\ GrantsAreOfThePast
  BY DEF Init, UsedIdsArePassed, CancelAnswerIsFinal, CancelsAreRecorded,
         GrantsAreOfThePast
<1> QED BY <1>2, <1>3, <1>4, <1>5 DEF IInv

LEMMA TickKeeps == IInv /\ Tick => IInv'
<1> SUFFICES ASSUME IInv, Tick PROVE IInv' OBVIOUS
<1>1. now' \in Time /\ now <= now' /\ now \in Nat
  BY LifecycleAssumption DEF IInv, TypeOK, Tick, Time
<1>2. HostInv(host, now)'
  <2>1. EntriesAreOwn(host, now')
    <3> SUFFICES ASSUME NEW id \in RequestId, host.inFlight[id] # None
                 PROVE  /\ host.inFlight[id].generation = id.generation
                        /\ host.inFlight[id].startedAt <= now'
                        /\ host.inFlight[id].cancelledAt # None =>
                             host.inFlight[id].cancelledAt <= now'
      BY DEF EntriesAreOwn
    <3>1. host.inFlight[id] \in InFlight
      BY DEF IInv, TypeOK, Host
    <3> QED BY <1>1, <3>1 DEF IInv, HostInv, EntriesAreOwn, InFlight, Time
  <2> QED BY <2>1 DEF IInv, HostInv, Tick
<1>3. /\ TypeOK' /\ AcceptedOnce' /\ UsedIdsArePassed' /\ CancelAnswerIsFinal'
      /\ CancelsAreRecorded' /\ GrantsAreOfThePast'
  BY <1>1 DEF IInv, Tick, platform, history, TypeOK, AcceptedOnce,
     UsedIdsArePassed, CancelAnswerIsFinal, CancelsAreRecorded,
     GrantsAreOfThePast
<1> QED BY <1>2, <1>3 DEF IInv
-----------------------------------------------------------------------------
(* Page-load, window and run events *)

LEMMA PageLoadStartedKeeps ==
  ASSUME IInv, PageLoadStarted
  PROVE  IInv' /\ DocumentEvent(host, host', now)
<1>1. PICK nonce \in {loads + 1, None} : host' = BeginPageLoad(host, nonce, now)
  BY DEF PageLoadStarted
<1>2. /\ loads + 1 \in Load /\ loads' = loads + 1 /\ loads' \in 0..MaxLoads
      /\ unfinished' \subseteq Load
  BY LifecycleAssumption DEF IInv, TypeOK, PageLoadStarted, Load
<1>3. DocumentEvent(host, host', now)
  BY <1>1, <1>2, TimeType, BeginPageLoadFacts DEF Nonce
<1>4. /\ HostInv(host, now)' /\ AcceptedOnce' /\ UsedIdsArePassed'
      /\ CancelAnswerIsFinal' /\ CancelsAreRecorded'
      /\ host'.generation \in Nat /\ host.generation \in Nat
      /\ host.generation <= host'.generation
  BY <1>3, DocumentEventKeepsRequests DEF PageLoadStarted, history
<1>5. TypeOK'
  BY <1>2, <1>4 DEF IInv, TypeOK, PageLoadStarted, history, HostInv
<1>6. GrantsAreOfThePast'
  BY <1>4 DEF IInv, TypeOK, GrantsAreOfThePast, PageLoadStarted, history,
              Authority, Generation
<1> QED BY <1>3, <1>4, <1>5, <1>6 DEF IInv

LEMMA FinishedAuthorityFacts ==
  ASSUME NEW t, NEW h, HostInv(h, t), FinishedAuthority(h) # None
  PROVE  /\ FinishedAuthority(h) \in Authority
         /\ h.session # None
         /\ FinishedAuthority(h).generation = h.generation
<1>1. /\ h.session # None
      /\ FinishedAuthority(h) = [generation |-> h.session.generation,
                                 nonce |-> h.session.nonce]
  BY DEF FinishedAuthority
<1>2. h.session \in RendererSession BY <1>1, HostFields DEF HostInv
<1> QED BY <1>1, <1>2 DEF Authority, RendererSession, HostInv

LEMMA PageLoadFinishedKeeps ==
  ASSUME IInv, NEW load \in unfinished, PageLoadFinished(load)
  PROVE  IInv' /\ DocumentEvent(host, host', now)
<1> DEFINE authority == FinishedAuthority(host)
           after == FinishPageLoad(host, now)
<1>1. /\ now \in Time /\ HostInv(host, now) /\ load \in Load
      /\ DocumentEvent(host, after, now)
  BY TimeType, FinishPageLoadFacts DEF IInv, TypeOK
<1>2. \/ /\ authority # None
         /\ host' = after
         /\ grants' = grants \cup {[authority |-> authority, by |-> load,
                                   counted |-> load \notin uncounted]}
      \/ /\ host' = RendererLost(after, now)
         /\ grants' = grants
  BY DEF PageLoadFinished
<1>3. DocumentEvent(host, host', now)
  <2>1. CASE host' = after BY <1>1, <2>1
  <2>2. CASE host' = RendererLost(after, now)
    <3> HIDE DEF after
    <3>1. /\ DocumentEvent(after, host', now)
          /\ host'.session = None /\ host'.generation = after.generation
      BY <1>1, <2>2, RendererLostFacts DEF DocumentEvent
    <3>2. OnlyCancels(host, host', now)
      BY <1>1, <3>1, OnlyCancelsTransitive DEF DocumentEvent
    <3>3. after.generation = host.generation
      BY FinishPageLoadKeepsGeneration, <1>1 DEF after
    <3> QED BY <1>1, <3>1, <3>2, <3>3 DEF DocumentEvent
  <2> QED BY <1>2, <2>1, <2>2
<1> HIDE DEF after
<1>4. /\ HostInv(host, now)' /\ AcceptedOnce' /\ UsedIdsArePassed'
      /\ CancelAnswerIsFinal' /\ CancelsAreRecorded'
      /\ host'.generation \in Nat /\ host.generation \in Nat
      /\ host.generation <= host'.generation
  BY <1>3, DocumentEventKeepsRequests DEF PageLoadFinished
<1>5. \A grant \in grants' \ grants :
        /\ grant \in [authority: Authority, by: Load, counted: BOOLEAN]
        /\ host.session # None
        /\ grant.authority.generation = host.generation
  <2> SUFFICES ASSUME NEW grant \in grants' \ grants
               PROVE  /\ grant \in [authority: Authority, by: Load, counted: BOOLEAN]
                      /\ host.session # None
                      /\ grant.authority.generation = host.generation
    OBVIOUS
  <2> DEFINE c == load \notin uncounted
  <2>1. c \in BOOLEAN OBVIOUS
  <2> HIDE DEF c
  <2>2. /\ authority # None
        /\ grant = [authority |-> authority, by |-> load, counted |-> c]
    BY <1>2 DEF c
  <2>3. /\ authority \in Authority /\ host.session # None
        /\ authority.generation = host.generation
    BY <1>1, <2>2, FinishedAuthorityFacts
  <2> QED BY <1>1, <2>1, <2>2, <2>3
<1>6. TypeOK'
  BY <1>4, <1>5 DEF IInv, TypeOK, PageLoadFinished, HostInv
<1>7. GrantsAreOfThePast'
  BY <1>4, <1>5 DEF IInv, TypeOK, GrantsAreOfThePast, Authority, Generation
<1> QED BY <1>3, <1>4, <1>6, <1>7 DEF IInv

LEMMA LoseRendererKeeps ==
  ASSUME IInv, LoseRenderer
  PROVE  IInv' /\ DocumentEvent(host, host', now)
<1>1. DocumentEvent(host, host', now)
  BY TimeType, RendererLostFacts DEF LoseRenderer
<1>2. /\ HostInv(host, now)' /\ AcceptedOnce' /\ UsedIdsArePassed'
      /\ CancelAnswerIsFinal' /\ CancelsAreRecorded'
      /\ host'.generation \in Nat /\ host.generation \in Nat
      /\ host.generation <= host'.generation
  BY <1>1, DocumentEventKeepsRequests DEF LoseRenderer
<1>3. TypeOK' BY <1>2 DEF IInv, TypeOK, LoseRenderer, HostInv
<1>4. GrantsAreOfThePast'
  BY <1>2 DEF IInv, TypeOK, GrantsAreOfThePast, LoseRenderer, Authority, Generation
<1> QED BY <1>1, <1>2, <1>3, <1>4 DEF IInv

LEMMA ShutdownKeeps ==
  ASSUME IInv, Shutdown
  PROVE  IInv' /\ DocumentEvent(host, host', now)
<1>1. DocumentEvent(host, host', now)
  BY TimeType, CloseHostFacts DEF Shutdown
<1>2. /\ HostInv(host, now)' /\ AcceptedOnce' /\ UsedIdsArePassed'
      /\ CancelAnswerIsFinal' /\ CancelsAreRecorded'
      /\ host'.generation \in Nat /\ host.generation \in Nat
      /\ host.generation <= host'.generation
  BY <1>1, DocumentEventKeepsRequests DEF Shutdown
<1>3. TypeOK' BY <1>2 DEF IInv, TypeOK, Shutdown, HostInv, platform
<1>4. GrantsAreOfThePast'
  BY <1>2 DEF IInv, TypeOK, GrantsAreOfThePast, Shutdown, Authority, Generation
<1> QED BY <1>1, <1>2, <1>3, <1>4 DEF IInv
-----------------------------------------------------------------------------
(* Requests *)

LEMMA RememberType ==
  ASSUME NEW window \in Seq(RequestId), NEW id \in RequestId
  PROVE  Remember(window, id) \in Seq(RequestId)
<1>1. CASE Len(window) = ReplayWindow
  <2>1. window # <<>> BY <1>1, LifecycleAssumption
  <2>2. Tail(window) \in Seq(RequestId) BY <2>1
  <2> QED BY <1>1, <2>2 DEF Remember
<1>2. CASE Len(window) # ReplayWindow BY <1>2 DEF Remember
<1> QED BY <1>1, <1>2

LEMMA BeginFacts ==
  ASSUME NEW h \in Host, NEW context \in SenderContext,
         NEW request \in UiRequest, NEW t \in Time,
         Acceptable(h, context, request)
  PROVE  LET h2 == Begin(h, context, request, t)
         IN  /\ h2 \in Host
             /\ h2.accepting = h.accepting /\ h2.generation = h.generation
             /\ h.session # None /\ h2.session # None
             /\ h2.session.generation = h.session.generation
             /\ h2.session.lastSequence = request.sequence
             /\ h.session.lastSequence < request.sequence
             /\ h.inFlight[request.id] = None
             /\ request.id.generation = h.session.generation
             /\ request.id.sequence = request.sequence
             /\ h2.inFlight = [h.inFlight EXCEPT ![request.id] =
                  [generation |-> request.id.generation, startedAt |-> t,
                   timeout |-> request.timeout, cancelledAt |-> None]]
<1> DEFINE r == Remember(h.session.replayed, request.id)
           s == [h.session EXCEPT !.lastSequence = request.sequence, !.replayed = r]
           e == [generation |-> context.generation, startedAt |-> t,
                 timeout |-> request.timeout, cancelledAt |-> None]
           f == [h.inFlight EXCEPT ![request.id] = e]
           h2 == [h EXCEPT !.session = s, !.inFlight = f]
<1>1. /\ h.session \in RendererSession
      /\ request.id \in RequestId /\ request.sequence \in Sequence
      /\ request.timeout \in 1..MaxTimeout /\ context.generation \in Generation
  BY HostFields DEF Acceptable, ValidSender, UiRequest, SenderContext
<1>2. /\ request.id = [generation |-> context.generation,
                       sequence |-> request.sequence]
      /\ h.session # None
      /\ h.session.generation = context.generation
      /\ request.sequence > h.session.lastSequence
      /\ h.inFlight[request.id] = None
  BY DEF Acceptable, ValidSender
<1>3. r \in Seq(RequestId) BY <1>1, RememberType DEF RendererSession
<1> HIDE DEF r
<1>4. /\ s \in RendererSession
      /\ s.generation = h.session.generation
      /\ s.lastSequence = request.sequence
  <2> DEFINE q == request.sequence
             s0 == h.session
             Replays == Seq(RequestId)
  <2>1. q \in 0..MaxSequence BY <1>1, LifecycleAssumption DEF Sequence
  <2>2. s0 \in [generation: Generation, nonce: Nonce,
                lastSequence: 0..MaxSequence, replayed: Replays,
                firstHealth: BOOLEAN, emitted: BOOLEAN] /\ r \in Replays
    BY <1>1, <1>3 DEF RendererSession
  <2> HIDE DEF q, s0, Replays
  <2>3. /\ [s0 EXCEPT !.lastSequence = q, !.replayed = r] \in
             [generation: Generation, nonce: Nonce,
              lastSequence: 0..MaxSequence, replayed: Replays,
              firstHealth: BOOLEAN, emitted: BOOLEAN]
        /\ [s0 EXCEPT !.lastSequence = q, !.replayed = r].generation = s0.generation
        /\ [s0 EXCEPT !.lastSequence = q, !.replayed = r].lastSequence = q
    BY <2>1, <2>2
  <2> QED BY <2>3 DEF q, s0, Replays, RendererSession
<1>5. e \in InFlight BY <1>1 DEF InFlight
<1> HIDE DEF s, e
<1>6. f \in [RequestId -> InFlight \cup {None}]
  BY <1>1, <1>5, HostFields
<1> HIDE DEF f
<1>7. /\ h2 \in Host
      /\ h2.accepting = h.accepting /\ h2.generation = h.generation
      /\ h2.session = s /\ h2.inFlight = f
  BY <1>4, <1>6 DEF Host
<1>8. Begin(h, context, request, t) = h2
  BY <1>1 DEF Begin, s, r, f, e, Host
<1> HIDE DEF h2
<1>9. s # None BY <1>4, NoneAssumption
<1>10. h.session.lastSequence < request.sequence
  BY <1>1, <1>2 DEF RendererSession, Sequence
<1>11. /\ request.id.generation = context.generation
       /\ request.id.sequence = request.sequence
  BY <1>2
<1>12. f = [h.inFlight EXCEPT ![request.id] =
             [generation |-> request.id.generation, startedAt |-> t,
              timeout |-> request.timeout, cancelledAt |-> None]]
  BY <1>11 DEF f, e
<1> QED BY <1>2, <1>4, <1>7, <1>8, <1>9, <1>10, <1>11, <1>12

LEMMA BeginRequestKeeps ==
  ASSUME IInv, NEW context \in SenderContext, NEW request \in UiRequest,
         BeginRequest(context, request)
  PROVE  /\ IInv' /\ outcome' = outcome /\ grants' = grants
         /\ outcome[request.id] = None /\ accepted[request.id] = None
         /\ host'.session # None /\ host.session # None
         /\ host'.session.generation = host.session.generation
<1> DEFINE new == request.id
           e == [generation |-> request.id.generation, startedAt |-> now,
                 timeout |-> request.timeout, cancelledAt |-> None]
<1>1. /\ now \in Time /\ now \in Nat /\ HostInv(host, now) /\ host \in Host
      /\ request.operation \in Operation /\ new \in RequestId
  BY TimeType DEF UiRequest, Time
<1>2. /\ host' \in Host
      /\ host'.accepting = host.accepting /\ host'.generation = host.generation
      /\ host.session # None /\ host'.session # None
      /\ host'.session.generation = host.session.generation
      /\ host'.session.lastSequence = request.sequence
      /\ host.session.lastSequence < request.sequence
      /\ host.inFlight[new] = None
      /\ new.generation = host.session.generation
      /\ new.sequence = request.sequence
      /\ host'.inFlight = [host.inFlight EXCEPT ![new] = e]
  BY <1>1, BeginFacts DEF BeginRequest
<1>3. /\ accepted' = [accepted EXCEPT ![new] = request.operation]
      /\ now' = now /\ outcome' = outcome /\ grants' = grants
      /\ cancelAnswers' = cancelAnswers
      /\ host.accepting
  BY DEF BeginRequest, history, Acceptable, ValidSender
<1>4. /\ host.inFlight \in [RequestId -> InFlight \cup {None}]
      /\ accepted \in [RequestId -> Operation \cup {None}]
      /\ host'.generation \in Nat /\ host.session \in RendererSession
      /\ host.session.generation = host.generation
  BY <1>1, <1>2, HostFields DEF IInv, TypeOK, HostInv
<1>5. e \in InFlight /\ e # None
  BY <1>1, NoneAssumption DEF InFlight, UiRequest, RequestId
<1>6. /\ host'.inFlight[new] = e
      /\ \A id \in RequestId : id # new => host'.inFlight[id] = host.inFlight[id]
      /\ accepted'[new] = request.operation
      /\ \A id \in RequestId : id # new => accepted'[id] = accepted[id]
  BY <1>1, <1>2, <1>3, <1>4
<1>7. HostInv(host, now)'
  <2>1. EntriesAreOwn(host', now)
    BY <1>1, <1>6 DEF EntriesAreOwn, HostInv
  <2>2. OthersAreCancelled(host')
    BY <1>1, <1>2, <1>3, <1>6 DEF OthersAreCancelled, HostInv, OwnedBySession
  <2> QED BY <1>2, <1>3, <1>4, <2>1, <2>2 DEF HostInv
<1>8. outcome[new] = None
  <2>1. CASE outcome[new] # None
    <3>1. new.sequence <= host.session.lastSequence
      BY <1>1, <1>2, <2>1 DEF IInv, UsedIdsArePassed
    <3> QED BY <1>2, <1>4, <3>1, <1>1 DEF RendererSession, RequestId, Sequence
  <2> QED BY <2>1
<1>9. AcceptedOnce'
  BY <1>1, <1>3, <1>5, <1>6, <1>8, NoneAssumption DEF IInv, AcceptedOnce
<1>10. UsedIdsArePassed'
  <2> SUFFICES ASSUME NEW id \in RequestId, accepted'[id] # None \/ outcome[id] # None
               PROVE  /\ id.generation <= host'.generation
                      /\ host'.session.generation = id.generation =>
                           id.sequence <= host'.session.lastSequence
    BY <1>2, <1>3 DEF UsedIdsArePassed
  <2>1. /\ id.sequence \in Nat /\ request.sequence \in Nat
        /\ host.session.lastSequence \in Nat
    BY <1>4 DEF RequestId, Sequence, RendererSession, UiRequest
  <2>2. CASE id = new BY <1>2, <1>4, <2>1, <2>2
  <2>3. CASE id # new
    <3>1. accepted[id] # None \/ outcome[id] # None BY <1>6, <2>3
    <3> QED BY <1>2, <2>1, <3>1 DEF IInv, UsedIdsArePassed
  <2> QED BY <2>2, <2>3
<1>11. CancelsAreRecorded'
  <2>1. \A id \in RequestId : outcome[id] = None /\ cancelAnswers[id] # {} => id # new
    BY <1>2 DEF IInv, CancelsAreRecorded
  <2> QED BY <1>3, <1>6, <2>1 DEF IInv, CancelsAreRecorded
<1>12. CancelAnswerIsFinal' BY <1>3 DEF IInv, CancelAnswerIsFinal
<1>13. TypeOK'
  BY <1>1, <1>2, <1>3 DEF IInv, TypeOK, BeginRequest, platform, history
<1>14. GrantsAreOfThePast' BY <1>2, <1>3 DEF IInv, GrantsAreOfThePast
<1>15. accepted[new] = None BY <1>1, <1>2 DEF IInv, AcceptedOnce
<1> QED
  BY <1>2, <1>3, <1>7, <1>8, <1>9, <1>10, <1>11, <1>12, <1>13, <1>14, <1>15 DEF IInv

LEMMA CancelRequestKeeps ==
  ASSUME IInv, NEW context \in SenderContext, NEW new \in RequestId,
         CancelRequest(context, new)
  PROVE  /\ IInv' /\ outcome' = outcome /\ grants' = grants
         /\ host'.session = host.session
<1> DEFINE e == CancelAt(host.inFlight[new], now)
           f == [host.inFlight EXCEPT ![new] = e]
<1>1. /\ now \in Time /\ now \in Nat /\ HostInv(host, now) /\ host \in Host
      /\ host.inFlight[new] # None
      /\ host.inFlight \in [RequestId -> InFlight \cup {None}]
      /\ cancelAnswers \in [RequestId -> SUBSET Terminal]
  BY TimeType, HostFields DEF CancelRequest, MayCancel, Time, IInv, TypeOK
<1>2. host.inFlight[new] \in InFlight BY <1>1
<1>3. /\ e \in InFlight /\ e # None
      /\ e.generation = host.inFlight[new].generation
      /\ e.startedAt = host.inFlight[new].startedAt
      /\ e.cancelledAt # None
      /\ e.cancelledAt \in {host.inFlight[new].cancelledAt, now}
      /\ host.inFlight[new].cancelledAt # None => e = host.inFlight[new]
  BY <1>1, <1>2, CancelAtType DEF CancelAt
<1> HIDE DEF e
<1>4. f \in [RequestId -> InFlight \cup {None}] BY <1>1, <1>3
<1>5. /\ f[new] = e
      /\ \A id \in RequestId : id # new => f[id] = host.inFlight[id]
  BY <1>1
<1>6. host' = [host EXCEPT !.inFlight = f]
  BY <1>1 DEF CancelRequest, Cancel, f, e, Host
<1> HIDE DEF f
<1>7. /\ host' \in Host /\ host'.inFlight = f
      /\ host'.accepting = host.accepting /\ host'.generation = host.generation
      /\ host'.session = host.session
  BY <1>1, <1>4, <1>6 DEF Host
<1>8. /\ now' = now /\ accepted' = accepted /\ outcome' = outcome
      /\ grants' = grants
      /\ cancelAnswers' = [cancelAnswers EXCEPT ![new] =
                             cancelAnswers[new] \cup {CancelAnswer(e)}]
  BY <1>5, <1>7 DEF CancelRequest
<1>9. HostInv(host, now)'
  <2>1. EntriesAreOwn(host', now)
    BY <1>1, <1>3, <1>5, <1>7 DEF EntriesAreOwn, HostInv
  <2>2. OthersAreCancelled(host')
    BY <1>1, <1>3, <1>5, <1>7 DEF OthersAreCancelled, HostInv, OwnedBySession
  <2> QED BY <1>1, <1>7, <1>8, <2>1, <2>2 DEF HostInv
<1>10. AcceptedOnce'
  BY <1>1, <1>3, <1>5, <1>7, <1>8 DEF IInv, AcceptedOnce
<1>11. outcome[new] = None
  BY <1>1 DEF IInv, AcceptedOnce
<1>12. UsedIdsArePassed'
  BY <1>7, <1>8 DEF IInv, UsedIdsArePassed
<1>13. /\ cancelAnswers'[new] = cancelAnswers[new] \cup {CancelAnswer(e)}
       /\ \A id \in RequestId : id # new => cancelAnswers'[id] = cancelAnswers[id]
  BY <1>1, <1>8
<1>14. CancelsAreRecorded'
  <2>1. cancelAnswers'[new] = {CancelAnswer(e)}
    BY <1>3, <1>11, <1>13 DEF IInv, CancelsAreRecorded
  <2> QED BY <1>3, <1>5, <1>7, <1>8, <1>13, <2>1 DEF IInv, CancelsAreRecorded
<1>15. CancelAnswerIsFinal'
  BY <1>8, <1>11, <1>13 DEF IInv, CancelAnswerIsFinal
<1>16. TypeOK'
  <2>1. cancelAnswers' \in [RequestId -> SUBSET Terminal]
    BY <1>1, <1>8 DEF CancelAnswer, Terminal
  <2> QED BY <1>7, <1>8, <2>1 DEF IInv, TypeOK, CancelRequest, platform
<1>17. GrantsAreOfThePast' BY <1>7, <1>8 DEF IInv, GrantsAreOfThePast
<1> QED BY <1>7, <1>8, <1>9, <1>10, <1>12, <1>14, <1>15, <1>16, <1>17 DEF IInv

(* The answer of a completion is either terminal or earned: nobody has     *)
(* cancelled the request, and its deadline is ahead.                       *)
LEMMA CompletionOutcomeFacts ==
  ASSUME NEW request \in InFlight, NEW t \in Nat, NEW answer \in Live
  PROVE  /\ CompletionOutcome(request, t, answer) \in Live \cup Terminal
         /\ request.cancelledAt # None /\ request.cancelledAt <= t =>
              CompletionOutcome(request, t, answer) = CancelAnswer(request)
         /\ CompletionOutcome(request, t, answer) \in Live =>
              /\ t - request.startedAt < request.timeout
              /\ ~CancelledInTime(request)
<1>1. /\ request # None
      /\ request.startedAt \in Nat /\ request.timeout \in Nat
      /\ request.cancelledAt # None => request.cancelledAt \in Nat
  BY NoneAssumption, LifecycleAssumption DEF InFlight, Time
<1>2. CASE CancelledInTime(request)
  <2>1. CompletionOutcome(request, t, answer) = "cancelled"
    BY <1>1, <1>2 DEF CompletionOutcome
  <2> QED BY <1>2, <2>1 DEF CancelAnswer, Live, Terminal
<1>3. CASE ~CancelledInTime(request) /\ t - request.startedAt >= request.timeout
  <2>1. CompletionOutcome(request, t, answer) = "timed-out"
    BY <1>1, <1>3 DEF CompletionOutcome
  <2> QED BY <1>3, <2>1 DEF CancelAnswer, Live, Terminal
<1>4. CASE ~CancelledInTime(request) /\ ~(t - request.startedAt >= request.timeout)
  <2>1. CompletionOutcome(request, t, answer) = answer
    BY <1>1, <1>4 DEF CompletionOutcome
  <2>2. ~(request.cancelledAt # None /\ request.cancelledAt <= t)
    BY <1>1, <1>4 DEF CancelledInTime
  <2> QED BY <1>1, <1>4, <2>1, <2>2
<1> QED BY <1>2, <1>3, <1>4

LEMMA RecordSuccessFacts ==
  ASSUME NEW session \in RendererSession, NEW sequence \in Nat
  PROVE  /\ RecordSuccess(session, sequence) \in RendererSession
         /\ RecordSuccess(session, sequence).generation = session.generation
         /\ RecordSuccess(session, sequence).lastSequence = session.lastSequence
<1> DEFINE first == session.firstHealth \/ sequence = 1
           emitted == session.emitted \/ (sequence = 2 /\ session.firstHealth)
           Replays == Seq(RequestId)
<1>1. first \in BOOLEAN /\ emitted \in BOOLEAN
  BY DEF RendererSession
<1>2. session \in [generation: Generation, nonce: Nonce,
                   lastSequence: 0..MaxSequence, replayed: Replays,
                   firstHealth: BOOLEAN, emitted: BOOLEAN]
  BY DEF RendererSession
<1>3. RecordSuccess(session, sequence) =
        [session EXCEPT !.firstHealth = first, !.emitted = emitted]
  BY DEF RecordSuccess
<1> HIDE DEF first, emitted, Replays
<1>4. RecordSuccess(session, sequence) \in
        [generation: Generation, nonce: Nonce,
         lastSequence: 0..MaxSequence, replayed: Replays,
         firstHealth: BOOLEAN, emitted: BOOLEAN]
  BY <1>1, <1>2, <1>3
<1> QED BY <1>2, <1>3, <1>4 DEF RendererSession, Replays

(* What answering a request changes, and when the answer may be live. *)
LEMMA CompleteWithKeeps ==
  ASSUME IInv, NEW old \in RequestId, NEW answer \in Live,
         CompleteWith(old, answer), acks' \in [Generation -> Nat]
  PROVE  /\ IInv' /\ grants' = grants
         /\ host'.session # None => /\ host.session # None
                                    /\ host'.session.generation = host.session.generation
         /\ \A id \in RequestId : id # old => outcome'[id] = outcome[id]
         /\ outcome'[old] \in Live =>
              /\ host.accepting
              /\ host.session # None
              /\ host.session.generation = old.generation
              /\ cancelAnswers[old] = {}
              /\ now - host.inFlight[old].startedAt < host.inFlight[old].timeout
<1> DEFINE entry == host.inFlight[old]
           result == CompletionOutcome(entry, now, answer)
           f == [host.inFlight EXCEPT ![old] = None]
           s == IF Counts(host, old, result)
                  THEN RecordSuccess(host.session, old.sequence) ELSE host.session
<1>1. /\ now \in Time /\ now \in Nat /\ HostInv(host, now) /\ host \in Host
      /\ host.inFlight \in [RequestId -> InFlight \cup {None}]
      /\ host.session \in RendererSession \cup {None}
      /\ outcome \in [RequestId -> Outcome \cup {None}]
      /\ accepted \in [RequestId -> Operation \cup {None}]
      /\ old.sequence \in Nat
  <2>1. /\ now \in Time /\ HostInv(host, now) /\ host \in Host BY TimeType
  <2>2. old.sequence \in Nat BY DEF RequestId, Sequence
  <2> QED BY <2>1, <2>2, HostFields DEF Time, IInv, TypeOK
<1>2. accepted[old] # None BY DEF CompleteWith
<1>3. /\ entry \in InFlight /\ entry # None /\ outcome[old] = None
  BY <1>1, <1>2 DEF IInv, AcceptedOnce
<1>5. /\ result \in Live \cup Terminal
      /\ entry.cancelledAt # None => result = CancelAnswer(entry)
      /\ result \in Live => /\ now - entry.startedAt < entry.timeout
                            /\ ~CancelledInTime(entry)
  <2>1. entry.cancelledAt # None => entry.cancelledAt <= now
    BY <1>1, <1>3 DEF HostInv, EntriesAreOwn
  <2> HIDE DEF entry
  <2> QED BY <1>1, <1>3, <2>1, CompletionOutcomeFacts
<1>6. /\ host' = Complete(host, old, result)
      /\ outcome' = [outcome EXCEPT ![old] = result]
      /\ accepted' = [accepted EXCEPT ![old] = None]
      /\ now' = now /\ loads' = loads /\ unfinished' = unfinished
      /\ cancelAnswers' = cancelAnswers /\ grants' = grants
      /\ uncounted' = uncounted
  BY DEF CompleteWith, platform
<1>7. host' = [host EXCEPT !.inFlight = f, !.session = s]
  BY <1>1, <1>6 DEF Complete, Host
<1> HIDE DEF result
<1>8. /\ s \in RendererSession \cup {None}
      /\ s # None <=> host.session # None
      /\ s # None => /\ s.generation = host.session.generation
                     /\ s.lastSequence = host.session.lastSequence
  <2>1. CASE Counts(host, old, result)
    <3>1. host.session \in RendererSession BY <1>1, <2>1 DEF Counts
    <3> QED BY <1>1, <2>1, <3>1, RecordSuccessFacts, NoneAssumption
  <2>2. CASE ~Counts(host, old, result) BY <1>1, <2>2
  <2> QED BY <2>1, <2>2
<1> HIDE DEF s
<1>9. f \in [RequestId -> InFlight \cup {None}] BY <1>1
<1>10. f[old] = None /\ \A id \in RequestId : id # old => f[id] = host.inFlight[id]
  BY <1>1
<1> HIDE DEF f
<1>11. /\ host' \in Host /\ host'.inFlight = f /\ host'.session = s
       /\ host'.accepting = host.accepting /\ host'.generation = host.generation
  BY <1>1, <1>7, <1>8, <1>9 DEF Host
<1>12. /\ outcome'[old] = result /\ accepted'[old] = None
       /\ \A id \in RequestId : id # old =>
            outcome'[id] = outcome[id] /\ accepted'[id] = accepted[id]
  BY <1>1, <1>6
<1>13. result # None
  BY <1>5, NoneAssumption DEF Outcome
<1>14. HostInv(host, now)'
  <2>1. EntriesAreOwn(host', now)
    BY <1>1, <1>10, <1>11 DEF EntriesAreOwn, HostInv
  <2>2. OthersAreCancelled(host')
    BY <1>1, <1>8, <1>10, <1>11 DEF OthersAreCancelled, HostInv, OwnedBySession
  <2> QED BY <1>1, <1>6, <1>8, <1>11, <2>1, <2>2 DEF HostInv
<1>15. AcceptedOnce'
  BY <1>10, <1>11, <1>12 DEF IInv, AcceptedOnce
<1>16. UsedIdsArePassed'
  BY <1>2, <1>8, <1>11, <1>12 DEF IInv, UsedIdsArePassed
<1>17. CancelAnswerIsFinal'
  <2>1. cancelAnswers[old] \subseteq {result}
    BY <1>3, <1>5 DEF IInv, CancelsAreRecorded
  <2> QED BY <1>6, <1>12, <2>1 DEF IInv, CancelAnswerIsFinal
<1>18. CancelsAreRecorded'
  BY <1>6, <1>10, <1>11, <1>12, <1>13 DEF IInv, CancelsAreRecorded
<1>19. TypeOK'
  <2>1. outcome' \in [RequestId -> Outcome \cup {None}]
    BY <1>1, <1>5, <1>6 DEF Outcome
  <2>2. accepted' \in [RequestId -> Operation \cup {None}]
    BY <1>1, <1>6
  <2> QED BY <1>6, <1>11, <2>1, <2>2 DEF IInv, TypeOK
<1>20. GrantsAreOfThePast' BY <1>6, <1>11 DEF IInv, GrantsAreOfThePast
<1>21. ASSUME result \in Live
       PROVE  /\ host.accepting
              /\ host.session # None
              /\ host.session.generation = old.generation
              /\ cancelAnswers[old] = {}
              /\ now - entry.startedAt < entry.timeout
  <2>1. CancelAnswer(entry) \notin Live BY DEF CancelAnswer, Live
  <2>2. entry.cancelledAt = None BY <1>5, <1>21, <2>1
  <2>3. host.accepting /\ OwnedBySession(host, entry)
    BY <1>1, <1>3, <2>2 DEF HostInv, OthersAreCancelled
  <2>4. entry.generation = old.generation
    BY <1>1, <1>3 DEF HostInv, EntriesAreOwn
  <2>5. cancelAnswers[old] = {}
    BY <1>3, <2>2 DEF IInv, CancelsAreRecorded
  <2> QED BY <1>5, <1>21, <2>3, <2>4, <2>5 DEF OwnedBySession
<1> QED
  BY <1>6, <1>8, <1>11, <1>12, <1>14, <1>15, <1>16, <1>17, <1>18, <1>19,
     <1>20, <1>21 DEF IInv
LEMMA CompleteRequestCounts ==
  ASSUME IInv, NEW id \in RequestId, CompleteRequest(id)
  PROVE  /\ CompleteWith(id, DispatchHealth(accepted[id]))
         /\ DispatchHealth(accepted[id]) \in Live
         /\ acks' \in [Generation -> Nat]
<1>1. id.generation \in Generation BY DEF RequestId
<1>2. acks \in [Generation -> Nat] BY DEF IInv, TypeOK
<1>3. acks[id.generation] + 1 \in Nat BY <1>1, <1>2
<1>4. acks' \in {acks, [acks EXCEPT ![id.generation] = acks[id.generation] + 1]}
  BY DEF CompleteRequest
<1>5. acks' \in [Generation -> Nat] BY <1>2, <1>3, <1>4
<1> QED BY <1>5 DEF CompleteRequest, DispatchHealth, Live
-----------------------------------------------------------------------------
(* Every step of the host *)

(* A document event revives no authority that was given before. *)
LEMMA DocumentEventRevivesNothing ==
  ASSUME IInv, DocumentEvent(host, host', now), NEW grant \in grants,
         IsCurrent(grant.authority, host')
  PROVE  IsCurrent(grant.authority, host)
<1>1. /\ grant.authority.generation <= host.generation
      /\ grant.authority.generation \in Nat /\ host.generation \in Nat
      /\ host'.session.generation = host'.generation /\ host'.session # None
  BY TimeType, HostFields
  DEF IInv, TypeOK, GrantsAreOfThePast, Authority, Generation, DocumentEvent,
      HostInv, IsCurrent
<1>2. CASE host'.session = host.session BY <1>1, <1>2 DEF IsCurrent
<1>3. CASE host'.generation = host.generation + 1 BY <1>1, <1>3 DEF IsCurrent
<1> QED BY <1>1, <1>2, <1>3 DEF DocumentEvent

LEMMA StutterKeeps ==
  ASSUME IInv, UNCHANGED vars
  PROVE  IInv'
BY DEF vars, platform, history, IInv, TypeOK, HostInv, EntriesAreOwn,
       OthersAreCancelled, AcceptedOnce, UsedIdsArePassed, CancelAnswerIsFinal,
       CancelsAreRecorded, GrantsAreOfThePast

LEMMA NextKeeps ==
  ASSUME IInv, [Next]_vars
  PROVE  IInv'
<1>1. CASE Tick BY <1>1, TickKeeps
<1>2. CASE PageLoadStarted BY <1>2, PageLoadStartedKeeps
<1>3. ASSUME NEW load \in unfinished, PageLoadFinished(load) PROVE IInv'
  BY <1>3, PageLoadFinishedKeeps
<1>4. CASE LoseRenderer BY <1>4, LoseRendererKeeps
<1>5. CASE Shutdown BY <1>5, ShutdownKeeps
<1>6. ASSUME NEW context \in SenderContext, NEW request \in UiRequest,
             BeginRequest(context, request)
      PROVE  IInv'
  BY <1>6, BeginRequestKeeps
<1>7. ASSUME NEW context \in SenderContext, NEW id \in RequestId,
             CancelRequest(context, id)
      PROVE  IInv'
  BY <1>7, CancelRequestKeeps
<1>8. ASSUME NEW id \in RequestId, CompleteRequest(id) PROVE IInv'
  BY <1>8, CompleteRequestCounts, CompleteWithKeeps
<1>9. CASE UNCHANGED vars BY <1>9, StutterKeeps
<1> QED BY <1>1, <1>2, <1>3, <1>4, <1>5, <1>6, <1>7, <1>8, <1>9 DEF Next

LEMMA InvariantHolds == Spec => []IInv
<1>1. Init => IInv BY InitEstablishes
<1>2. IInv /\ [Next]_vars => IInv' BY NextKeeps
<1> QED BY <1>1, <1>2, PTL DEF Spec

(* The host, its clock, the tokens its handlers hold and every history     *)
(* stay within their types: the generation never passes MAX_SEQUENCE, and  *)
(* the count of page loads never goes below zero (keiko-host-macos lib.rs).*)
THEOREM TypeCorrect == Spec => []TypeOK
<1>1. IInv => TypeOK BY DEF IInv
<1> QED BY <1>1, InvariantHolds, PTL

(* For every number of documents, requests and ticks: what is in flight    *)
(* belongs to the current session of a host that accepts, or is cancelled  *)
(* (retire_renderer_authority, shutdown).                                  *)
THEOREM RetiredWorkIsAlwaysCancelled == Spec => []RetiredWorkIsCancelled
<1>1. IInv => RetiredWorkIsCancelled
  BY DEF IInv, HostInv, OthersAreCancelled, RetiredWorkIsCancelled
<1> QED BY <1>1, InvariantHolds, PTL

(* No request id is accepted a second time, whatever the replay window     *)
(* forgets: a used id is of an older generation, or its sequence has been  *)
(* passed (begin_application_request).                                     *)
THEOREM IdsAreAcceptedOnce == Spec => []AcceptedOnce
<1>1. IInv => AcceptedOnce BY DEF IInv
<1> QED BY <1>1, InvariantHolds, PTL

(* Every canceller of a request has been told what its requester is told,  *)
(* at whatever time each of them asked (cancel_application_request,        *)
(* terminal_reason).                                                       *)
THEOREM CancelAnswersAreFinal == Spec => []CancelAnswerIsFinal
<1>1. IInv => CancelAnswerIsFinal BY DEF IInv
<1> QED BY <1>1, InvariantHolds, PTL

(* A live answer is given only by an accepting host, to the session that   *)
(* asked, before the deadline and to a request nobody cancelled            *)
(* (complete_with_availability).                                           *)
THEOREM AnswersAreAlwaysLive == Spec => AnswersAreLive
<1> DEFINE Live1(id) ==
      outcome'[id] \in Live /\ outcome[id] = None =>
        /\ host.accepting
        /\ host.session # None
        /\ host.session.generation = id.generation
        /\ cancelAnswers[id] = {}
        /\ now - host.inFlight[id].startedAt < host.inFlight[id].timeout
<1>1. ASSUME IInv, [Next]_vars, NEW id \in RequestId PROVE Live1(id)
  <2>1. None \notin Live BY NoneAssumption DEF Outcome
  <2>2. CASE outcome' = outcome BY <2>1, <2>2
  <2>3. ASSUME NEW old \in RequestId, CompleteRequest(old) PROVE Live1(id)
    <3>1. CASE id = old BY <1>1, <2>3, <3>1, CompleteRequestCounts, CompleteWithKeeps
    <3>2. CASE id # old
      <4>1. outcome'[id] = outcome[id] BY <1>1, <2>3, <3>2, CompleteRequestCounts, CompleteWithKeeps
      <4> QED BY <2>1, <4>1
    <3> QED BY <3>1, <3>2
  <2>4. outcome' = outcome \/ \E old \in RequestId : CompleteRequest(old)
    BY <1>1 DEF Next, vars, platform, history, Tick, PageLoadStarted,
                PageLoadFinished, LoseRenderer, Shutdown, BeginRequest,
                CancelRequest
  <2> QED BY <2>2, <2>3, <2>4
<1>2. IInv /\ [Next]_vars => [\A id \in RequestId : Live1(id)]_vars
  BY <1>1
<1> QED BY <1>2, InvariantHolds, PTL DEF Spec, AnswersAreLive

(* An authority that was installed and then retired is never current       *)
(* again: generations only grow (begin_renderer_session).                  *)
THEOREM RetiredAuthorityIsNeverRevived == Spec => RetiredAuthorityStaysRetired
<1> DEFINE Stays == \A grant \in grants :
      IsCurrent(grant.authority, host') => IsCurrent(grant.authority, host)
<1>1. ASSUME IInv, [Next]_vars PROVE Stays
  <2>1. CASE DocumentEvent(host, host', now)
    BY <1>1, <2>1, DocumentEventRevivesNothing
  <2>2. CASE host'.session # None => /\ host.session # None
                                     /\ host'.session.generation = host.session.generation
    BY <2>2 DEF IsCurrent
  <2>3. CASE Tick BY <2>2, <2>3 DEF Tick
  <2>4. CASE PageLoadStarted BY <1>1, <2>1, <2>4, PageLoadStartedKeeps
  <2>5. ASSUME NEW load \in unfinished, PageLoadFinished(load) PROVE Stays
    BY <1>1, <2>1, <2>5, PageLoadFinishedKeeps
  <2>6. CASE LoseRenderer BY <1>1, <2>1, <2>6, LoseRendererKeeps
  <2>7. CASE Shutdown BY <1>1, <2>1, <2>7, ShutdownKeeps
  <2>8. ASSUME NEW context \in SenderContext, NEW request \in UiRequest,
               BeginRequest(context, request)
        PROVE  Stays
    BY <1>1, <2>2, <2>8, BeginRequestKeeps
  <2>9. ASSUME NEW context \in SenderContext, NEW id \in RequestId,
               CancelRequest(context, id)
        PROVE  Stays
    BY <1>1, <2>2, <2>9, CancelRequestKeeps
  <2>10. ASSUME NEW id \in RequestId, CompleteRequest(id) PROVE Stays
    BY <1>1, <2>2, <2>10, CompleteRequestCounts, CompleteWithKeeps
  <2>11. CASE UNCHANGED vars BY <2>2, <2>11 DEF vars
  <2> QED
    BY <1>1, <2>3, <2>4, <2>5, <2>6, <2>7, <2>8, <2>9, <2>10, <2>11 DEF Next
<1>2. IInv /\ [Next]_vars => [Stays]_vars BY <1>1
<1> QED BY <1>2, InvariantHolds, PTL DEF Spec, RetiredAuthorityStaysRetired
=============================================================================
