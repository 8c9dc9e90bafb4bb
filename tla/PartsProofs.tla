----------------------------- MODULE PartsProofs -----------------------------
(***************************************************************************)
(* Six components that share no variable: what a published handoff and a   *)
(* published merge group are certified by, which issues a wake-up reaches, *)
(* what a packaged run and a delivered package promise, and which          *)
(* contracts form a chain, for any number of heads, runs, issues, pull     *)
(* requests, processes, files, changes and contracts.                      *)
(***************************************************************************)
EXTENDS LifecycleHandoff, MergeGroup, WakeRouting, PackagedLifecycle, PackagePublication,
        ContractChain, FiniteSetTheorems, TLAPS

(* HandoffInv: a generation holds only reports of runs that were started   *)
(* for it; phase one is clear only as the review it read was; and label    *)
(* changes are counted.                                                    *)
GenerationInv ==
  /\ prior = [status |-> prior.status, request |-> prior.request, results |-> prior.results]
  /\ \A c \in DOMAIN prior.results : \E run \in runs :
       run.id = prior.results[c].run /\ run.generation = prior.request

PhaseOneInv == phaseOne.clear => phaseOne.inputs.review = "clear"

(* The transition of the last success is the last one or was before it,    *)
(* and no label changed since a transition with the event of the issue.    *)
EventInv ==
  /\ issue = [state |-> issue.state, revision |-> issue.revision, readiness |-> issue.readiness,
              event |-> issue.event]
  /\ issue.event \in Nat /\ transition.event \in Nat /\ handoff.transition.event \in Nat
  /\ handoff.transition.event <= transition.event
  /\ transition.event <= issue.event
  /\ handoff.transition.event = transition.event => handoff.transition = transition

HandoffInv == GenerationInv /\ PhaseOneInv /\ EventInv /\ HeadsAreCertified

LEMMA HandoffInitEstablishes == HandoffInit => HandoffInv
<1> SUFFICES ASSUME HandoffInit PROVE HandoffInv
  OBVIOUS
<1>1. GenerationInv
  <2>1. prior = [status |-> "none", request |-> NoRecovery, results |-> << >>]
    BY DEF HandoffInit, NoGeneration
  <2>2. prior.results = << >> /\ DOMAIN prior.results = {}
    BY <2>1
  <2> QED
    BY <2>1, <2>2 DEF GenerationInv
<1>2. PhaseOneInv
  BY DEF HandoffInit, PhaseOneInv, NoPhase, NoObservation
<1>3. EventInv
  <2>1. \E state, readiness :
          issue = [state |-> state, revision |-> 1, readiness |-> readiness, event |-> 0]
    BY DEF HandoffInit
  <2>2. /\ issue = [state |-> issue.state, revision |-> issue.revision, readiness |-> issue.readiness,
                    event |-> issue.event]
        /\ issue.event = 0
    BY <2>1
  <2>3. transition = NoTransition /\ handoff.transition = NoTransition /\ NoTransition.event = 0
    BY DEF HandoffInit, NoHandoff, NoTransition
  <2> QED
    BY <2>2, <2>3 DEF EventInv
<1>4. HeadsAreCertified
  BY DEF HandoffInit, HeadsAreCertified
<1> QED
  BY <1>1, <1>2, <1>3, <1>4 DEF HandoffInv

(* Runs are never forgotten, so what is certified stays certified.         *)
LEMMA CertifiedStays ==
  ASSUME HeadsAreCertified, handoff' = handoff, runs \subseteq runs'
  PROVE  HeadsAreCertified'
BY DEF HeadsAreCertified

(* What people do and the label changes leave generations and handoffs     *)
(* alone.                                                                  *)
LEMMA ChangesKeep ==
  ASSUME HandoffInv,
         \/ Push \/ Authorize \/ ReviewChanges \/ Edit \/ AcceptReadiness \/ HumanRelabels
         \/ Move \/ Downgrade
  PROVE  HandoffInv'
<1>1. prior' = prior /\ runs' = runs /\ phaseOne' = phaseOne /\ handoff' = handoff
  BY DEF Push, Authorize, ReviewChanges, Edit, AcceptReadiness, HumanRelabels, Move, Downgrade, Change
<1>2. GenerationInv' /\ PhaseOneInv'
  BY <1>1 DEF HandoffInv, GenerationInv, PhaseOneInv
<1>3. HeadsAreCertified'
  BY <1>1, CertifiedStays DEF HandoffInv
<1>4. ASSUME NEW label, Relabel(label)
      PROVE  /\ issue' = [state |-> label, revision |-> issue.revision + 1,
                          readiness |-> issue.readiness, event |-> issue.event + 1]
  BY <1>4 DEF Relabel, HandoffInv, EventInv
<1>5. \/ transition' = transition /\ issue' = issue
      \/ /\ transition' = transition
         /\ issue' = [issue EXCEPT !.revision = @ + 1, !.readiness = 0]
      \/ /\ transition' = transition
         /\ issue' = [issue EXCEPT !.readiness = issue.revision]
      \/ transition' = transition /\ \E label : Relabel(label)
      \/ Relabel(Review) /\ Move
  BY DEF Push, Authorize, ReviewChanges, Edit, AcceptReadiness, HumanRelabels, Move, Downgrade, Change
<1>6. issue' = [state |-> issue'.state, revision |-> issue'.revision, readiness |-> issue'.readiness,
                event |-> issue'.event] /\ issue'.event \in {issue.event, issue.event + 1}
  <2>1. issue = [state |-> issue.state, revision |-> issue.revision, readiness |-> issue.readiness,
                 event |-> issue.event]
    BY DEF HandoffInv, EventInv
  <2>2. CASE issue' = issue
    BY <2>1, <2>2
  <2>3. CASE issue' = [issue EXCEPT !.revision = @ + 1, !.readiness = 0]
    BY <2>1, <2>3
  <2>4. CASE issue' = [issue EXCEPT !.readiness = issue.revision]
    BY <2>1, <2>4
  <2>5. CASE \E label : Relabel(label)
    BY <1>4, <2>5
  <2> QED
    BY <1>5, <2>2, <2>3, <2>4, <2>5
<1>7. CASE transition' = transition
  <2>1. EventInv'
    BY <1>1, <1>6, <1>7 DEF HandoffInv, EventInv
  <2> QED
    BY <1>2, <1>3, <2>1 DEF HandoffInv
<1>8. CASE Relabel(Review) /\ Move
  <2>1. transition'.event = issue.event + 1 /\ issue'.event = issue.event + 1
    BY <1>4, <1>8 DEF Move
  <2>2. EventInv'
    BY <1>1, <1>6, <2>1 DEF HandoffInv, EventInv
  <2> QED
    BY <1>2, <1>3, <2>2 DEF HandoffInv
<1> QED
  BY <1>2, <1>3, <1>5, <1>7, <1>8 DEF HandoffInv

LEMMA BeginHandshakeKeeps == HandoffInv /\ BeginHandshake => HandoffInv'
<1> SUFFICES ASSUME HandoffInv, BeginHandshake PROVE HandoffInv'
  OBVIOUS
<1>1. /\ prior' = prior /\ runs' = runs /\ handoff' = handoff /\ issue' = issue /\ transition' = transition
      /\ phaseOne'.clear = (pull.review = "clear") /\ phaseOne'.inputs.review = pull.review
  BY DEF BeginHandshake, Observation
<1>2. HeadsAreCertified'
  BY <1>1, CertifiedStays DEF HandoffInv
<1> QED
  BY <1>1, <1>2 DEF HandoffInv, GenerationInv, PhaseOneInv, EventInv

(* The generation that a wake-up keeps is the one there was, a new one     *)
(* without reports, or the one there was with one more report of a run     *)
(* that was started for it.                                                *)
LEMMA WakeKeeps ==
  ASSUME HandoffInv, NEW request, NEW completion, Wake(request, completion),
         completion = NoCompletion \/
           \E run \in runs : completion.run = run.id /\ completion.generation = run.generation
  PROVE  HandoffInv'
<1> DEFINE kept == Coalesce(request, completion)
<1>1. /\ prior' = kept /\ runs \subseteq runs'
      /\ phaseOne' = phaseOne /\ handoff' = handoff /\ issue' = issue /\ transition' = transition
  BY DEF Wake
<1>2. PhaseOneInv' /\ EventInv'
  BY <1>1 DEF HandoffInv, PhaseOneInv, EventInv
<1>3. HeadsAreCertified'
  BY <1>1, CertifiedStays DEF HandoffInv
<1>4. GenerationInv'
  <2>1. CASE kept = prior
    BY <1>1, <2>1 DEF HandoffInv, GenerationInv
  <2>2. CASE kept = NewGeneration(request)
    <3>1. prior' = [status |-> "pending", request |-> request, results |-> << >>]
      BY <1>1, <2>2 DEF NewGeneration
    <3>2. prior'.results = << >> /\ DOMAIN prior'.results = {}
      BY <3>1
    <3> QED
      BY <3>1, <3>2 DEF GenerationInv
  <2>3. CASE kept = AttachCompletion(completion) /\ Attachable(completion)
    <3>1. PICK results :
            /\ results = [c \in DOMAIN prior.results \cup {completion.context} |->
                            IF c = completion.context THEN completion ELSE prior.results[c]]
            /\ prior' = [prior EXCEPT !.results = results,
                           !.status = NextStatus(results, Contexts(prior.request.binding.lane))]
      BY <1>1, <2>3 DEF AttachCompletion
    <3>2. prior = [status |-> prior.status, request |-> prior.request, results |-> prior.results]
      BY DEF HandoffInv, GenerationInv
    <3>3. /\ prior' = [status |-> prior'.status, request |-> prior'.request, results |-> prior'.results]
          /\ prior'.request = prior.request /\ prior'.results = results
      BY <3>1, <3>2
    <3>4. PICK run \in runs : run.id = completion.run /\ run.generation = prior.request
      BY <2>3 DEF Attachable, CompletionMatches
    <3>5. ASSUME NEW c \in DOMAIN results
          PROVE  \E r \in runs : r.id = results[c].run /\ r.generation = prior.request
      <4>1. CASE c = completion.context
        BY <3>1, <3>4, <4>1
      <4>2. CASE c # completion.context
        BY <3>1, <4>2 DEF HandoffInv, GenerationInv
      <4> QED
        BY <4>1, <4>2
    <3> QED
      BY <1>1, <3>3, <3>5 DEF GenerationInv
  <2> QED
    BY <2>1, <2>2, <2>3 DEF Coalesce
<1> QED
  BY <1>2, <1>3, <1>4 DEF HandoffInv

LEMMA WakeUpsKeep == HandoffInv /\ (Refresh \/ Report \/ Recover) => HandoffInv'
<1>1. HandoffInv /\ Refresh => HandoffInv'
  BY WakeKeeps DEF Refresh
<1>2. HandoffInv /\ Recover => HandoffInv'
  BY WakeKeeps DEF Recover
<1>3. ASSUME HandoffInv, Report PROVE HandoffInv'
  <2>1. PICK run \in runs : \E context, conclusion, output :
          Wake(prior.request,
               [context |-> context, generation |-> run.generation, run |-> run.id,
                conclusion |-> conclusion, output |-> output])
    BY <1>3 DEF Report
  <2> QED
    BY <1>3, <2>1, WakeKeeps
<1> QED
  BY <1>1, <1>2, <1>3

(* The last success names the last label change, even where the handshake  *)
(* only repeats the one that led to review.                                *)
LEMMA NormalHandoffFacts ==
  ASSUME HandoffInv, NormalHandoff
  PROVE  /\ issue.state = Review /\ issue.readiness # 0 /\ pull.review = "clear"
         /\ transition.event = issue.event /\ transition.head = pull.head
<1> DEFINE now == CurrentRequest.inputs
<1>1. now.state = issue.state /\ now.review = pull.review
  BY DEF CurrentRequest, Request, Observation
<1>2. CASE phaseOne.source = Review
  <2>1. StableReview
    BY <1>2 DEF NormalHandoff
  <2>2. handoff.transition.event = transition.event /\ transition.event = issue.event
    BY <2>1 DEF StableReview, ReadbackEligible, HandoffInv, EventInv
  <2> QED
    BY <1>1, <2>1, <2>2 DEF StableReview, Readable, HandoffInv, PhaseOneInv, EventInv
<1>3. CASE phaseOne.source # Review
  <2>1. PhaseOneEligible /\ TransitionBound /\ ReadbackEligible(transition)
    BY <1>3 DEF NormalHandoff
  <2> QED
    BY <1>1, <2>1 DEF PhaseOneEligible, PhaseSnapshotsCurrent, TransitionBound, ReadbackEligible, Readable,
                      HandoffInv, PhaseOneInv
<1> QED
  BY <1>2, <1>3

LEMMA VerifiedFacts ==
  ASSUME HandoffInv, VerifiedResults
  PROVE  /\ \A c \in Contexts(Lane(pull)) : \E run \in runs :
              /\ run.id = prior.results[c].run
              /\ run.generation.inputs = Observation
              /\ run.generation.binding.head = pull.head
              /\ run.generation.binding.lane = Lane(pull)
              /\ prior.results[c].conclusion = "success"
              /\ prior.results[c].output.head = pull.head
         /\ \A c, d \in Contexts(Lane(pull)) : prior.results[c].run = prior.results[d].run => c = d
<1>1. HasPrior
  BY DEF VerifiedResults, HasPrior
<1>2. /\ prior.request.binding = Binding(pull) /\ prior.request.inputs = Observation
      /\ Binding(pull).lane = Lane(pull) /\ Binding(pull).head = pull.head
  BY <1>1 DEF VerifiedResults, CurrentRequest, Request, Binding
<1>3. /\ DOMAIN prior.results = Contexts(Lane(pull))
      /\ \A c \in Contexts(Lane(pull)) :
           prior.results[c].conclusion = "success" /\ prior.results[c].output = Binding(pull)
      /\ IsInjective([c \in Contexts(Lane(pull)) |-> prior.results[c].run])
  BY <1>2 DEF VerifiedResults
<1>4. \A c, d \in Contexts(Lane(pull)) : prior.results[c].run = prior.results[d].run => c = d
  BY <1>3 DEF IsInjective
<1> QED
  BY <1>2, <1>3, <1>4 DEF HandoffInv, GenerationInv

LEMMA PublishHandoffKeeps == HandoffInv /\ PublishHandoff => HandoffInv'
<1> SUFFICES ASSUME HandoffInv, PublishHandoff PROVE HandoffInv'
  OBVIOUS
<1>1. /\ handoff' = [lane |-> Lane(pull), transition |-> transition, generation |-> prior.request,
                     results |-> prior.results, pull |-> pull, issue |-> issue, inputs |-> Observation]
      /\ prior' = prior /\ runs' = runs /\ phaseOne' = phaseOne /\ issue' = issue /\ transition' = transition
      /\ NormalHandoff \/ PublicationHandoff
  BY DEF PublishHandoff
<1>2. /\ handoff'.lane = Lane(pull) /\ handoff'.transition = transition /\ handoff'.results = prior.results
      /\ handoff'.pull = pull /\ handoff'.issue = issue /\ handoff'.inputs = Observation
  BY <1>1
<1>3. GenerationInv' /\ PhaseOneInv' /\ EventInv'
  BY <1>1, <1>2 DEF HandoffInv, GenerationInv, PhaseOneInv, EventInv
<1>4. VerifiedResults /\ Lane(pull) \in {"normal", "publication"}
  BY <1>1 DEF NormalHandoff, PublicationHandoff
<1>5. pull.authority.head = pull.head
  <2>1. \E lane : AuthorityMatches(pull, lane)
    BY <1>4 DEF Lane
  <2> QED
    BY <2>1 DEF AuthorityMatches
<1>6. Lane(pull) = "publication" => pull.receipt = [state |-> issue.state, readiness |-> issue.readiness]
  BY DEF Lane, CandidateAccepted, ObservedIssue
<1>7. Lane(pull) = "normal" => NormalHandoff
  BY <1>1 DEF PublicationHandoff
<1>8. HeadsAreCertified'
  BY <1>1, <1>2, <1>4, <1>5, <1>6, <1>7, VerifiedFacts, NormalHandoffFacts DEF HeadsAreCertified
<1> QED
  BY <1>3, <1>8 DEF HandoffInv

LEMMA HandoffNextKeeps == HandoffInv /\ [HandoffNext]_handoffVars => HandoffInv'
<1>1. ASSUME HandoffInv, UNCHANGED handoffVars PROVE HandoffInv'
  BY <1>1, CertifiedStays DEF HandoffInv, GenerationInv, PhaseOneInv, EventInv, handoffVars
<1>2. ASSUME HandoffInv, AuthorizeRecovery PROVE HandoffInv'
  BY <1>2, CertifiedStays DEF HandoffInv, GenerationInv, PhaseOneInv, EventInv, AuthorizeRecovery
<1> QED
  BY <1>1, <1>2, ChangesKeep, BeginHandshakeKeeps, WakeUpsKeep, PublishHandoffKeeps DEF HandoffNext

(* A published handoff stands for the facts of the moment it was decided   *)
(* at: runs of their own for every context, started for these facts, and   *)
(* the label change of this head's handshake as the last one, for any      *)
(* number of runs, reports, edits and recoveries (lifecycle-handoff.mjs).  *)
THEOREM HandoffsAreCertified == HandoffSpec => []HeadsAreCertified
<1>1. HandoffInv => HeadsAreCertified
  BY DEF HandoffInv
<1> QED
  BY <1>1, HandoffInitEstablishes, HandoffNextKeeps, PTL DEF HandoffSpec

-----------------------------------------------------------------------------
(* GroupInv: what a read holds, and what it says of the time between two   *)
(* reads.                                                                  *)

IsSequence(s) == Len(s) \in Nat /\ s = [i \in 1 .. Len(s) |-> s[i]]

(* A complete or partial read; a commit is read with the tree it has.      *)
IsRead(read) ==
  /\ read = [base |-> read.base, commit |-> read.commit, tree |-> read.tree, members |-> read.members]
  /\ read.commit = [tree |-> read.commit.parents, parents |-> read.commit.parents]
  /\ IsSequence(read.members)
  /\ \A i \in DOMAIN read.members :
       read.members[i].pull \in Pulls /\ read.members[i].evidence.run \in 0 .. moves

WorldInv ==
  /\ moves \in Nat
  /\ DOMAIN handoffs = Pulls
  /\ \A p \in Pulls : handoffs[p].run \in 0 .. moves
  /\ \A i \in DOMAIN queue.members : queue.members[i].pull \in Pulls

ReadInv ==
  /\ \A read \in {reading, firstRead, secondRead} : read # Nothing => IsRead(read)
  /\ firstRead = Nothing => secondRead = Nothing
  /\ secondRead # Nothing => reading = Nothing

(* Evidence that was gone when the second read began does not come back.   *)
GoneInv ==
  firstRead # Nothing /\ between # Nothing =>
    \A i \in DOMAIN firstRead.members :
      LET member == firstRead.members[i] IN
      member.evidence # NoEvidence /\ between.evidence[member.pull] # member.evidence
        => handoffs[member.pull] # member.evidence

(* So a member that both reads found as it is was so in between.           *)
Certain(read) ==
  \A i \in DOMAIN firstRead.members, j \in DOMAIN read.members :
    LET member == firstRead.members[i] IN
    member = read.members[j] /\ member.evidence # NoEvidence
      => between.evidence[member.pull] = member.evidence

BetweenInv ==
  /\ firstRead = Nothing => between = Nothing
  /\ firstRead # Nothing =>
       \A read \in {reading, secondRead} : read # Nothing => between # Nothing /\ Certain(read)

GroupInv == WorldInv /\ ReadInv /\ GoneInv /\ BetweenInv /\ GroupsAreCertified

LEMMA GroupInitEstablishes == GroupInit => GroupInv
<1> SUFFICES ASSUME GroupInit PROVE GroupInv
  OBVIOUS
<1>1. WorldInv
  <2>1. DOMAIN handoffs = Pulls /\ \A p \in Pulls : handoffs[p].run = 0
    BY DEF GroupInit, NoEvidence
  <2>2. queue.members = << >> /\ DOMAIN queue.members = {}
    BY DEF GroupInit
  <2> QED
    BY <2>1, <2>2 DEF GroupInit, WorldInv
<1> QED
  BY <1>1 DEF GroupInit, GroupInv, ReadInv, GoneInv, BetweenInv, GroupsAreCertified

(* New evidence names a run that no read has seen.                         *)
LEMMA WorldKeeps ==
  ASSUME GroupInv, World, WorldInv',
         \A p \in Pulls :
           \/ handoffs'[p] = handoffs[p]
           \/ handoffs'[p] = NoEvidence
           \/ handoffs'[p].run = moves + 1
  PROVE  GroupInv'
<1>1. /\ reading' = reading /\ firstRead' = firstRead /\ secondRead' = secondRead
      /\ between' = between /\ released' = released /\ moves' = moves + 1 /\ moves \in Nat
  BY DEF World, GroupInv, WorldInv
<1>2. ASSUME NEW read, IsRead(read) PROVE IsRead(read)'
  BY <1>1, <1>2 DEF IsRead
<1>3. ReadInv'
  BY <1>1, <1>2 DEF GroupInv, ReadInv
<1>4. GoneInv'
  <2> SUFFICES ASSUME firstRead # Nothing, between # Nothing, NEW i \in DOMAIN firstRead.members,
                      firstRead.members[i].evidence # NoEvidence,
                      between.evidence[firstRead.members[i].pull] # firstRead.members[i].evidence
               PROVE  handoffs'[firstRead.members[i].pull] # firstRead.members[i].evidence
    BY <1>1 DEF GoneInv
  <2>1. firstRead.members[i].pull \in Pulls /\ firstRead.members[i].evidence.run \in 0 .. moves
    BY DEF GroupInv, ReadInv, IsRead
  <2>2. handoffs[firstRead.members[i].pull] # firstRead.members[i].evidence
    BY DEF GroupInv, GoneInv
  <2> QED
    BY <1>1, <2>1, <2>2
<1>5. BetweenInv'
  BY <1>1 DEF GroupInv, BetweenInv, Certain
<1>6. GroupsAreCertified'
  BY <1>1 DEF GroupInv, GroupsAreCertified
<1> QED
  BY <1>3, <1>4, <1>5, <1>6 DEF GroupInv

LEMMA PushOrAdvanceKeeps == GroupInv /\ (PushMember \/ AdvanceBase) => GroupInv'
<1> SUFFICES ASSUME GroupInv, PushMember \/ AdvanceBase PROVE GroupInv'
  OBVIOUS
<1>1. World /\ handoffs' = handoffs /\ queue' = queue /\ moves' = moves + 1
  BY DEF PushMember, AdvanceBase, World
<1>2. WorldInv'
  BY <1>1 DEF GroupInv, WorldInv
<1> QED
  BY <1>1, <1>2, WorldKeeps

LEMMA CertifyKeeps == GroupInv /\ Certify => GroupInv'
<1> SUFFICES ASSUME GroupInv, Certify PROVE GroupInv'
  OBVIOUS
<1>1. PICK p \in Pulls : handoffs' = [handoffs EXCEPT ![p] = [head |-> head[p], run |-> moves + 1]]
  BY DEF Certify
<1>2. World /\ queue' = queue /\ moves' = moves + 1 /\ moves \in Nat
  BY DEF Certify, World, GroupInv, WorldInv
<1>3. /\ DOMAIN handoffs' = Pulls /\ handoffs'[p] = [head |-> head[p], run |-> moves + 1]
      /\ \A q \in Pulls : q # p => handoffs'[q] = handoffs[q]
  BY <1>1 DEF GroupInv, WorldInv
<1>4. handoffs'[p].run = moves + 1
  BY <1>3
<1>5. WorldInv'
  BY <1>2, <1>3, <1>4 DEF GroupInv, WorldInv
<1> QED
  BY <1>2, <1>3, <1>4, <1>5, WorldKeeps

LEMMA WithdrawKeeps == GroupInv /\ Withdraw => GroupInv'
<1> SUFFICES ASSUME GroupInv, Withdraw PROVE GroupInv'
  OBVIOUS
<1>1. PICK p \in Pulls : handoffs' = [handoffs EXCEPT ![p] = NoEvidence]
  BY DEF Withdraw
<1>2. World /\ queue' = queue /\ moves' = moves + 1 /\ moves \in Nat
  BY DEF Withdraw, World, GroupInv, WorldInv
<1>3. /\ DOMAIN handoffs' = Pulls /\ handoffs'[p] = NoEvidence /\ NoEvidence.run = 0
      /\ \A q \in Pulls : q # p => handoffs'[q] = handoffs[q]
  BY <1>1 DEF GroupInv, WorldInv, NoEvidence
<1>4. WorldInv'
  BY <1>2, <1>3 DEF GroupInv, WorldInv
<1> QED
  BY <1>2, <1>3, <1>4, WorldKeeps

LEMMA FormGroupKeeps == GroupInv /\ FormGroup => GroupInv'
<1> SUFFICES ASSUME GroupInv, FormGroup PROVE GroupInv'
  OBVIOUS
<1>1. PICK pulls \in (SUBSET Pulls) \ {{}} : \E order \in SetToSeqs(pulls) :
        queue' = [base |-> tip,
                  members |-> [i \in DOMAIN order |-> [pull |-> order[i], head |-> head[order[i]]]]]
  BY DEF FormGroup
<1>2. PICK order \in SetToSeqs(pulls) :
        queue' = [base |-> tip,
                  members |-> [i \in DOMAIN order |-> [pull |-> order[i], head |-> head[order[i]]]]]
  BY <1>1
<1>3. order \in [1 .. Cardinality(pulls) -> pulls]
  BY DEF SetToSeqs
<1>4. \A i \in DOMAIN order : order[i] \in Pulls
  BY <1>1, <1>3
<1>5. \A i \in DOMAIN queue'.members : queue'.members[i].pull \in Pulls
  BY <1>2, <1>4
<1>6. World /\ handoffs' = handoffs /\ moves' = moves + 1
  BY DEF FormGroup, World
<1>7. WorldInv'
  BY <1>5, <1>6 DEF GroupInv, WorldInv
<1> QED
  BY <1>6, <1>7, WorldKeeps

(* The reader leaves the world alone.                                      *)
LEMMA ReaderFrame ==
  ASSUME GroupInv, Reader, released' = released
  PROVE  WorldInv' /\ GroupsAreCertified' /\ (\A read : IsRead(read) => IsRead(read)')
BY DEF GroupInv, Reader, WorldInv, GroupsAreCertified, IsRead

LEMMA BeginReadKeeps == GroupInv /\ BeginRead => GroupInv'
<1> SUFFICES ASSUME GroupInv, BeginRead PROVE GroupInv'
  OBVIOUS
<1>1. /\ reading = Nothing /\ secondRead = Nothing
      /\ firstRead' = firstRead /\ secondRead' = secondRead
      /\ reading' = [base |-> queue.base, commit |-> Commit(queue.base, queue.members),
                     tree |-> Tree(queue.base, queue.members), members |-> << >>]
      /\ between' = IF firstRead = Nothing THEN Nothing ELSE [tip |-> tip, evidence |-> handoffs]
      /\ handoffs' = handoffs
  BY DEF BeginRead, Reader
<1>2. WorldInv' /\ GroupsAreCertified' /\ (\A read : IsRead(read) => IsRead(read)')
  BY ReaderFrame DEF BeginRead
<1>3. DOMAIN reading'.members = {}
  BY <1>1
<1>4. IsRead(reading)'
  <2>1. reading'.members = << >> /\ reading'.commit = Commit(queue.base, queue.members)
        /\ reading' = [base |-> reading'.base, commit |-> reading'.commit, tree |-> reading'.tree,
                       members |-> reading'.members]
    BY <1>1
  <2>2. IsSequence(reading'.members)
    BY <2>1 DEF IsSequence
  <2>3. reading'.commit = [tree |-> reading'.commit.parents, parents |-> reading'.commit.parents]
    BY <2>1 DEF Commit, Parents
  <2> QED
    BY <1>3, <2>1, <2>2, <2>3 DEF IsRead, IsSequence
<1>5. ReadInv'
  BY <1>1, <1>2, <1>4 DEF GroupInv, ReadInv
<1>6. firstRead # Nothing => between' # Nothing /\ between'.evidence = handoffs
  <2> SUFFICES ASSUME firstRead # Nothing PROVE between' # Nothing /\ between'.evidence = handoffs
    OBVIOUS
  <2>1. between' = [tip |-> tip, evidence |-> handoffs]
    BY <1>1
  <2>2. "tip" \in DOMAIN between' /\ "tip" \notin DOMAIN Nothing
    BY <2>1 DEF Nothing
  <2> QED
    BY <2>1, <2>2
<1>7. GoneInv'
  BY <1>1, <1>6 DEF GoneInv
<1>8. BetweenInv'
  BY <1>1, <1>3, <1>6 DEF BetweenInv, Certain
<1> QED
  BY <1>2, <1>5, <1>7, <1>8 DEF GroupInv

LEMMA SequenceGrows ==
  ASSUME NEW s, IsSequence(s), NEW x
  PROVE  /\ IsSequence(Append(s, x))
         /\ DOMAIN Append(s, x) = DOMAIN s \cup {Len(s) + 1}
         /\ Append(s, x)[Len(s) + 1] = x
         /\ \A i \in DOMAIN s : Append(s, x)[i] = s[i]
<1> DEFINE S == {s[i] : i \in 1 .. Len(s)} \cup {x}
           t == Append(s, x)
<1>1. s \in [1 .. Len(s) -> S] /\ Len(s) \in Nat /\ x \in S
  BY DEF IsSequence
<1> HIDE DEF S
<1>2. s \in Seq(S)
  BY <1>1
<1>3. /\ t \in Seq(S) /\ Len(t) = Len(s) + 1 /\ t[Len(s) + 1] = x
      /\ \A i \in 1 .. Len(s) : t[i] = s[i]
  BY <1>1, <1>2
<1> HIDE DEF t
<1>4. DOMAIN s = 1 .. Len(s) /\ DOMAIN t = 1 .. Len(t) /\ t = [i \in 1 .. Len(t) |-> t[i]]
  BY <1>1, <1>2, <1>3
<1> QED
  BY <1>1, <1>3, <1>4 DEF IsSequence, t

LEMMA ReadMemberKeeps == GroupInv /\ ReadMember => GroupInv'
<1> SUFFICES ASSUME GroupInv, ReadMember PROVE GroupInv'
  OBVIOUS
<1> DEFINE n == Len(reading.members) + 1
<1>1. PICK member :
        /\ member.pull = queue.members[n].pull
        /\ member.evidence = handoffs[queue.members[n].pull]
        /\ reading' = [reading EXCEPT !.members = Append(reading.members, member)]
  <2>1. PICK output, input :
          reading' = [reading EXCEPT !.members =
            Append(@, [pull |-> queue.members[n].pull, head |-> head[queue.members[n].pull],
                       evidence |-> handoffs[queue.members[n].pull],
                       input |-> input, output |-> output])]
    BY DEF ReadMember
  <2> QED
    BY <2>1
<1>2. /\ reading # Nothing /\ n \in DOMAIN queue.members
      /\ firstRead' = firstRead /\ secondRead' = secondRead /\ between' = between /\ handoffs' = handoffs
      /\ moves' = moves
  BY DEF ReadMember, Reader
<1>3. WorldInv' /\ GroupsAreCertified' /\ (\A read : IsRead(read) => IsRead(read)')
  BY ReaderFrame DEF ReadMember
<1>4. IsRead(reading) /\ secondRead = Nothing
  BY <1>2 DEF GroupInv, ReadInv
<1>5. /\ reading' = [base |-> reading'.base, commit |-> reading'.commit, tree |-> reading'.tree,
                     members |-> reading'.members]
      /\ reading'.commit = reading.commit /\ reading'.members = Append(reading.members, member)
  BY <1>1, <1>4 DEF IsRead
<1>6. /\ IsSequence(reading'.members)
      /\ DOMAIN reading'.members = DOMAIN reading.members \cup {n}
      /\ reading'.members[n] = member
      /\ \A i \in DOMAIN reading.members : reading'.members[i] = reading.members[i]
  BY <1>4, <1>5, SequenceGrows DEF IsRead
<1>7. member.pull \in Pulls /\ member.evidence.run \in 0 .. moves
  BY <1>1, <1>2 DEF GroupInv, WorldInv
<1>8. IsRead(reading)'
  BY <1>2, <1>4, <1>5, <1>6, <1>7 DEF IsRead
<1>9. ReadInv'
  BY <1>2, <1>3, <1>4, <1>8 DEF GroupInv, ReadInv
<1>10. GoneInv'
  BY <1>2 DEF GroupInv, GoneInv
<1>11. BetweenInv'
  <2>1. firstRead # Nothing => between # Nothing /\ Certain(reading)
    BY <1>2 DEF GroupInv, BetweenInv
  <2>2. ASSUME firstRead # Nothing, NEW i \in DOMAIN firstRead.members, firstRead.members[i] = member,
               member.evidence # NoEvidence
        PROVE  between.evidence[member.pull] = member.evidence
    BY <1>1, <2>1, <2>2 DEF GroupInv, GoneInv
  <2>3. firstRead # Nothing => Certain(reading')
    BY <1>6, <2>1, <2>2 DEF Certain
  <2> QED
    BY <1>2, <1>4, <2>1, <2>3 DEF GroupInv, BetweenInv, Certain
<1> QED
  BY <1>3, <1>9, <1>10, <1>11 DEF GroupInv

LEMMA EndReadKeeps == GroupInv /\ EndRead => GroupInv'
<1> SUFFICES ASSUME GroupInv, EndRead PROVE GroupInv'
  OBVIOUS
<1>1. /\ reading # Nothing /\ reading' = Nothing /\ between' = between /\ handoffs' = handoffs
      /\ IF firstRead = Nothing THEN firstRead' = reading /\ secondRead' = secondRead
         ELSE secondRead' = reading /\ firstRead' = firstRead
  BY DEF EndRead, Reader
<1>2. WorldInv' /\ GroupsAreCertified' /\ (\A read : IsRead(read) => IsRead(read)')
  BY ReaderFrame DEF EndRead
<1>3. ReadInv'
  BY <1>1, <1>2 DEF GroupInv, ReadInv
<1>4. GoneInv'
  BY <1>1 DEF GroupInv, GoneInv, BetweenInv
<1>5. BetweenInv'
  BY <1>1 DEF GroupInv, ReadInv, BetweenInv, Certain
<1> QED
  BY <1>2, <1>3, <1>4, <1>5 DEF GroupInv

LEMMA AfterFirst ==
  ASSUME NEW S, NEW x \in S, NEW s \in Seq(S), NEW i \in 1 .. Len(s)
  PROVE  (<<x>> \o s)[i + 1] = s[i]
<1>1. <<x>> \in Seq(S) /\ Len(<<x>>) = 1
  OBVIOUS
<1> QED
  BY <1>1

(* Two equal complete reads whose members classify are of one instant.     *)
LEMMA BoundIsCertified ==
  ASSUME GroupInv, BindMergeGroupSnapshot
  PROVE  /\ secondRead.members # << >>
         /\ \A i \in DOMAIN secondRead.members :
              /\ between.evidence[secondRead.members[i].pull] = secondRead.members[i].evidence
              /\ secondRead.members[i].evidence.head = secondRead.commit.parents[i + 1]
         /\ secondRead.commit = Commit(secondRead.base, secondRead.members)
         /\ \A i, j \in DOMAIN secondRead.members :
              secondRead.members[i].pull = secondRead.members[j].pull => i = j
<1> DEFINE merged == secondRead.members
<1>1. firstRead # Nothing /\ firstRead = secondRead
  BY DEF BindMergeGroupSnapshot, StableRead
<1>2. IsRead(secondRead) /\ Certain(secondRead)
  BY <1>1 DEF GroupInv, ReadInv, BetweenInv
<1>3. /\ merged # << >> /\ MemberSetCurrent(secondRead)
      /\ \A i \in DOMAIN merged : merged[i].evidence # NoEvidence /\ merged[i].evidence.head = merged[i].head
  BY DEF BindMergeGroupSnapshot, ClassifiedMembers, ClassifyMergeGroupConstituent
<1>4. secondRead.commit.parents = Tree(secondRead.base, merged)
  BY DEF BindMergeGroupSnapshot, VerifyGroupCommitTree, Parents
<1>5. secondRead.commit = Commit(secondRead.base, merged)
  BY <1>2, <1>4 DEF IsRead, Commit, Parents
<1>6. ASSUME NEW i \in DOMAIN merged PROVE secondRead.commit.parents[i + 1] = merged[i].head
  <2> DEFINE heads == [k \in DOMAIN merged |-> merged[k].head]
             S == {merged[k].head : k \in DOMAIN merged} \cup {secondRead.base}
             first == <<secondRead.base>>
  <2>1. DOMAIN merged = 1 .. Len(merged) /\ Len(merged) \in Nat
    BY <1>2 DEF IsRead, IsSequence
  <2>2. heads \in [1 .. Len(merged) -> S] /\ secondRead.base \in S
    BY <2>1
  <2>3. secondRead.commit.parents = first \o heads
    BY <1>4 DEF Tree
  <2>4. heads[i] = merged[i].head
    OBVIOUS
  <2> HIDE DEF heads, S, first
  <2>5. heads \in Seq(S) /\ Len(heads) = Len(merged)
    BY <2>1, <2>2
  <2>6. (first \o heads)[i + 1] = heads[i]
    BY <2>1, <2>2, <2>5, AfterFirst DEF first
  <2> QED
    BY <2>3, <2>4, <2>6
<1>7. \A i, j \in DOMAIN merged : merged[i].pull = merged[j].pull => i = j
  BY <1>3 DEF MemberSetCurrent, IsInjective
<1>8. \A i \in DOMAIN merged : between.evidence[merged[i].pull] = merged[i].evidence
  BY <1>1, <1>2, <1>3 DEF Certain
<1> QED
  BY <1>3, <1>5, <1>6, <1>7, <1>8

LEMMA PublishGroupKeeps == GroupInv /\ PublishGroup => GroupInv'
<1> SUFFICES ASSUME GroupInv, PublishGroup PROVE GroupInv'
  OBVIOUS
<1>1. /\ reading' = reading /\ firstRead' = firstRead /\ secondRead' = secondRead /\ between' = between
      /\ handoffs' = handoffs /\ moves' = moves /\ queue' = queue
      /\ released' = [read |-> secondRead, at |-> between, stale |-> secondRead \in invalidated]
      /\ BindMergeGroupSnapshot /\ secondRead \notin invalidated
  BY DEF PublishGroup, Reader, EvaluateMergeGroup
<1>2. WorldInv' /\ ReadInv' /\ GoneInv' /\ BetweenInv'
  BY <1>1 DEF GroupInv, WorldInv, ReadInv, IsRead, GoneInv, BetweenInv, Certain
<1>3. released'.read = secondRead /\ released'.at = between /\ ~released'.stale
  BY <1>1
<1>4. GroupsAreCertified'
  BY <1>1, <1>3, BoundIsCertified DEF GroupsAreCertified
<1> QED
  BY <1>2, <1>4 DEF GroupInv

LEMMA GroupNextKeeps == GroupInv /\ [GroupNext]_groupVars => GroupInv'
<1>1. ASSUME GroupInv, UNCHANGED groupVars \/ StoreSnapshot \/ Invalidate PROVE GroupInv'
  <2>1. /\ reading' = reading /\ firstRead' = firstRead /\ secondRead' = secondRead /\ between' = between
        /\ handoffs' = handoffs /\ moves' = moves /\ queue' = queue /\ released' = released
    BY <1>1 DEF groupVars, StoreSnapshot, Invalidate, Reader
  <2> QED
    BY <1>1, <2>1
    DEF GroupInv, WorldInv, ReadInv, IsRead, GoneInv, BetweenInv, Certain, GroupsAreCertified
<1> QED
  BY <1>1, PushOrAdvanceKeeps, CertifyKeeps, WithdrawKeeps, FormGroupKeeps, BeginReadKeeps, ReadMemberKeeps,
     EndReadKeeps, PublishGroupKeeps
  DEF GroupNext

(* A published group was certified as a whole at the instant its second    *)
(* read began, however many pull requests, pushes and handoffs there are   *)
(* (evaluateMergeGroup, bindMergeGroupSnapshot).                           *)
THEOREM GroupsAreAlwaysCertified == GroupSpec => []GroupsAreCertified
<1>1. GroupInv => GroupsAreCertified
  BY DEF GroupInv
<1> QED
  BY <1>1, GroupInitEstablishes, GroupNextKeeps, PTL DEF GroupSpec

-----------------------------------------------------------------------------

(* PackagedInv: what the controller knows at each of its places.           *)
PackagedTypeOK ==
  /\ leader \in {"none", "running", "zombie", "gone"}
  /\ exit \in {"none", "normal", "abnormal"}
  /\ members \in Nat
  /\ printed \in BOOLEAN
  /\ at \in {"acknowledgement", "quit", "quitting", "exit", "count", "cleanup", "remaining", "ended"}
  /\ failed \in BOOLEAN
  /\ kills \in Nat
  /\ outcome \in [failed : BOOLEAN, cleanup : {"none", "control-failed", "non-convergent"}]

(* Once the group was killed nobody is left to start another member.       *)
KilledInv ==
  /\ at \in {"acknowledgement", "quit", "quitting", "exit", "count"} => kills = 0
  /\ at = "remaining" => kills > 0
  /\ kills > 0 => leader # "running" /\ members = 0

(* A controller that did not throw has seen all that it waited for.        *)
UnfailedInv ==
  ~failed =>
    /\ at # "acknowledgement" => printed
    /\ at \in {"count", "cleanup", "remaining", "ended"} => leader = "gone" /\ exit = "normal"
    /\ at = "cleanup" => kills = 0
    /\ at = "remaining" => kills = 1

EndedInv ==
  at = "ended" =>
    /\ outcome.failed = failed
    /\ outcome.cleanup = "none" => kills > 0 /\ (~failed => kills = 1)

PackagedInv == PackagedTypeOK /\ KilledInv /\ UnfailedInv /\ EndedInv

LEMMA PackagedInitEstablishes == PackagedInit => PackagedInv
<1> SUFFICES ASSUME PackagedInit PROVE PackagedInv
  OBVIOUS
<1> USE DEF PackagedInit
<1>1. outcome \in [failed : BOOLEAN, cleanup : {"none", "control-failed", "non-convergent"}]
  OBVIOUS
<1>2. PackagedTypeOK
  BY <1>1 DEF PackagedTypeOK
<1> QED
  BY <1>2 DEF PackagedInv, KilledInv, UnfailedInv, EndedInv

LEMMA PackagedNextKeeps == PackagedInv /\ [PackagedNext]_packagedVars => PackagedInv'
<1> SUFFICES ASSUME PackagedInv, [PackagedNext]_packagedVars PROVE PackagedInv'
  OBVIOUS
<1> USE DEF PackagedInv, PackagedTypeOK, KilledInv, UnfailedInv, EndedInv
<1>1. CASE UNCHANGED packagedVars
  BY <1>1 DEF packagedVars
<1>2. CASE Prints
  BY <1>2 DEF Prints, Controller
<1>3. CASE LeaderEnds
  BY <1>3 DEF LeaderEnds, Controller
<1>4. CASE MemberStarts
  BY <1>4 DEF MemberStarts, Controller
<1>5. CASE MemberEnds
  BY <1>5 DEF MemberEnds, Controller
<1>6. CASE BudgetPasses
  BY <1>6 DEF BudgetPasses, Controller
<1>7. CASE AwaitAcknowledgement
  BY <1>7 DEF AwaitAcknowledgement, Outside, Throw
<1>8. CASE AskToQuit
  BY <1>8 DEF AskToQuit, Outside
<1>9. CASE QuitReturns
  BY <1>9 DEF QuitReturns, Outside, Throw
<1>10. CASE AwaitExit
  BY <1>10 DEF AwaitExit, Outside, Throw, NormalExit
<1>11. CASE CountDescendants
  BY <1>11 DEF CountDescendants, Outside, Throw
<1>12. CASE KillGroup
  BY <1>12 DEF KillGroup
<1>13. CASE ForceCleanup
  BY <1>13 DEF ForceCleanup, RemainingCounts, End, Outside
<1>14. CASE CleanupFails
  BY <1>14 DEF CleanupFails, End, Outside
<1> QED
  BY <1>1, <1>2, <1>3, <1>4, <1>5, <1>6, <1>7, <1>8, <1>9, <1>10, <1>11, <1>12, <1>13, <1>14
  DEF PackagedNext

(* A run that ends without naming a cleanup failure leaves nothing of its  *)
(* group running, and one that ends as a success was of a shell that       *)
(* acknowledged and ended by itself, for any number of processes and       *)
(* attempts (runPackagedLifecycle, forceCleanup).                          *)
THEOREM NothingIsEverLeftRunning == PackagedSpec => []NothingIsLeftRunning
<1>1. PackagedInv => NothingIsLeftRunning
  BY DEF PackagedInv, PackagedTypeOK, KilledInv, UnfailedInv, EndedInv, NothingIsLeftRunning
<1> QED
  BY <1>1, PackagedInitEstablishes, PackagedNextKeeps, PTL DEF PackagedSpec

-----------------------------------------------------------------------------
(* A pass over the entries visits the root first and then every file.      *)

LEMMA SetToSeqIsOnto ==
  ASSUME NEW S, IsFiniteSet(S)
  PROVE  /\ Cardinality(S) \in Nat
         /\ SetToSeq(S) \in [1 .. Cardinality(S) -> S]
         /\ \A x \in S : \E i \in 1 .. Cardinality(S) : SetToSeq(S)[i] = x
<1> DEFINE n == Cardinality(S)
<1>1. n \in Nat /\ ExistsBijection(1 .. n, S)
  BY FS_CardinalityType
<1>2. PICK g \in [1 .. n -> S] : IsInjective(g)
  BY <1>1 DEF ExistsBijection, Bijection, Injection, IsInjective
<1>3. SetToSeq(S) \in [1 .. n -> S] /\ IsInjective(SetToSeq(S))
  BY <1>2 DEF SetToSeq
<1>4. SetToSeq(S) \in Injection(1 .. n, S)
  BY <1>3 DEF Injection, IsInjective
<1>5. IsFiniteSet(1 .. n) /\ Cardinality(1 .. n) = n
  BY <1>1, FS_Interval
<1>6. SetToSeq(S) \in Surjection(1 .. n, S)
  BY <1>4, <1>5, FS_Injection
<1> QED
  BY <1>1, <1>3, <1>6 DEF Surjection

LEMMA EntriesFacts ==
  /\ Len(Entries) \in Nat \ {0}
  /\ Entries[1] = "."
  /\ \A i \in 2 .. Len(Entries) : Entries[i] \in Files
  /\ \A f \in Files : \E i \in 2 .. Len(Entries) : Entries[i] = f
  /\ "." \notin Files
<1> DEFINE order == SetToSeq(Files)
           n == Cardinality(Files)
<1>1. IsFiniteSet(Files)
  BY PublicationAssumption, FS_AddElement DEF Files
<1>2. n \in Nat /\ order \in [1 .. n -> Files] /\ \A f \in Files : \E i \in 1 .. n : order[i] = f
  BY <1>1, SetToSeqIsOnto
<1>3. order \in Seq(Files) /\ Len(order) = n
  BY <1>2
<1>4. Len(Entries) = n + 1 /\ Entries[1] = "." /\ \A i \in 1 .. n : Entries[i + 1] = order[i]
  <2> HIDE DEF order
  <2>1. <<".">> \in Seq({"."} \cup Files) /\ order \in Seq({"."} \cup Files) /\ Len(<<".">>) = 1
    BY <1>3
  <2> QED
    BY <2>1, <1>2, <1>3 DEF Entries, order
<1>5. \A i \in 2 .. Len(Entries) : i - 1 \in 1 .. n /\ (i - 1) + 1 = i
  BY <1>2, <1>4
<1>6. "." \notin Files
  BY PublicationAssumption DEF Files, Manifest
<1> HIDE DEF n, order
<1>7. ASSUME NEW i \in 2 .. Len(Entries) PROVE Entries[i] \in Files
  <2>1. PICK j \in 1 .. n : j + 1 = i
    BY <1>5
  <2> QED
    BY <2>1, <1>2, <1>4
<1>8. \A f \in Files : \E i \in 2 .. Len(Entries) : Entries[i] = f
  BY <1>2, <1>4
<1> QED
  BY <1>2, <1>4, <1>6, <1>7, <1>8

(* DeliveryInv: what is bound, read and copied stays what it was as long   *)
(* as the metadata of its inode does.                                      *)

BeforeSwap ==
  {"capture", "build", "assert", "list", "bind", "read", "validate", "inventory", "copy", "recheck", "swap"}
Swapped == {"retain", "confirm", "clean", "verify", "stranded", "done"}

Record(r) == r = [bytes |-> r.bytes, stamp |-> r.stamp, closed |-> r.closed] /\ r.stamp \in Nat

IsTable(files) ==
  /\ Len(files) \in Nat
  /\ files = [i \in 1 .. Len(files) |-> files[i]]
  /\ \A i \in 1 .. Len(files) : Record(files[i])

PublicationTypeOK ==
  /\ IsTable(inodes)
  /\ \A e \in DOMAIN names.entry : names.entry[e] \in DOMAIN inodes
  /\ dest = [leaf |-> dest.leaf, stage |-> dest.stage, kept |-> dest.kept]
  /\ phase \in BeforeSwap \cup Swapped \cup {"failed", "dead", "rollback", "halfway"}
  /\ place \in 1 .. Len(Entries)

BoundInv ==
  \A e \in DOMAIN bound \ {"."} :
    /\ bound[e].ino \in DOMAIN inodes
    /\ bound[e].stamp \in Nat
    /\ bound[e].stamp <= inodes[bound[e].ino].stamp

(* An inode that still has the stamp it was bound with has the bytes that  *)
(* were taken from it.                                                     *)
Taken(bytes) ==
  \A f \in DOMAIN bytes :
    inodes[bound[f].ino].stamp = bound[f].stamp => bytes[f] = inodes[bound[f].ino].bytes

ContentInv ==
  /\ content = [f \in DOMAIN content |-> content[f]]
  /\ DOMAIN content \subseteq Files \cap DOMAIN bound
  /\ Taken(content)

StageInv ==
  phase \in {"copy", "recheck", "swap"} =>
    /\ dest.stage = [f \in DOMAIN dest.stage |-> dest.stage[f]]
    /\ Taken(dest.stage)

(* How far the passes are.                                                 *)
PassInv ==
  /\ phase \in {"capture", "build", "assert", "list"} => bound = << >>
  /\ phase \in {"capture", "build", "assert", "list", "bind"} => content = << >>
  /\ phase = "bind" => \A i \in 2 .. place - 1 : Entries[i] \in DOMAIN bound
  /\ phase \in {"read", "validate", "inventory", "copy", "recheck", "swap"} => Files \subseteq DOMAIN bound
  /\ phase = "read" => \A i \in 2 .. place - 1 : Entries[i] \in DOMAIN content
  /\ phase \in {"validate", "inventory", "copy", "recheck", "swap"} => DOMAIN content = Files
  /\ phase \in BeforeSwap \ {"copy", "recheck", "swap"} => dest.stage = Absent
  /\ phase = "copy" =>
       /\ DOMAIN dest.stage \subseteq Files
       /\ \A i \in 2 .. place - 1 : Entries[i] \in DOMAIN dest.stage
  /\ phase \in {"recheck", "swap"} => DOMAIN dest.stage = Files
  /\ (phase = "recheck" /\ place > 1) \/ phase = "swap" => dest.stage = content

WholeInv ==
  /\ phase \in {"inventory", "copy", "recheck", "swap"} \cup Swapped =>
       content[Manifest] = ManifestOf(captured, content)
  /\ phase \in BeforeSwap \cup {"failed"} => dest.leaf = original
  /\ phase \in BeforeSwap \cup {"retain"} => dest.kept = Absent
  /\ phase \in Swapped => dest.leaf = content
  /\ phase = "dead" =>
       \/ dest.leaf = original
       \/ dest.leaf = content /\ content[Manifest] = ManifestOf(captured, content)
  /\ phase \in {"retain", "confirm", "rollback", "halfway"} =>
       original = IF dest.kept # Absent THEN dest.kept ELSE dest.stage

DeliveryInv ==
  PublicationTypeOK /\ BoundInv /\ ContentInv /\ StageInv /\ PassInv /\ WholeInv

LEMMA PublicationInitEstablishes == PublicationInit => DeliveryInv
<1> SUFFICES ASSUME PublicationInit PROVE DeliveryInv
  OBVIOUS
<1> USE DEF PublicationInit
<1>1. PublicationTypeOK
  BY EntriesFacts DEF PublicationTypeOK, IsTable, BeforeSwap
<1>2. ContentInv
  BY DEF ContentInv, Taken
<1> QED
  BY <1>1, <1>2 DEF DeliveryInv, BoundInv, StageInv, PassInv, WholeInv, BeforeSwap, Swapped

(* What a touched and an appended table hold.                              *)
LEMMA TouchedTable ==
  ASSUME IsTable(inodes), NEW ino \in DOMAIN inodes
  PROVE  /\ IsTable(Touched(ino))
         /\ Len(Touched(ino)) = Len(inodes)
         /\ \A i \in DOMAIN inodes : i # ino => Touched(ino)[i] = inodes[i]
         /\ Touched(ino)[ino].stamp = inodes[ino].stamp + 1
<1> DEFINE t == Touched(ino)
           S == {t[i] : i \in 1 .. Len(inodes)}
<1>1. t = [i \in 1 .. Len(inodes) |-> IF i = ino THEN [inodes[i] EXCEPT !.stamp = @ + 1] ELSE inodes[i]]
  BY DEF IsTable, Touched
<1>2. t \in [1 .. Len(inodes) -> S]
  BY <1>1
<1>3. Len(t) = Len(inodes) /\ t = [i \in 1 .. Len(t) |-> t[i]]
  BY <1>2 DEF IsTable
<1>4. ino \in 1 .. Len(inodes) /\ DOMAIN inodes = 1 .. Len(inodes) /\ Record(inodes[ino])
  BY DEF IsTable
<1>5. t[ino] = [bytes |-> inodes[ino].bytes, stamp |-> inodes[ino].stamp + 1, closed |-> inodes[ino].closed]
  BY <1>1, <1>4 DEF Record
<1>6. \A i \in DOMAIN inodes : i # ino => t[i] = inodes[i]
  BY <1>1, <1>4
<1> HIDE DEF t
<1>7. \A i \in 1 .. Len(t) : Record(t[i])
  BY <1>3, <1>4, <1>5, <1>6 DEF IsTable, Record
<1> QED
  BY <1>3, <1>5, <1>6, <1>7 DEF IsTable, t

LEMMA AppendedTable ==
  ASSUME NEW files, IsTable(files), NEW r, Record(r)
  PROVE  /\ IsTable(Append(files, r))
         /\ Len(Append(files, r)) = Len(files) + 1
         /\ \A i \in DOMAIN files : i \in DOMAIN Append(files, r) /\ Append(files, r)[i] = files[i]
<1> DEFINE S == {files[i] : i \in 1 .. Len(files)} \cup {r}
           t == Append(files, r)
<1>1. files \in [1 .. Len(files) -> S] /\ Len(files) \in Nat
  BY DEF IsTable
<1>2. files \in Seq(S)
  BY <1>1
<1>3. /\ t \in Seq(S) /\ Len(t) = Len(files) + 1 /\ t[Len(files) + 1] = r
      /\ \A i \in 1 .. Len(files) : t[i] = files[i]
  <2>1. r \in S
    OBVIOUS
  <2> HIDE DEF S
  <2> QED
    BY <1>1, <1>2, <2>1
<1> HIDE DEF t, S
<1>4. DOMAIN files = 1 .. Len(files) /\ DOMAIN t = 1 .. Len(t) /\ t = [i \in 1 .. Len(t) |-> t[i]]
  BY <1>1, <1>3
<1>5. \A i \in 1 .. Len(t) : Record(t[i])
  BY <1>1, <1>3 DEF IsTable
<1> QED
  BY <1>1, <1>3, <1>4, <1>5 DEF IsTable, t

(* Whatever is done to the package, an inode whose bytes changed has       *)
(* another stamp than before.                                              *)
LEMMA MeddlingKeeps ==
  ASSUME DeliveryInv, Meddle,
         IsTable(inodes'),
         \A i \in DOMAIN inodes :
           /\ i \in DOMAIN inodes'
           /\ inodes'[i] = inodes[i] \/ inodes'[i].stamp > inodes[i].stamp,
         \A e \in DOMAIN names.entry' : names.entry'[e] \in DOMAIN inodes'
  PROVE  DeliveryInv'
<1> USE DEF DeliveryInv
<1>1. PublicationTypeOK'
  BY DEF PublicationTypeOK, Meddle
<1>2. \A i \in DOMAIN inodes : i \in 1 .. Len(inodes) /\ inodes[i].stamp \in Nat
  BY DEF PublicationTypeOK, IsTable, Record
<1>3. \A i \in DOMAIN inodes' : i \in 1 .. Len(inodes') /\ inodes'[i].stamp \in Nat
  BY DEF IsTable, Record
<1>4. BoundInv'
  BY <1>2, <1>3 DEF BoundInv, Meddle
<1>5. ASSUME NEW bytes, Taken(bytes), DOMAIN bytes \subseteq DOMAIN bound \ {"."}
      PROVE  \A f \in DOMAIN bytes :
               inodes'[bound[f].ino].stamp = bound[f].stamp => bytes[f] = inodes'[bound[f].ino].bytes
  BY <1>2, <1>3, <1>5 DEF Taken, BoundInv
<1>6. ContentInv'
  <2>1. DOMAIN content \subseteq DOMAIN bound \ {"."} /\ Taken(content)
    BY EntriesFacts DEF ContentInv
  <2> QED
    BY <1>5, <2>1 DEF ContentInv, Meddle, Taken
<1>7. StageInv'
  <2> SUFFICES ASSUME phase \in {"copy", "recheck", "swap"} PROVE StageInv'
    BY DEF StageInv, Meddle
  <2>1. DOMAIN dest.stage \subseteq DOMAIN bound \ {"."} /\ Taken(dest.stage)
    BY EntriesFacts DEF StageInv, PassInv
  <2> QED
    BY <1>5, <2>1 DEF StageInv, Meddle, Taken
<1>8. PassInv' /\ WholeInv'
  BY DEF PassInv, WholeInv, Meddle
<1> QED
  BY <1>1, <1>4, <1>6, <1>7, <1>8

LEMMA WriteFileKeeps == DeliveryInv /\ WriteFile => DeliveryInv'
<1> SUFFICES ASSUME DeliveryInv, WriteFile PROVE DeliveryInv'
  OBVIOUS
<1>1. PICK f \in DOMAIN names.entry \cap Files :
        inodes' = [Touched(names.entry[f]) EXCEPT ![names.entry[f]].bytes = Written(f)]
  BY DEF WriteFile
<1> DEFINE ino == names.entry[f]
           n == Len(inodes)
<1>2. PICK t : t = Touched(ino)
  OBVIOUS
<1>3. ino \in DOMAIN inodes /\ IsTable(inodes) /\ names' = names /\ Meddle
  BY DEF DeliveryInv, PublicationTypeOK, WriteFile
<1>4. /\ IsTable(t) /\ Len(t) = n
      /\ \A i \in DOMAIN inodes : i # ino => t[i] = inodes[i]
      /\ t[ino].stamp = inodes[ino].stamp + 1
  BY <1>2, <1>3, TouchedTable
<1>5. ino \in 1 .. n /\ DOMAIN inodes = 1 .. n /\ n \in Nat /\ inodes[ino].stamp \in Nat
  BY <1>3 DEF IsTable, Record
<1> DEFINE S == {IF i = ino THEN [t[i] EXCEPT !.bytes = Written(f)] ELSE t[i] : i \in 1 .. n}
<1>6. inodes' = [i \in 1 .. n |-> IF i = ino THEN [t[i] EXCEPT !.bytes = Written(f)] ELSE t[i]]
  BY <1>1, <1>2, <1>4 DEF IsTable
<1>7. inodes' \in [1 .. n -> S]
  BY <1>6
<1>8. Len(inodes') = n /\ inodes' = [i \in 1 .. Len(inodes') |-> inodes'[i]] /\ DOMAIN inodes' = 1 .. n
  BY <1>5, <1>7
<1>9. inodes'[ino] = [t[ino] EXCEPT !.bytes = Written(f)] /\ Record(t[ino])
  BY <1>4, <1>5, <1>6 DEF IsTable
<1>10. inodes'[ino] = [bytes |-> Written(f), stamp |-> t[ino].stamp, closed |-> t[ino].closed]
  BY <1>9 DEF Record
<1>11. \A i \in 1 .. n : i # ino => inodes'[i] = t[i]
  BY <1>6
<1>12. IsTable(inodes')
  BY <1>4, <1>5, <1>8, <1>9, <1>10, <1>11 DEF IsTable, Record
<1>13. \A i \in DOMAIN inodes : inodes'[i] = inodes[i] \/ inodes'[i].stamp > inodes[i].stamp
  BY <1>4, <1>5, <1>10, <1>11
<1>14. \A e \in DOMAIN names.entry' : names.entry'[e] \in DOMAIN inodes'
  BY <1>3, <1>5, <1>8 DEF DeliveryInv, PublicationTypeOK
<1> QED
  BY <1>3, <1>5, <1>8, <1>12, <1>13, <1>14, MeddlingKeeps

LEMMA ReplaceFileKeeps == DeliveryInv /\ ReplaceFile => DeliveryInv'
<1> SUFFICES ASSUME DeliveryInv, ReplaceFile PROVE DeliveryInv'
  OBVIOUS
<1>1. PICK f \in DOMAIN names.entry \cap Files, closed \in BOOLEAN :
        /\ inodes' = Append(Touched(names.entry[f]),
                            [bytes |-> Written(f), stamp |-> 0, closed |-> closed])
        /\ names' = [entry |-> [names.entry EXCEPT ![f] = Len(inodes) + 1], stamp |-> names.stamp + 1]
  BY DEF ReplaceFile
<1> DEFINE ino == names.entry[f]
           r == [bytes |-> Written(f), stamp |-> 0, closed |-> closed]
<1>2. PICK t : t = Touched(ino)
  OBVIOUS
<1>3. ino \in DOMAIN inodes /\ IsTable(inodes) /\ Meddle /\ Record(r)
  BY DEF DeliveryInv, PublicationTypeOK, ReplaceFile, Record
<1>4. /\ IsTable(t) /\ Len(t) = Len(inodes)
      /\ \A i \in DOMAIN inodes : i # ino => t[i] = inodes[i]
      /\ t[ino].stamp = inodes[ino].stamp + 1
  BY <1>2, <1>3, TouchedTable
<1>5. /\ inodes' = Append(t, r) /\ IsTable(inodes') /\ Len(inodes') = Len(t) + 1
      /\ \A i \in DOMAIN t : i \in DOMAIN inodes' /\ inodes'[i] = t[i]
  BY <1>1, <1>2, <1>3, <1>4, AppendedTable
<1>6. /\ DOMAIN inodes = 1 .. Len(inodes) /\ DOMAIN t = 1 .. Len(inodes) /\ Len(inodes) \in Nat
      /\ DOMAIN inodes' = 1 .. Len(inodes) + 1
      /\ inodes[ino].stamp \in Nat
  BY <1>3, <1>4, <1>5 DEF IsTable, Record
<1>7. \A i \in DOMAIN inodes :
        i \in DOMAIN inodes' /\ (inodes'[i] = inodes[i] \/ inodes'[i].stamp > inodes[i].stamp)
  BY <1>4, <1>5, <1>6
<1>8. \A e \in DOMAIN names.entry' : names.entry'[e] \in DOMAIN inodes'
  BY <1>1, <1>6 DEF DeliveryInv, PublicationTypeOK
<1> QED
  BY <1>3, <1>5, <1>7, <1>8, MeddlingKeeps

LEMMA AddFileKeeps == DeliveryInv /\ AddFile => DeliveryInv'
<1> SUFFICES ASSUME DeliveryInv, AddFile PROVE DeliveryInv'
  OBVIOUS
<1> DEFINE r == [bytes |-> 1, stamp |-> 0, closed |-> TRUE]
<1>1. /\ Meddle /\ IsTable(inodes) /\ Record(r)
      /\ inodes' = Append(inodes, r)
      /\ names' = [entry |-> Extended(names.entry, "extra", Len(inodes) + 1), stamp |-> names.stamp + 1]
  BY DEF DeliveryInv, PublicationTypeOK, AddFile, Record
<1>2. /\ IsTable(inodes') /\ Len(inodes') = Len(inodes) + 1
      /\ \A i \in DOMAIN inodes : i \in DOMAIN inodes' /\ inodes'[i] = inodes[i]
  BY <1>1, AppendedTable
<1>3. /\ DOMAIN inodes = 1 .. Len(inodes) /\ Len(inodes) \in Nat
      /\ DOMAIN inodes' = 1 .. Len(inodes) + 1
  BY <1>1, <1>2 DEF IsTable
<1>4. \A e \in DOMAIN names.entry' : names.entry'[e] \in DOMAIN inodes'
  <2>1. /\ DOMAIN names.entry' = {"extra"} \cup DOMAIN names.entry
        /\ \A e \in DOMAIN names.entry' :
             names.entry'[e] = IF e = "extra" THEN Len(inodes) + 1 ELSE names.entry[e]
    BY <1>1 DEF Extended
  <2> QED
    BY <2>1, <1>3 DEF DeliveryInv, PublicationTypeOK
<1> QED
  BY <1>1, <1>2, <1>4, MeddlingKeeps

LEMMA RemoveFileKeeps == DeliveryInv /\ RemoveFile => DeliveryInv'
<1> SUFFICES ASSUME DeliveryInv, RemoveFile PROVE DeliveryInv'
  OBVIOUS
<1>1. PICK f \in DOMAIN names.entry :
        /\ inodes' = Touched(names.entry[f])
        /\ names' = [entry |-> Restrict(names.entry, DOMAIN names.entry \ {f}), stamp |-> names.stamp + 1]
  BY DEF RemoveFile
<1> DEFINE ino == names.entry[f]
<1>2. ino \in DOMAIN inodes /\ IsTable(inodes) /\ Meddle
  BY DEF DeliveryInv, PublicationTypeOK, RemoveFile
<1>3. PICK t : t = Touched(ino)
  OBVIOUS
<1>4. /\ IsTable(t) /\ Len(t) = Len(inodes)
      /\ \A i \in DOMAIN inodes : i # ino => t[i] = inodes[i]
      /\ t[ino].stamp = inodes[ino].stamp + 1
  BY <1>2, <1>3, TouchedTable
<1>5. DOMAIN inodes = 1 .. Len(inodes) /\ DOMAIN t = 1 .. Len(inodes) /\ inodes[ino].stamp \in Nat
  BY <1>2, <1>4 DEF IsTable, Record
<1>6. inodes' = t
  BY <1>1, <1>3
<1>7. \A i \in DOMAIN inodes :
        i \in DOMAIN inodes' /\ (inodes'[i] = inodes[i] \/ inodes'[i].stamp > inodes[i].stamp)
  BY <1>4, <1>5, <1>6
<1>8. \A e \in DOMAIN names.entry' : names.entry'[e] \in DOMAIN inodes'
  BY <1>1, <1>5, <1>6 DEF DeliveryInv, PublicationTypeOK, Restrict
<1> QED
  BY <1>2, <1>4, <1>6, <1>7, <1>8, MeddlingKeeps

LEMMA PackageNativeKeeps == DeliveryInv /\ PackageNative => DeliveryInv'
<1> SUFFICES ASSUME DeliveryInv, PackageNative PROVE DeliveryInv'
  OBVIOUS
<1> DEFINE order == SetToSeq(AppFiles)
           n == Cardinality(AppFiles)
           app == [i \in DOMAIN order |-> [bytes |-> 1, stamp |-> 0, closed |-> TRUE]]
           manifest == [bytes |-> ManifestOf(captured, [f \in AppFiles |-> 1]), stamp |-> 0, closed |-> TRUE]
<1>1. n \in Nat /\ order \in [1 .. n -> AppFiles] /\ \A f \in AppFiles : \E i \in 1 .. n : order[i] = f
  BY PublicationAssumption, SetToSeqIsOnto
<1>2. order \in Seq(AppFiles) /\ Len(order) = n /\ DOMAIN order = 1 .. n
  BY <1>1
<1> HIDE DEF order, n
<1>3. /\ inodes' = app \o <<manifest>>
      /\ names'.entry = [f \in Files |-> IF f = Manifest THEN n + 1 ELSE CHOOSE i \in 1 .. n : order[i] = f]
      /\ phase = "build" /\ phase' = "assert" /\ place' = 1
      /\ bound' = bound /\ content' = content /\ dest' = dest /\ captured' = captured /\ original' = original
  BY <1>2 DEF PackageNative, Go, order
<1>4. Record(manifest) /\ Record([bytes |-> 1, stamp |-> 0, closed |-> TRUE])
  BY DEF Record
<1>5. /\ IsTable(inodes') /\ Len(inodes') = n + 1
  <2> DEFINE S == {[bytes |-> 1, stamp |-> 0, closed |-> TRUE], manifest}
  <2>1. app \in [1 .. n -> S] /\ n \in Nat /\ <<manifest>> \in Seq(S) /\ Len(<<manifest>>) = 1
    BY <1>1, <1>2
  <2>2. \A s \in S : Record(s)
    BY <1>4
  <2> HIDE DEF S, manifest, app
  <2>3. app \in Seq(S) /\ Len(app) = n
    BY <2>1
  <2>4. inodes' \in Seq(S) /\ Len(inodes') = n + 1
    BY <1>3, <2>1, <2>3
  <2> QED
    BY <2>1, <2>2, <2>4 DEF IsTable
<1>6. \A e \in DOMAIN names'.entry : names'.entry[e] \in DOMAIN inodes'
  <2>1. \A f \in AppFiles : (CHOOSE i \in 1 .. n : order[i] = f) \in 1 .. n
    BY <1>1
  <2>2. DOMAIN inodes' = 1 .. n + 1 /\ n \in Nat
    BY <1>1, <1>5 DEF IsTable
  <2>3. DOMAIN names'.entry = Files /\ names'.entry[Manifest] = n + 1
    BY <1>3 DEF Files
  <2>4. ASSUME NEW f \in AppFiles PROVE names'.entry[f] \in 1 .. n
    <3>1. f # Manifest /\ f \in Files
      BY PublicationAssumption DEF Files, Manifest
    <3>2. names'.entry[f] = CHOOSE i \in 1 .. n : order[i] = f
      BY <1>3, <3>1
    <3> QED
      BY <2>1, <3>2
  <2> QED
    BY <2>2, <2>3, <2>4 DEF Files
<1>7. PublicationTypeOK'
  <2>1. \A e \in DOMAIN (names.entry)' : (names.entry)'[e] \in DOMAIN inodes'
    BY <1>6
  <2>2. dest' = [leaf |-> dest'.leaf, stage |-> dest'.stage, kept |-> dest'.kept]
    BY <1>3 DEF DeliveryInv, PublicationTypeOK
  <2>3. place' \in 1 .. Len(Entries)
    BY <1>3, EntriesFacts
  <2> QED
    BY <1>3, <1>5, <2>1, <2>2, <2>3 DEF PublicationTypeOK, BeforeSwap
<1>8. content = << >> /\ bound = << >>
  BY <1>3 DEF DeliveryInv, PassInv
<1>9. DOMAIN content' = {} /\ DOMAIN bound' = {}
  BY <1>3, <1>8
<1>10. ContentInv' /\ BoundInv'
  BY <1>3, <1>9 DEF DeliveryInv, ContentInv, BoundInv, Taken
<1> QED
  BY <1>3, <1>7, <1>10 DEF DeliveryInv, StageInv, PassInv, WholeInv, BeforeSwap, Swapped

(* The publisher's own steps leave the package alone.                      *)
LEMMA CaptureKeeps == DeliveryInv /\ (CaptureRepository \/ AssertRepository \/ AssertInventory) => DeliveryInv'
<1> SUFFICES ASSUME DeliveryInv, CaptureRepository \/ AssertRepository \/ AssertInventory
             PROVE  DeliveryInv'
  OBVIOUS
<1>1. /\ bound' = bound /\ content' = content /\ dest' = dest /\ inodes' = inodes /\ names' = names
      /\ original' = original /\ place' = 1
      /\ <<phase, phase'>> \in {<<"capture", "build">>, <<"assert", "list">>, <<"list", "bind">>}
  BY DEF CaptureRepository, AssertRepository, AssertInventory, Quiet, Go
<1>2. PublicationTypeOK'
  BY <1>1, EntriesFacts DEF DeliveryInv, PublicationTypeOK, BeforeSwap
<1>3. ContentInv' /\ BoundInv' /\ StageInv'
  BY <1>1 DEF DeliveryInv, ContentInv, BoundInv, StageInv, Taken
<1>4. PassInv' /\ WholeInv'
  BY <1>1 DEF DeliveryInv, PassInv, WholeInv, BeforeSwap, Swapped
<1> QED
  BY <1>2, <1>3, <1>4 DEF DeliveryInv

LEMMA BindEntryKeeps == DeliveryInv /\ BindEntry => DeliveryInv'
<1> SUFFICES ASSUME DeliveryInv, BindEntry PROVE DeliveryInv'
  OBVIOUS
<1>1. /\ phase = "bind"
      /\ Entry # "." => Entry \in DOMAIN names.entry
      /\ bound' = Extended(bound, Entry, Metadata(Entry))
      /\ content' = content /\ dest' = dest /\ inodes' = inodes /\ names' = names /\ original' = original
      /\ captured' = captured
  BY DEF BindEntry, Pass, Quiet
<1>2. \/ place < Len(Entries) /\ phase' = "bind" /\ place' = place + 1
      \/ place = Len(Entries) /\ phase' = "read" /\ place' = 1
  BY DEF BindEntry, Pass, Go, DeliveryInv, PublicationTypeOK
<1>3. place \in 1 .. Len(Entries) /\ Len(Entries) \in Nat \ {0}
  BY EntriesFacts DEF DeliveryInv, PublicationTypeOK
<1>4. PublicationTypeOK'
  BY <1>1, <1>2, <1>3 DEF DeliveryInv, PublicationTypeOK, BeforeSwap
<1>5. /\ DOMAIN bound' = {Entry} \cup DOMAIN bound
      /\ bound'[Entry] = Metadata(Entry)
      /\ \A e \in DOMAIN bound : e # Entry => bound'[e] = bound[e]
  BY <1>1 DEF Extended
<1>6. BoundInv'
  <2>1. ASSUME Entry # "."
        PROVE  /\ bound'[Entry].ino \in DOMAIN inodes /\ bound'[Entry].stamp \in Nat
               /\ bound'[Entry].stamp = inodes[bound'[Entry].ino].stamp
    <3>1. Entry \in DOMAIN names.entry /\ bound'[Entry] = Metadata(Entry) /\ inodes' = inodes
      BY <1>1, <1>5, <2>1
    <3>2. names.entry[Entry] \in DOMAIN inodes /\ inodes[names.entry[Entry]].stamp \in Nat
      BY <3>1 DEF DeliveryInv, PublicationTypeOK, IsTable, Record
    <3> QED
      BY <2>1, <3>1, <3>2 DEF Metadata
  <2> QED
    BY <1>1, <1>5, <2>1 DEF DeliveryInv, BoundInv
<1>7. content = << >> /\ DOMAIN content = {}
  BY <1>1 DEF DeliveryInv, PassInv
<1>8. ContentInv' /\ StageInv'
  BY <1>1, <1>2, <1>7 DEF DeliveryInv, ContentInv, StageInv, Taken
<1>9. PassInv'
  <2>1. ASSUME NEW i \in 2 .. place, i <= Len(Entries) PROVE Entries[i] \in DOMAIN bound'
    BY <1>1, <1>3, <1>5, <2>1 DEF Entry, DeliveryInv, PassInv
  <2>2. phase' = "read" => Files \subseteq DOMAIN bound'
    BY <1>2, <1>3, <2>1, EntriesFacts
  <2> QED
    BY <1>1, <1>2, <1>3, <1>7, <2>1, <2>2 DEF DeliveryInv, PassInv, BeforeSwap
<1>10. WholeInv'
  BY <1>1, <1>2 DEF DeliveryInv, WholeInv, BeforeSwap, Swapped
<1> QED
  BY <1>4, <1>6, <1>8, <1>9, <1>10 DEF DeliveryInv

LEMMA ReadBoundKeeps == DeliveryInv /\ ReadBound => DeliveryInv'
<1> SUFFICES ASSUME DeliveryInv, ReadBound PROVE DeliveryInv'
  OBVIOUS
<1>1. /\ phase = "read" /\ phase' = phase /\ place' = place
      /\ Entry # "." /\ Entry \notin DOMAIN content
      /\ content' = Extended(content, Entry, Bytes(bound[Entry].ino))
      /\ bound' = bound /\ dest' = dest /\ inodes' = inodes /\ names' = names /\ original' = original
      /\ captured' = captured
  BY DEF ReadBound, Quiet
<1>2. PublicationTypeOK' /\ BoundInv' /\ StageInv' /\ WholeInv'
  BY <1>1 DEF DeliveryInv, PublicationTypeOK, BoundInv, StageInv, WholeInv, Swapped
<1>3. Entry \in Files \cap DOMAIN bound
  <2>1. place # 1
    BY <1>1, EntriesFacts DEF Entry
  <2>2. Entry \in Files
    BY <2>1, EntriesFacts DEF Entry, DeliveryInv, PublicationTypeOK
  <2> QED
    BY <1>1, <2>2 DEF DeliveryInv, PassInv
<1>4. /\ content' = [e \in {Entry} \cup DOMAIN content |->
                       IF e = Entry THEN inodes[bound[Entry].ino].bytes ELSE content[e]]
      /\ DOMAIN content' = {Entry} \cup DOMAIN content
  BY <1>1 DEF Extended, Bytes
<1>5. ContentInv'
  <2>1. content' = [f \in DOMAIN content' |-> content'[f]]
    BY <1>4
  <2>2. Taken(content)'
    BY <1>1, <1>4 DEF Taken, DeliveryInv, ContentInv
  <2> QED
    BY <1>1, <1>3, <1>4, <2>1, <2>2 DEF DeliveryInv, ContentInv
<1>6. PassInv'
  BY <1>1, <1>4 DEF DeliveryInv, PassInv
<1> QED
  BY <1>2, <1>5, <1>6 DEF DeliveryInv

(* What the steps below leave alone.                                       *)
Rest ==
  /\ inodes' = inodes /\ names' = names /\ bound' = bound /\ content' = content
  /\ captured' = captured /\ original' = original

LEMMA CheckDriftKeeps == DeliveryInv /\ CheckDrift => DeliveryInv'
<1> SUFFICES ASSUME DeliveryInv, CheckDrift PROVE DeliveryInv'
  OBVIOUS
<1>1. /\ phase = "read" /\ Rest /\ dest' = dest
      /\ Entry # "." => Entry \in DOMAIN content
  BY DEF CheckDrift, Pass, Quiet, Rest
<1>2. \/ place < Len(Entries) /\ phase' = "read" /\ place' = place + 1
      \/ place = Len(Entries) /\ phase' = "validate" /\ place' = 1
  BY DEF CheckDrift, Pass, Go, DeliveryInv, PublicationTypeOK
<1>3. place \in 1 .. Len(Entries) /\ Len(Entries) \in Nat \ {0}
  BY EntriesFacts DEF DeliveryInv, PublicationTypeOK
<1>4. PublicationTypeOK'
  BY <1>1, <1>2, <1>3 DEF DeliveryInv, PublicationTypeOK, BeforeSwap, Rest
<1>5. ContentInv' /\ BoundInv' /\ StageInv' /\ WholeInv'
  BY <1>1, <1>2 DEF DeliveryInv, ContentInv, BoundInv, StageInv, WholeInv, Taken, BeforeSwap, Swapped, Rest
<1>6. PassInv'
  <2>1. ASSUME NEW i \in 2 .. place PROVE Entries[i] \in DOMAIN content
    <3>1. CASE i = place
      BY <1>1, <1>3, <3>1, EntriesFacts DEF Entry
    <3> QED
      BY <1>1, <1>3, <3>1 DEF DeliveryInv, PassInv
  <2>2. phase' = "validate" => DOMAIN content = Files
    BY <1>2, <1>3, <2>1, EntriesFacts DEF DeliveryInv, ContentInv
  <2> QED
    BY <1>1, <1>2, <1>3, <2>1, <2>2 DEF DeliveryInv, PassInv, BeforeSwap, Rest
<1> QED
  BY <1>4, <1>5, <1>6 DEF DeliveryInv

LEMMA ValidatePackageKeeps == DeliveryInv /\ ValidatePackage => DeliveryInv'
<1> SUFFICES ASSUME DeliveryInv, ValidatePackage PROVE DeliveryInv'
  OBVIOUS
<1>1. /\ phase = "validate" /\ phase' = "inventory" /\ place' = 1 /\ Rest /\ dest' = dest
      /\ content[Manifest] = ManifestOf(captured, content)
  BY DEF ValidatePackage, Quiet, Rest, Go
<1>2. PublicationTypeOK'
  BY <1>1, EntriesFacts DEF DeliveryInv, PublicationTypeOK, BeforeSwap, Rest
<1>3. ContentInv' /\ BoundInv' /\ StageInv' /\ PassInv'
  BY <1>1 DEF DeliveryInv, ContentInv, BoundInv, StageInv, PassInv, Taken, BeforeSwap, Rest
<1>4. WholeInv'
  BY <1>1 DEF DeliveryInv, WholeInv, ManifestOf, BeforeSwap, Swapped, Rest
<1> QED
  BY <1>2, <1>3, <1>4 DEF DeliveryInv

LEMMA FirstInventoryKeeps == DeliveryInv /\ ValidateInventory("inventory", "copy") => DeliveryInv'
<1> SUFFICES ASSUME DeliveryInv, ValidateInventory("inventory", "copy") PROVE DeliveryInv'
  OBVIOUS
<1>1. phase = "inventory" /\ Rest /\ dest' = dest
  BY DEF ValidateInventory, Pass, Quiet, Rest
<1>2. \/ place < Len(Entries) /\ phase' = "inventory" /\ place' = place + 1
      \/ place = Len(Entries) /\ phase' = "copy" /\ place' = 1
  BY DEF ValidateInventory, Pass, Go, DeliveryInv, PublicationTypeOK
<1>3. PublicationTypeOK'
  BY <1>1, <1>2, EntriesFacts DEF DeliveryInv, PublicationTypeOK, BeforeSwap, Rest
<1>4. dest.stage = Absent /\ DOMAIN dest.stage = {} /\ dest.stage = [f \in DOMAIN dest.stage |-> dest.stage[f]]
  BY <1>1 DEF DeliveryInv, PassInv, BeforeSwap, Absent
<1>5. ContentInv' /\ BoundInv' /\ StageInv' /\ PassInv'
  BY <1>1, <1>2, <1>4 DEF DeliveryInv, ContentInv, BoundInv, StageInv, PassInv, Taken, BeforeSwap, Rest
<1>6. WholeInv'
  BY <1>1, <1>2 DEF DeliveryInv, WholeInv, ManifestOf, BeforeSwap, Swapped, Rest
<1> QED
  BY <1>3, <1>5, <1>6 DEF DeliveryInv

(* When the root of the package still is what was bound, every file is,    *)
(* and what was copied is what was read.                                   *)
LEMMA SecondInventoryKeeps == DeliveryInv /\ ValidateInventory("recheck", "swap") => DeliveryInv'
<1> SUFFICES ASSUME DeliveryInv, ValidateInventory("recheck", "swap") PROVE DeliveryInv'
  OBVIOUS
<1>1. phase = "recheck" /\ Rest /\ dest' = dest /\ MatchesRecord(Entry)
  BY DEF ValidateInventory, Pass, Quiet, Rest
<1>2. \/ place < Len(Entries) /\ phase' = "recheck" /\ place' = place + 1
      \/ place = Len(Entries) /\ phase' = "swap" /\ place' = 1
  BY DEF ValidateInventory, Pass, Go, DeliveryInv, PublicationTypeOK
<1>3. PublicationTypeOK'
  BY <1>1, <1>2, EntriesFacts DEF DeliveryInv, PublicationTypeOK, BeforeSwap, Rest
<1>4. place \in 1 .. Len(Entries) /\ DOMAIN dest.stage = Files /\ DOMAIN content = Files
  BY <1>1 DEF DeliveryInv, PublicationTypeOK, PassInv
<1>5. dest.stage = content
  <2>1. CASE place > 1
    BY <1>1, <2>1 DEF DeliveryInv, PassInv
  <2>2. CASE place = 1
    <3>1. \A f \in Files : SameMetadata(f)
      BY <1>1, <2>2, EntriesFacts DEF MatchesRecord, Entry
    <3>2. \A f \in Files : dest.stage[f] = content[f]
      BY <1>1, <1>4, <3>1, EntriesFacts DEF SameMetadata, DeliveryInv, ContentInv, StageInv, Taken
    <3> QED
      BY <1>1, <1>4, <3>2 DEF DeliveryInv, ContentInv, StageInv
  <2> QED
    BY <1>4, <2>1, <2>2
<1>6. ContentInv' /\ BoundInv' /\ StageInv' /\ PassInv'
  BY <1>1, <1>2, <1>5 DEF DeliveryInv, ContentInv, BoundInv, StageInv, PassInv, Taken, BeforeSwap, Rest
<1>7. WholeInv'
  BY <1>1, <1>2 DEF DeliveryInv, WholeInv, ManifestOf, BeforeSwap, Swapped, Rest
<1> QED
  BY <1>3, <1>6, <1>7 DEF DeliveryInv

LEMMA CopyFileKeeps == DeliveryInv /\ CopyFile => DeliveryInv'
<1> SUFFICES ASSUME DeliveryInv, CopyFile PROVE DeliveryInv'
  OBVIOUS
<1>1. /\ phase = "copy" /\ Rest
      /\ dest' = IF Entry = "." THEN dest
                 ELSE [dest EXCEPT !.stage = Extended(@, Entry, Bytes(bound[Entry].ino))]
  BY DEF CopyFile, Pass, Quiet, Rest
<1>2. \/ place < Len(Entries) /\ phase' = "copy" /\ place' = place + 1
      \/ place = Len(Entries) /\ phase' = "recheck" /\ place' = 1
  BY DEF CopyFile, Pass, Go, DeliveryInv, PublicationTypeOK
<1>3. place \in 1 .. Len(Entries) /\ Len(Entries) \in Nat \ {0}
  BY EntriesFacts DEF DeliveryInv, PublicationTypeOK
<1>4. dest = [leaf |-> dest.leaf, stage |-> dest.stage, kept |-> dest.kept]
  BY DEF DeliveryInv, PublicationTypeOK
<1>5. /\ dest'.leaf = dest.leaf /\ dest'.kept = dest.kept
      /\ dest' = [leaf |-> dest'.leaf, stage |-> dest'.stage, kept |-> dest'.kept]
      /\ dest'.stage = IF Entry = "." THEN dest.stage
                       ELSE Extended(dest.stage, Entry, Bytes(bound[Entry].ino))
  BY <1>1, <1>4
<1>6. PublicationTypeOK'
  BY <1>1, <1>2, <1>3, <1>5 DEF DeliveryInv, PublicationTypeOK, BeforeSwap, Rest
<1>7. \/ Entry = "." /\ place = 1
      \/ Entry \in Files /\ Entry # "." /\ place > 1
  <2>1. CASE place = 1
    BY <2>1, EntriesFacts DEF Entry
  <2>2. CASE place \in 2 .. Len(Entries)
    <3>1. Entry \in Files
      BY <2>2, EntriesFacts DEF Entry
    <3> QED
      BY <2>2, <3>1, EntriesFacts
  <2> QED
    BY <1>3, <2>1, <2>2
<1>8. /\ dest'.stage = [f \in DOMAIN dest'.stage |-> dest'.stage[f]]
      /\ DOMAIN dest'.stage = IF Entry = "." THEN DOMAIN dest.stage ELSE {Entry} \cup DOMAIN dest.stage
      /\ \A f \in DOMAIN dest'.stage :
           \/ f \in DOMAIN dest.stage /\ dest'.stage[f] = dest.stage[f]
           \/ dest'.stage[f] = inodes[bound[f].ino].bytes
  BY <1>1, <1>5 DEF Extended, Bytes, DeliveryInv, StageInv
<1>9. StageInv'
  <2>1. \A f \in DOMAIN dest'.stage :
          inodes[bound[f].ino].stamp = bound[f].stamp => dest'.stage[f] = inodes[bound[f].ino].bytes
    BY <1>1, <1>8 DEF DeliveryInv, StageInv, Taken
  <2> QED
    BY <1>1, <1>8, <2>1 DEF StageInv, Taken, Rest
<1>10. PassInv'
  <2>1. DOMAIN dest'.stage \subseteq Files
    BY <1>1, <1>7, <1>8 DEF DeliveryInv, PassInv
  <2>2. ASSUME NEW i \in 2 .. place PROVE Entries[i] \in DOMAIN dest'.stage
    <3>1. CASE i = place
      BY <1>7, <1>8, <3>1 DEF Entry
    <3> QED
      BY <1>1, <1>3, <1>8, <3>1 DEF DeliveryInv, PassInv
  <2>3. ASSUME phase' = "recheck" PROVE DOMAIN dest'.stage = Files
    <3>1. place = Len(Entries)
      BY <1>2, <2>3
    <3>2. ASSUME NEW f \in Files PROVE f \in DOMAIN dest'.stage
      <4>1. PICK i \in 2 .. Len(Entries) : Entries[i] = f
        BY EntriesFacts
      <4> QED
        BY <2>2, <3>1, <4>1
    <3> QED
      BY <2>1, <3>2
  <2> QED
    BY <1>1, <1>2, <1>3, <2>1, <2>2, <2>3 DEF DeliveryInv, PassInv, BeforeSwap, Rest
<1>11. ContentInv' /\ BoundInv'
  BY <1>1 DEF DeliveryInv, ContentInv, BoundInv, Taken, Rest
<1>12. WholeInv'
  BY <1>1, <1>2, <1>5 DEF DeliveryInv, WholeInv, ManifestOf, BeforeSwap, Swapped, Rest
<1> QED
  BY <1>6, <1>9, <1>10, <1>11, <1>12 DEF DeliveryInv

(* After the exchange only the three places of the delivery change.        *)
LEMMA SwappedKeeps ==
  ASSUME DeliveryInv, Rest, phase \notin {"read", "copy", "recheck"},
         phase' \in Swapped \cup {"failed", "dead", "rollback", "halfway"},
         place' = 1 \/ place' = place,
         dest' = [leaf |-> dest'.leaf, stage |-> dest'.stage, kept |-> dest'.kept],
         WholeInv'
  PROVE  DeliveryInv'
<1>1. PublicationTypeOK'
  BY EntriesFacts DEF DeliveryInv, PublicationTypeOK, Rest
<1>2. ContentInv' /\ BoundInv' /\ StageInv' /\ PassInv'
  BY DEF DeliveryInv, ContentInv, BoundInv, StageInv, PassInv, Taken, BeforeSwap, Swapped, Rest
<1> QED
  BY <1>1, <1>2 DEF DeliveryInv

LEMMA PublishStagedKeeps == DeliveryInv /\ PublishStaged => DeliveryInv'
<1> SUFFICES ASSUME DeliveryInv, PublishStaged PROVE DeliveryInv'
  OBVIOUS
<1>1. /\ phase = "swap" /\ Rest /\ place' = 1
      /\ dest' = [dest EXCEPT !.leaf = dest.stage, !.stage = dest.leaf]
      /\ phase' = IF dest.leaf = Absent THEN "confirm" ELSE "retain"
  BY DEF PublishStaged, Quiet, Go, Rest
<1>2. dest = [leaf |-> dest.leaf, stage |-> dest.stage, kept |-> dest.kept]
  BY DEF DeliveryInv, PublicationTypeOK
<1>3. dest' = [leaf |-> dest.stage, stage |-> dest.leaf, kept |-> dest.kept]
  BY <1>1, <1>2
<1>4. dest.stage = content /\ dest.leaf = original /\ dest.kept = Absent
      /\ content[Manifest] = ManifestOf(captured, content)
  BY <1>1 DEF DeliveryInv, PassInv, WholeInv, BeforeSwap
<1>5. WholeInv'
  BY <1>1, <1>3, <1>4 DEF WholeInv, ManifestOf, BeforeSwap, Swapped, Rest
<1> QED
  BY <1>1, <1>3, <1>5, SwappedKeeps DEF Swapped

LEMMA RetainKeeps == DeliveryInv /\ Retain => DeliveryInv'
<1> SUFFICES ASSUME DeliveryInv, Retain PROVE DeliveryInv'
  OBVIOUS
<1>1. /\ phase = "retain" /\ Rest /\ place' = 1
      /\ \/ phase' = "confirm" /\ dest' = [dest EXCEPT !.kept = dest.stage, !.stage = Absent]
         \/ phase' = "rollback" /\ dest' = dest
  BY DEF Retain, Quiet, Go, Rest
<1>2. dest = [leaf |-> dest.leaf, stage |-> dest.stage, kept |-> dest.kept]
  BY DEF DeliveryInv, PublicationTypeOK
<1>3. /\ dest' = [leaf |-> dest'.leaf, stage |-> dest'.stage, kept |-> dest'.kept]
      /\ dest'.leaf = dest.leaf
      /\ \/ phase' = "confirm" /\ dest'.kept = dest.stage /\ dest'.stage = Absent
         \/ phase' = "rollback" /\ dest' = dest
  BY <1>1, <1>2
<1>4. WholeInv'
  BY <1>1, <1>3 DEF DeliveryInv, WholeInv, ManifestOf, BeforeSwap, Swapped, Rest
<1> QED
  BY <1>1, <1>3, <1>4, SwappedKeeps DEF Swapped

LEMMA ConfirmKeeps == DeliveryInv /\ Confirm => DeliveryInv'
<1> SUFFICES ASSUME DeliveryInv, Confirm PROVE DeliveryInv'
  OBVIOUS
<1>1. phase = "confirm" /\ Rest /\ place' = 1 /\ dest' = dest /\ phase' \in {"clean", "rollback"}
  BY DEF Confirm, Quiet, Go, Rest
<1>2. dest' = [leaf |-> dest'.leaf, stage |-> dest'.stage, kept |-> dest'.kept]
  BY <1>1 DEF DeliveryInv, PublicationTypeOK
<1>3. WholeInv'
  BY <1>1 DEF DeliveryInv, WholeInv, ManifestOf, BeforeSwap, Swapped, Rest
<1> QED
  BY <1>1, <1>2, <1>3, SwappedKeeps DEF Swapped

LEMMA CleanUpKeeps == DeliveryInv /\ CleanUp => DeliveryInv'
<1> SUFFICES ASSUME DeliveryInv, CleanUp PROVE DeliveryInv'
  OBVIOUS
<1>1. phase = "clean" /\ Rest /\ place' = 1 /\ phase' = "verify"
  BY DEF CleanUp, Quiet, Go, Rest
<1>2. PICK kept : dest' = [dest EXCEPT !.kept = kept]
  BY DEF CleanUp
<1>3. dest' = [leaf |-> dest'.leaf, stage |-> dest'.stage, kept |-> dest'.kept] /\ dest'.leaf = dest.leaf
  BY <1>2 DEF DeliveryInv, PublicationTypeOK
<1>4. WholeInv'
  BY <1>1, <1>3 DEF DeliveryInv, WholeInv, ManifestOf, BeforeSwap, Swapped, Rest
<1> QED
  BY <1>1, <1>3, <1>4, SwappedKeeps DEF Swapped

LEMMA CloseChainKeeps == DeliveryInv /\ (CloseChain \/ RefuseExchanged) => DeliveryInv'
<1> SUFFICES ASSUME DeliveryInv, CloseChain \/ RefuseExchanged PROVE DeliveryInv'
  OBVIOUS
<1>1. /\ phase \in {"confirm", "verify"} /\ Rest /\ place' = 1 /\ dest' = dest
      /\ phase' \in {"done", "stranded"}
  BY DEF CloseChain, RefuseExchanged, Quiet, Go, Rest
<1>2. dest' = [leaf |-> dest'.leaf, stage |-> dest'.stage, kept |-> dest'.kept]
  BY <1>1 DEF DeliveryInv, PublicationTypeOK
<1>3. WholeInv'
  BY <1>1 DEF DeliveryInv, WholeInv, ManifestOf, BeforeSwap, Swapped, Rest
<1> QED
  BY <1>1, <1>2, <1>3, SwappedKeeps DEF Swapped

(* A rollback forgets the new delivery file by file, and then puts back    *)
(* the one there was.                                                      *)
LEMMA RollBackKeeps == DeliveryInv /\ RollBack => DeliveryInv'
<1> SUFFICES ASSUME DeliveryInv, RollBack PROVE DeliveryInv'
  OBVIOUS
<1>1. phase = "rollback" /\ Rest
  BY DEF RollBack, Quiet, Rest
<1>2. dest = [leaf |-> dest.leaf, stage |-> dest.stage, kept |-> dest.kept]
  BY DEF DeliveryInv, PublicationTypeOK
<1>3. CASE dest.leaf # Absent
  <2>1. phase' = "rollback" /\ place' = place
    BY <1>1, <1>3 DEF RollBack
  <2>2. PICK f : dest' = [dest EXCEPT !.leaf = Restrict(@, DOMAIN @ \ {f})]
    BY <1>3 DEF RollBack
  <2>3. /\ dest' = [leaf |-> dest'.leaf, stage |-> dest'.stage, kept |-> dest'.kept]
        /\ dest'.stage = dest.stage /\ dest'.kept = dest.kept
    BY <1>2, <2>2
  <2>4. WholeInv'
    BY <1>1, <2>1, <2>3 DEF DeliveryInv, WholeInv, BeforeSwap, Swapped, Rest
  <2> QED
    BY <1>1, <2>1, <2>3, <2>4, SwappedKeeps
<1>4. CASE dest.leaf = Absent
  <2>1. /\ phase' = "failed" /\ place' = 1
        /\ dest' = [leaf |-> IF dest.kept # Absent THEN dest.kept ELSE dest.stage,
                    stage |-> Absent, kept |-> Absent]
    BY <1>4 DEF RollBack, Go
  <2>2. /\ dest' = [leaf |-> dest'.leaf, stage |-> dest'.stage, kept |-> dest'.kept]
        /\ dest'.leaf = original
    BY <1>1, <2>1 DEF DeliveryInv, WholeInv
  <2>3. WholeInv'
    BY <1>1, <2>1, <2>2 DEF DeliveryInv, WholeInv, BeforeSwap, Swapped, Rest
  <2> QED
    BY <1>1, <2>1, <2>2, <2>3, SwappedKeeps
<1> QED
  BY <1>3, <1>4

LEMMA RefuseKeeps == DeliveryInv /\ Refuse => DeliveryInv'
<1> SUFFICES ASSUME DeliveryInv, Refuse PROVE DeliveryInv'
  OBVIOUS
<1>1. /\ phase \in BeforeSwap /\ Rest /\ place' = 1 /\ phase' = "failed"
      /\ dest' = [dest EXCEPT !.stage = Absent]
  BY DEF Refuse, Quiet, Go, Rest, BeforeSwap
<1>2. /\ dest' = [leaf |-> dest'.leaf, stage |-> dest'.stage, kept |-> dest'.kept]
      /\ dest'.leaf = dest.leaf
  BY <1>1 DEF DeliveryInv, PublicationTypeOK
<1>3. WholeInv'
  BY <1>1, <1>2 DEF DeliveryInv, WholeInv, BeforeSwap, Swapped, Rest
<1>4. PublicationTypeOK'
  BY <1>1, <1>2, EntriesFacts DEF DeliveryInv, PublicationTypeOK, Rest
<1>5. ContentInv' /\ BoundInv' /\ StageInv' /\ PassInv'
  BY <1>1 DEF DeliveryInv, ContentInv, BoundInv, StageInv, PassInv, Taken, BeforeSwap, Rest
<1> QED
  BY <1>3, <1>4, <1>5 DEF DeliveryInv

LEMMA KillKeeps == DeliveryInv /\ Kill => DeliveryInv'
<1> SUFFICES ASSUME DeliveryInv, Kill PROVE DeliveryInv'
  OBVIOUS
<1>1. /\ phase \in {"inventory", "copy", "recheck", "swap", "retain", "confirm", "clean", "verify",
                    "rollback"}
      /\ Rest /\ place' = 1 /\ dest' = dest
      /\ phase' = IF phase = "rollback" THEN "halfway" ELSE "dead"
  BY DEF Kill, Quiet, Go, Rest
<1>2. WholeInv'
  BY <1>1 DEF DeliveryInv, WholeInv, ManifestOf, BeforeSwap, Swapped, Rest
<1>3. PublicationTypeOK'
  BY <1>1, EntriesFacts DEF DeliveryInv, PublicationTypeOK, Rest
<1>4. ContentInv' /\ BoundInv' /\ StageInv' /\ PassInv'
  BY <1>1 DEF DeliveryInv, ContentInv, BoundInv, StageInv, PassInv, Taken, BeforeSwap, Rest
<1> QED
  BY <1>2, <1>3, <1>4 DEF DeliveryInv

LEMMA MoveRepositoryKeeps == DeliveryInv /\ MoveRepository => DeliveryInv'
<1> SUFFICES ASSUME DeliveryInv, MoveRepository PROVE DeliveryInv'
  OBVIOUS
<1>1. Meddle /\ inodes' = inodes /\ names' = names
  BY DEF MoveRepository
<1> QED
  BY <1>1, MeddlingKeeps DEF DeliveryInv, PublicationTypeOK

LEMMA PublicationNextKeeps == DeliveryInv /\ [PublicationNext]_publicationVars => DeliveryInv'
<1>1. DeliveryInv /\ UNCHANGED publicationVars => DeliveryInv'
  <2> SUFFICES ASSUME DeliveryInv, UNCHANGED publicationVars PROVE DeliveryInv'
    OBVIOUS
  <2> USE DEF publicationVars, DeliveryInv
  <2>1. PublicationTypeOK'
    BY DEF PublicationTypeOK
  <2>2. ContentInv' /\ BoundInv' /\ StageInv' /\ PassInv' /\ WholeInv'
    BY DEF ContentInv, BoundInv, StageInv, PassInv, WholeInv, Taken, ManifestOf
  <2> QED
    BY <2>1, <2>2
<1> QED
  BY <1>1, MoveRepositoryKeeps, WriteFileKeeps, ReplaceFileKeeps, AddFileKeeps, RemoveFileKeeps,
     CaptureKeeps, PackageNativeKeeps, BindEntryKeeps, ReadBoundKeeps, CheckDriftKeeps,
     ValidatePackageKeeps, FirstInventoryKeeps, CopyFileKeeps, SecondInventoryKeeps,
     PublishStagedKeeps, RetainKeeps, ConfirmKeeps, CleanUpKeeps, CloseChainKeeps, RollBackKeeps, RefuseKeeps,
     KillKeeps
  DEF PublicationNext

(* Whatever is done to the package while it is published and wherever the  *)
(* helper is killed or fails, after the exchange too, the delivery is the  *)
(* one there was or, file by file, the package that was validated, for any *)
(* set of files and any number of meddlings (publishValidatedPackage,      *)
(* run_publish_bound).                                                     *)
THEOREM DeliveriesAreWhole == PublicationSpec => []DeliveryIsWhole
<1>1. DeliveryInv => DeliveryIsWhole
  BY DEF DeliveryInv, PublicationTypeOK, WholeInv, ManifestOf, DeliveryIsWhole, BeforeSwap, Swapped
<1> QED
  BY <1>1, PublicationInitEstablishes, PublicationNextKeeps, PTL DEF PublicationSpec

-----------------------------------------------------------------------------
(* Wake routing.                                                           *)

(* A list of items: finitely many, each with a number of its own.          *)
Listed(list) ==
  /\ IsFiniteSet(list)
  /\ \A x \in list : x.number \in Nat
  /\ \A x, y \in list : x.number = y.number => x = y

(* Places are counted from zero, and a newer item has a smaller one.       *)
LEMMA PlacesAreOrdered ==
  ASSUME NEW list, Listed(list)
  PROVE  /\ \A x \in list : Place(x, list) \in Nat /\ Place(x, list) < Cardinality(list)
         /\ \A x, y \in list : x.number > y.number => Place(x, list) < Place(y, list)
<1> DEFINE newer(x) == {other \in list : other.number > x.number}
<1>1. ASSUME NEW x \in list PROVE IsFiniteSet(newer(x)) /\ Cardinality(newer(x)) \in Nat
  <2>1. newer(x) \in SUBSET list
    OBVIOUS
  <2> HIDE DEF newer
  <2> QED
    BY <2>1, FS_Subset, FS_CardinalityType DEF Listed
<1>2. ASSUME NEW x \in list PROVE Place(x, list) = Cardinality(newer(x))
  BY DEF Place
<1>3. ASSUME NEW S, NEW T, IsFiniteSet(T), S \subseteq T, NEW x \in T, x \notin S
      PROVE  Cardinality(S) < Cardinality(T)
  <2>1. IsFiniteSet(S) /\ Cardinality(S) <= Cardinality(T) /\ Cardinality(S) # Cardinality(T)
    BY <1>3, FS_Subset
  <2>2. Cardinality(S) \in Nat /\ Cardinality(T) \in Nat
    BY <1>3, <2>1, FS_CardinalityType
  <2> QED
    BY <2>1, <2>2
<1>4. ASSUME NEW x \in list PROVE Cardinality(newer(x)) < Cardinality(list)
  <2>1. newer(x) \subseteq list /\ x \notin newer(x)
    BY DEF Listed
  <2> HIDE DEF newer
  <2> QED
    BY <2>1, <1>3 DEF Listed
<1>5. ASSUME NEW x \in list, NEW y \in list, x.number > y.number
      PROVE  Cardinality(newer(x)) < Cardinality(newer(y))
  <2>1. newer(x) \subseteq newer(y)
    <3>1. ASSUME NEW z \in list, z.number > x.number PROVE z.number > y.number
      <4>1. x.number \in Nat /\ y.number \in Nat /\ z.number \in Nat
        BY DEF Listed
      <4> QED
        BY <1>5, <3>1, <4>1
    <3> QED
      BY <3>1
  <2>2. x \in newer(y) /\ x \notin newer(x)
    BY <1>5 DEF Listed
  <2>3. IsFiniteSet(newer(y))
    BY <1>1
  <2> HIDE DEF newer
  <2> QED
    BY <2>1, <2>2, <2>3, <1>3
<1> HIDE DEF newer
<1> QED
  BY <1>1, <1>2, <1>4, <1>5

(* Two items of a list have different places.                              *)
LEMMA PlacesDiffer ==
  ASSUME NEW list, Listed(list), NEW x \in list, NEW y \in list, Place(x, list) = Place(y, list)
  PROVE  x = y
<1>1. x.number \in Nat /\ y.number \in Nat
  BY DEF Listed
<1>2. Place(x, list) \in Nat /\ ~(x.number > y.number) /\ ~(y.number > x.number)
  BY PlacesAreOrdered
<1>3. x.number = y.number
  BY <1>1, <1>2
<1> QED
  BY <1>3 DEF Listed

(* Every place below the length is taken.                                  *)
LEMMA PlacesAreTaken ==
  ASSUME NEW list, Listed(list), NEW r \in Nat, r < Cardinality(list)
  PROVE  \E x \in list : Place(x, list) = r
<1> DEFINE n == Cardinality(list)
           f == [x \in list |-> Place(x, list)]
<1>1. n \in Nat /\ n > 0
  BY FS_CardinalityType DEF Listed
<1>2. IsFiniteSet(0 .. n - 1) /\ Cardinality(0 .. n - 1) = n
  <2> HIDE DEF n
  <2>1. n - 1 \in Int /\ 0 \in Int /\ (n - 1) - 0 + 1 = n /\ ~(0 > n - 1)
    BY <1>1
  <2> QED
    BY <2>1, FS_Interval
<1>3. f \in Injection(list, 0 .. n - 1)
  <2>1. ASSUME NEW x \in list PROVE f[x] \in 0 .. n - 1
    <3>1. Place(x, list) \in Nat /\ Place(x, list) < n
      BY PlacesAreOrdered
    <3> HIDE DEF n
    <3> QED
      BY <3>1, <1>1
  <2>2. ASSUME NEW x \in list, NEW y \in list, f[x] = f[y] PROVE x = y
    BY <2>2, PlacesDiffer
  <2>3. f \in [list -> 0 .. n - 1]
    BY <2>1
  <2> HIDE DEF f, n
  <2> QED
    BY <2>2, <2>3 DEF Injection, IsInjective
<1>4. f \in Surjection(list, 0 .. n - 1)
  <2> HIDE DEF f
  <2> QED
    BY <1>2, <1>3, FS_Injection
<1>5. r \in 0 .. n - 1
  <2> HIDE DEF n
  <2>1. r < n
    BY DEF n
  <2> QED
    BY <2>1, <1>1
<1> QED
  BY <1>4, <1>5 DEF Surjection

(* A set whose places are those of an interval has its cardinality.        *)
LEMMA PlacesCount ==
  ASSUME NEW list, Listed(list), NEW a \in Nat, NEW b \in Nat, a <= b, NEW last \in list,
         Place(last, list) >= b
  PROVE  Cardinality({x \in list : Place(x, list) >= a /\ Place(x, list) < b}) = b - a
<1> DEFINE part == {x \in list : Place(x, list) >= a /\ Place(x, list) < b}
           f == [x \in part |-> Place(x, list)]
<1>1. part \subseteq list /\ IsFiniteSet(part)
  <2>1. part \subseteq list
    OBVIOUS
  <2> HIDE DEF part
  <2> QED
    BY <2>1, FS_Subset DEF Listed
<1>2. IsFiniteSet(a .. b - 1) /\ Cardinality(a .. b - 1) = b - a
  <2>1. a \in Int /\ b - 1 \in Int /\ (b - 1) - a + 1 = b - a /\ (a > b - 1 => b - a = 0)
    OBVIOUS
  <2> QED
    BY <2>1, FS_Interval
<1>3. f \in [part -> a .. b - 1]
  <2>1. ASSUME NEW x \in part PROVE Place(x, list) \in a .. b - 1
    <3>1. Place(x, list) \in Nat
      BY PlacesAreOrdered
    <3>2. Place(x, list) >= a /\ Place(x, list) < b
      OBVIOUS
    <3> QED
      BY <3>1, <3>2
  <2> HIDE DEF part
  <2> QED
    BY <2>1
<1>4. f \in Injection(part, a .. b - 1)
  <2>1. ASSUME NEW x \in part, NEW y \in part, f[x] = f[y] PROVE x = y
    <3> HIDE DEF part
    <3>1. Place(x, list) = Place(y, list)
      BY <2>1
    <3> QED
      BY <1>1, <3>1, PlacesDiffer
  <2> HIDE DEF f, part
  <2> QED
    BY <1>3, <2>1 DEF Injection, IsInjective
<1>5. ASSUME NEW r \in a .. b - 1 PROVE \E x \in part : f[x] = r
  <2>1. Place(last, list) \in Nat /\ Place(last, list) < Cardinality(list) /\ Cardinality(list) \in Nat
    BY PlacesAreOrdered, FS_CardinalityType DEF Listed
  <2>2. r \in Nat /\ r >= a /\ r < b
    OBVIOUS
  <2>3. r < Cardinality(list)
    BY <2>1, <2>2
  <2>4. PICK x \in list : Place(x, list) = r
    BY <2>2, <2>3, PlacesAreTaken
  <2>5. x \in part
    BY <2>2, <2>4
  <2> HIDE DEF part
  <2> QED
    BY <2>4, <2>5
<1>6. f \in Surjection(part, a .. b - 1)
  <2> HIDE DEF f, part
  <2> QED
    BY <1>3, <1>5 DEF Surjection
<1>7. Cardinality(part) = Cardinality(a .. b - 1)
  <2> HIDE DEF f, part
  <2> QED
    BY <1>1, <1>2, <1>4, <1>6, FS_Injection
<1> QED
  BY <1>2, <1>7

(* A page holds no more than a page; what is not on the first page is      *)
(* older than what is; and a first page that leaves something out is full. *)
LEMMA FirstPages ==
  ASSUME NEW list, Listed(list)
  PROVE  /\ IsFiniteSet(FirstPage(list)) /\ Cardinality(FirstPage(list)) <= PageSize
         /\ \A x \in FirstPage(list), y \in list \ FirstPage(list) : x.number > y.number
         /\ FirstPage(list) # list => Cardinality(FirstPage(list)) = PageSize
<1> USE WakeAssumption
<1> DEFINE page == {x \in list : Place(x, list) >= 0 /\ Place(x, list) < PageSize}
           f == [x \in page |-> Place(x, list)]
<1>1. FirstPage(list) = page
  <2>1. \A x \in list : Place(x, list) >= 0
    <3>1. \A x \in list : Place(x, list) \in Nat
      BY PlacesAreOrdered
    <3> QED
      BY <3>1
  <2> QED
    BY <2>1 DEF FirstPage
<1>2. IsFiniteSet(page)
  <2>1. page \subseteq list
    OBVIOUS
  <2> HIDE DEF page
  <2> QED
    BY <2>1, FS_Subset DEF Listed
<1>3. IsFiniteSet(0 .. PageSize - 1) /\ Cardinality(0 .. PageSize - 1) = PageSize
  <2>1. 0 \in Int /\ PageSize - 1 \in Int /\ (PageSize - 1) - 0 + 1 = PageSize /\ ~(0 > PageSize - 1)
    OBVIOUS
  <2> QED
    BY <2>1, FS_Interval
<1>4. f \in Injection(page, 0 .. PageSize - 1)
  <2>1. ASSUME NEW x \in page PROVE x \in list /\ Place(x, list) \in 0 .. PageSize - 1
    <3>1. Place(x, list) \in Nat
      BY PlacesAreOrdered
    <3> QED
      BY <3>1
  <2> HIDE DEF page
  <2>2. ASSUME NEW x \in page, NEW y \in page, f[x] = f[y] PROVE x = y
    <3>1. Place(x, list) = Place(y, list)
      BY <2>2
    <3> QED
      BY <2>1, <3>1, PlacesDiffer
  <2>3. f \in [page -> 0 .. PageSize - 1]
    BY <2>1
  <2> HIDE DEF f
  <2> QED
    BY <2>2, <2>3 DEF Injection, IsInjective
<1>5. Cardinality(page) <= PageSize
  <2> HIDE DEF f, page
  <2> QED
    BY <1>3, <1>4, FS_Injection
<1>6. ASSUME NEW x \in FirstPage(list), NEW y \in list \ FirstPage(list) PROVE x.number > y.number
  <2>1. x \in list /\ y \in list /\ Place(x, list) < PageSize /\ ~(Place(y, list) < PageSize)
    BY DEF FirstPage
  <2>2. Place(x, list) \in Nat /\ Place(y, list) \in Nat
    BY <2>1, PlacesAreOrdered
  <2>3. ~(y.number > x.number)
    <3>1. y.number > x.number => Place(y, list) < Place(x, list)
      BY <2>1, PlacesAreOrdered
    <3> QED
      BY <2>1, <2>2, <3>1
  <2>4. x.number # y.number
    BY <2>1, <1>6 DEF Listed
  <2>5. x.number \in Nat /\ y.number \in Nat
    BY <2>1 DEF Listed
  <2> QED
    BY <2>3, <2>4, <2>5
<1>7. ASSUME page # list PROVE Cardinality(page) = PageSize
  <2>1. PICK x \in list : x \notin page
    BY <1>7
  <2>2. Place(x, list) >= PageSize
    <3>1. Place(x, list) \in Nat
      BY PlacesAreOrdered
    <3> QED
      BY <2>1, <3>1
  <2>3. 0 \in Nat /\ PageSize \in Nat /\ 0 <= PageSize /\ PageSize - 0 = PageSize
    OBVIOUS
  <2> HIDE DEF page
  <2>4. Cardinality({i \in list : Place(i, list) >= 0 /\ Place(i, list) < PageSize}) = PageSize - 0
    BY <2>2, <2>3, PlacesCount
  <2> QED
    BY <2>3, <2>4 DEF page
<1> HIDE DEF page, f
<1> QED
  BY <1>1, <1>2, <1>5, <1>6, <1>7

(* A second page that is not full ends the list.                           *)
LEMMA SecondPagesEnd ==
  ASSUME NEW list, Listed(list), Cardinality(SecondPage(list)) # PageSize
  PROVE  list = FirstPage(list) \cup SecondPage(list)
<1> USE WakeAssumption
<1>1. ASSUME NEW x \in list, x \notin FirstPage(list), x \notin SecondPage(list) PROVE FALSE
  <2>1. Place(x, list) \in Nat
    BY PlacesAreOrdered
  <2>2. Place(x, list) >= PageSize + PageSize
    BY <1>1, <2>1 DEF FirstPage, SecondPage
  <2>3. PageSize \in Nat /\ PageSize + PageSize \in Nat /\ PageSize <= PageSize + PageSize
    OBVIOUS
  <2>4. Cardinality({i \in list : Place(i, list) >= PageSize /\ Place(i, list) < PageSize + PageSize})
          = (PageSize + PageSize) - PageSize
    BY <2>2, <2>3, PlacesCount
  <2>5. (PageSize + PageSize) - PageSize = PageSize
    OBVIOUS
  <2> QED
    BY <2>4, <2>5 DEF SecondPage
<1>2. FirstPage(list) \subseteq list /\ SecondPage(list) \subseteq list
  BY DEF FirstPage, SecondPage
<1> QED
  BY <1>1, <1>2


-----------------------------------------------------------------------------
(* Worlds, and the order in which they follow each other: a stamp never    *)
(* falls, and an item whose stamp is the same is the same.                 *)
Artifact == [attempt : Nat, issue : Issues]
Artifacts == {set \in SUBSET Artifact : IsFiniteSet(set)}
Snapshot ==
  [open : SUBSET Numbers, link : [PullRange -> Issues], updated : [Numbers -> Nat],
   run : [attempt : Nat, artifacts : Artifacts]]

Alike(v, w, n) == (n \in v.open <=> n \in w.open) /\ (n \in PullRange => v.link[n] = w.link[n])

Later(v, w) ==
  \A n \in Numbers :
    v.updated[n] <= w.updated[n] /\ (v.updated[n] = w.updated[n] => Alike(v, w, n))

LEMMA LaterIsAnOrder ==
  /\ \A v \in Snapshot : Later(v, v)
  /\ \A u, v, w \in Snapshot : Later(u, v) /\ Later(v, w) => Later(u, w)
<1>1. ASSUME NEW v \in Snapshot PROVE Later(v, v)
  <2>1. \A n \in Numbers : v.updated[n] \in Nat
    BY DEF Snapshot
  <2> QED
    BY <2>1 DEF Later, Alike
<1>2. ASSUME NEW u \in Snapshot, NEW v \in Snapshot, NEW w \in Snapshot, Later(u, v), Later(v, w),
             NEW n \in Numbers
      PROVE  u.updated[n] <= w.updated[n] /\ (u.updated[n] = w.updated[n] => Alike(u, w, n))
  <2>1. u.updated[n] \in Nat /\ v.updated[n] \in Nat /\ w.updated[n] \in Nat
    BY DEF Snapshot
  <2>2. /\ u.updated[n] <= v.updated[n] /\ (u.updated[n] = v.updated[n] => Alike(u, v, n))
        /\ v.updated[n] <= w.updated[n] /\ (v.updated[n] = w.updated[n] => Alike(v, w, n))
    BY <1>2 DEF Later
  <2>3. u.updated[n] <= w.updated[n]
    BY <2>1, <2>2
  <2>4. ASSUME u.updated[n] = w.updated[n] PROVE Alike(u, w, n)
    <3>1. u.updated[n] = v.updated[n] /\ v.updated[n] = w.updated[n]
      BY <2>1, <2>2, <2>4
    <3>2. Alike(u, v, n) /\ Alike(v, w, n)
      BY <2>2, <3>1
    <3> QED
      BY <3>2 DEF Alike
  <2> QED
    BY <2>3, <2>4
<1> QED
  BY <1>1, <1>2 DEF Later

(* What an item shows of the world it was read in.                         *)
LEMMA ItemsShow ==
  ASSUME NEW w \in Snapshot, NEW n \in Numbers, NEW v \in Snapshot, NEW m \in Numbers
  PROVE  /\ Item(w, n).number = n /\ Item(w, n).updated = w.updated[n]
         /\ n \in PullRange => Item(w, n).issue = w.link[n]
         /\ Item(v, m) = Item(w, n) => m = n /\ v.updated[n] = w.updated[n]
         /\ v.updated[n] = w.updated[n] /\ Alike(v, w, n) => Item(v, n) = Item(w, n)
<1>1. Item(w, n).number = n /\ Item(w, n).updated = w.updated[n]
  BY DEF Item
<1>2. n \in PullRange => Item(w, n).issue = w.link[n]
  BY DEF Item
<1>3. Item(v, m) = Item(w, n) => m = n /\ v.updated[n] = w.updated[n]
  <2>1. Item(v, m).number = m /\ Item(v, m).updated = v.updated[m]
    BY DEF Item
  <2> QED
    BY <1>1, <2>1
<1>4. v.updated[n] = w.updated[n] /\ Alike(v, w, n) => Item(v, n) = Item(w, n)
  BY DEF Item, Alike
<1> QED
  BY <1>1, <1>2, <1>3, <1>4

(* An item that is read twice was the same in between.                     *)
LEMMA ReadTwiceIsBetween ==
  ASSUME NEW u \in Snapshot, NEW v \in Snapshot, NEW w \in Snapshot, Later(u, v), Later(v, w),
         NEW n \in Numbers, Item(u, n) = Item(w, n)
  PROVE  Item(v, n) = Item(w, n) /\ (n \in u.open <=> n \in v.open) /\ (n \in v.open <=> n \in w.open)
<1>1. u.updated[n] \in Nat /\ v.updated[n] \in Nat /\ w.updated[n] \in Nat
  BY DEF Snapshot
<1>2. u.updated[n] = w.updated[n]
  BY ItemsShow
<1>3. u.updated[n] <= v.updated[n] /\ v.updated[n] <= w.updated[n]
  BY DEF Later
<1>4. u.updated[n] = v.updated[n] /\ v.updated[n] = w.updated[n]
  BY <1>1, <1>2, <1>3
<1>5. Alike(u, v, n) /\ Alike(v, w, n)
  BY <1>4 DEF Later
<1>6. Item(v, n) = Item(w, n)
  BY <1>4, <1>5, ItemsShow
<1> QED
  BY <1>5, <1>6 DEF Alike

(* The items of a world are a list.                                        *)
LEMMA ItemsAreListed ==
  ASSUME NEW w \in Snapshot, NEW numbers \in SUBSET Numbers
  PROVE  Listed(Items(w, numbers)) /\ \A x \in Items(w, numbers) :
           x.number \in w.open \cap numbers /\ x = Item(w, x.number)
<1> DEFINE S == w.open \cap numbers
           f == [n \in S |-> Item(w, n)]
<1>1. S \in SUBSET Numbers /\ Numbers \subseteq Nat
  BY WakeAssumption DEF Snapshot, Numbers
<1>2. IsFiniteSet(Numbers)
  BY WakeAssumption, FS_Union DEF Numbers
<1>3. IsFiniteSet(S)
  <2> HIDE DEF S
  <2> QED
    BY <1>1, <1>2, FS_Subset
<1>4. Items(w, numbers) = {Item(w, n) : n \in S}
  BY DEF Items
<1>5. \A x \in Items(w, numbers) : x.number \in S /\ x = Item(w, x.number)
  <2> HIDE DEF S
  <2>1. ASSUME NEW n \in S PROVE Item(w, n).number = n
    BY DEF Item
  <2> QED
    BY <1>4, <2>1
<1>6. IsFiniteSet(Items(w, numbers))
  <2> HIDE DEF S
  <2>1. f \in [S -> Items(w, numbers)] /\ \A x \in Items(w, numbers) : \E n \in S : f[n] = x
    BY <1>4
  <2>2. f \in Surjection(S, Items(w, numbers))
    <3> HIDE DEF f
    <3> QED
      BY <2>1 DEF Surjection
  <2> HIDE DEF f
  <2> QED
    BY <1>3, <2>2, FS_Surjection
<1> HIDE DEF S, f
<1>7. ASSUME NEW x \in Items(w, numbers), NEW y \in Items(w, numbers), x.number = y.number PROVE x = y
  BY <1>5, <1>7
<1>8. \A x \in Items(w, numbers) : x.number \in Nat
  BY <1>1, <1>5
<1>9. Listed(Items(w, numbers))
  BY <1>6, <1>7, <1>8 DEF Listed
<1> QED
  BY <1>5, <1>9 DEF S

(* Lists that are alike hold the same items.                               *)
LEMMA FlatHoldsItems ==
  ASSUME NEW p, NEW q, NEW r, NEW s, Flat(p, q) = Flat(r, s)
  PROVE  p \cup q = r \cup s
<1>1. ASSUME NEW a, NEW b, NEW x
      PROVE  x \in a \cup b <=> \E nth : <<nth, x>> \in Flat(a, b)
  <2>1. ASSUME x \in a PROVE <<Place(x, a), x>> \in Flat(a, b)
    BY <2>1 DEF Flat
  <2>2. ASSUME x \in b PROVE <<Cardinality(a) + Place(x, b), x>> \in Flat(a, b)
    BY <2>2 DEF Flat
  <2>3. ASSUME NEW nth, <<nth, x>> \in Flat(a, b) PROVE x \in a \cup b
    BY <2>3 DEF Flat
  <2> QED
    BY <2>1, <2>2, <2>3
<1> QED
  BY <1>1


(* Two alike reads of two pages, in four worlds one after the other, hold  *)
(* exactly the items that were open when the first read ended and when the *)
(* second began, as they were then.                                        *)
LEMMA TwoReadsAgree ==
  ASSUME NEW a \in Snapshot, NEW b \in Snapshot, NEW c \in Snapshot, NEW d \in Snapshot,
         Later(a, b), Later(b, c), Later(c, d), NEW numbers \in SUBSET Numbers,
         Flat(FirstPage(Items(a, numbers)), SecondPage(Items(b, numbers)))
           = Flat(FirstPage(Items(c, numbers)), SecondPage(Items(d, numbers))),
         Cardinality(SecondPage(Items(b, numbers))) # PageSize
  PROVE  FirstPage(Items(c, numbers)) \cup SecondPage(Items(d, numbers))
           = {Item(c, n) : n \in b.open \cap c.open \cap numbers}
<1> DEFINE A == FirstPage(Items(a, numbers))
           B == SecondPage(Items(b, numbers))
           C == FirstPage(Items(c, numbers))
           D == SecondPage(Items(d, numbers))
<1>1. A \cup B = C \cup D
  BY FlatHoldsItems
<1>2. /\ A \subseteq Items(a, numbers) /\ B \subseteq Items(b, numbers)
      /\ C \subseteq Items(c, numbers) /\ D \subseteq Items(d, numbers)
  BY DEF FirstPage, SecondPage
<1>3. Later(a, c) /\ Later(b, d) /\ Later(a, d)
  BY LaterIsAnOrder
<1>4. ASSUME NEW w \in Snapshot, NEW x \in Items(w, numbers)
      PROVE  x.number \in w.open /\ x.number \in numbers /\ x.number \in Numbers /\ x = Item(w, x.number)
  BY ItemsAreListed
<1>5. ASSUME NEW w \in Snapshot, NEW n \in w.open, n \in numbers PROVE Item(w, n) \in Items(w, numbers)
  BY <1>5 DEF Items
<1>6. ASSUME NEW x \in C \cup D
      PROVE  x = Item(c, x.number) /\ x.number \in b.open \cap c.open \cap numbers
  <2> DEFINE n == x.number
  <2> HIDE DEF A, B, C, D
  <2>1. CASE x \in C
    <3>1. n \in c.open /\ n \in numbers /\ n \in Numbers /\ x = Item(c, n)
      BY <1>2, <1>4, <2>1
    <3>2. CASE x \in A
      <4>1. n \in a.open /\ x = Item(a, n)
        BY <1>2, <1>4, <3>2
      <4>2. n \in b.open
        BY <3>1, <4>1, ReadTwiceIsBetween
      <4> QED
        BY <3>1, <4>2
    <3>3. CASE x \in B
      BY <1>2, <1>4, <3>1, <3>3
    <3> QED
      BY <1>1, <2>1, <3>2, <3>3
  <2>2. CASE x \in D
    <3>1. n \in d.open /\ n \in numbers /\ n \in Numbers /\ x = Item(d, n)
      BY <1>2, <1>4, <2>2
    <3>2. CASE x \in A
      <4>1. n \in a.open /\ Item(a, n) = Item(d, n)
        BY <1>2, <1>4, <3>1, <3>2
      <4>2. n \in b.open
        BY <1>3, <3>1, <4>1, ReadTwiceIsBetween
      <4>3. n \in c.open /\ Item(c, n) = Item(d, n)
        BY <1>3, <3>1, <4>1, ReadTwiceIsBetween
      <4> QED
        BY <3>1, <4>2, <4>3
    <3>3. CASE x \in B
      <4>1. n \in b.open /\ Item(b, n) = Item(d, n)
        BY <1>2, <1>4, <3>1, <3>3
      <4>2. n \in c.open /\ Item(c, n) = Item(d, n)
        BY <3>1, <4>1, ReadTwiceIsBetween
      <4> QED
        BY <3>1, <4>1, <4>2
    <3> QED
      BY <1>1, <2>2, <3>2, <3>3
  <2> QED
    BY <2>1, <2>2
<1>7. ASSUME NEW n \in b.open \cap c.open \cap numbers, Item(c, n) \notin C \cup D PROVE FALSE
  <2> DEFINE x == Item(c, n)
             y == Item(b, n)
             F == FirstPage(Items(b, numbers))
             f == [z \in C |-> Item(b, z.number)]
  <2>1. n \in Numbers /\ x \in Items(c, numbers) /\ y \in Items(b, numbers) /\ x.number = n /\ y.number = n
    BY <1>5 DEF Item
  <2>2. y \notin A \cup B
    <3>1. y \in C \cup D => y = Item(c, y.number)
      BY <1>6
    <3> HIDE DEF A, B, C, D
    <3> QED
      BY <1>1, <1>7, <2>1, <3>1
  <2>3. Items(b, numbers) = F \cup B
    BY ItemsAreListed, SecondPagesEnd
  <2>4. y \in F
    BY <2>1, <2>2, <2>3
  <2>5. Cardinality(C) = PageSize /\ IsFiniteSet(C)
    BY <1>7, <2>1, ItemsAreListed, FirstPages
  <2>6. IsFiniteSet(F) /\ Cardinality(F) <= PageSize
    BY ItemsAreListed, FirstPages
  <2>7. PICK z \in C : Item(b, z.number) \notin F
    <3>1. ASSUME \A z \in C : Item(b, z.number) \in F PROVE FALSE
      <4>1. ASSUME NEW z \in C PROVE f[z] \in F \ {y} /\ z = Item(c, z.number) /\ f[z].number = z.number
        <5>1. z = Item(c, z.number) /\ z.number \in numbers
          BY <1>6
        <5>2. f[z].number = z.number
          BY DEF Item
        <5>3. z.number # n
          BY <1>7, <5>1
        <5> QED
          BY <2>1, <3>1, <5>1, <5>2, <5>3
      <4>2. f \in [C -> F \ {y}]
        BY <4>1
      <4> HIDE DEF f, F, A, B, C, D, x, y
      <4>3. f \in Injection(C, F \ {y})
        <5>1. ASSUME NEW z \in C, NEW t \in C, f[z] = f[t] PROVE z = t
          BY <4>1, <5>1
        <5> QED
          BY <4>2, <5>1 DEF Injection, IsInjective
      <4>4. IsFiniteSet(F \ {y}) /\ Cardinality(F \ {y}) = Cardinality(F) - 1
        BY <2>4, <2>6, FS_RemoveElement
      <4>5. Cardinality(C) <= Cardinality(F \ {y})
        BY <4>3, <4>4, FS_Injection
      <4>6. Cardinality(F) \in Nat /\ PageSize \in Nat
        BY <2>6, FS_CardinalityType, WakeAssumption
      <4> QED
        BY <2>5, <2>6, <4>4, <4>5, <4>6
    <3> QED
      BY <3>1
  <2>8. z.number \in b.open /\ z.number \in numbers /\ z.number \in Nat /\ n \in Nat
    BY <1>6, <2>1, WakeAssumption DEF Numbers
  <2>9. Item(b, z.number) \in Items(b, numbers) \ F /\ Item(b, z.number).number = z.number
    BY <1>5, <2>7, <2>8 DEF Item
  <2>10. n > z.number
    <3>1. y.number > Item(b, z.number).number
      BY <2>4, <2>9, ItemsAreListed, FirstPages
    <3> QED
      BY <2>1, <2>9, <3>1
  <2>11. z.number > n
    <3>1. x \in Items(c, numbers) \ C
      BY <1>7, <2>1
    <3>2. z.number > x.number
      BY <2>7, <3>1, ItemsAreListed, FirstPages
    <3> QED
      BY <2>1, <3>2
  <2> QED
    BY <2>8, <2>10, <2>11
<1> HIDE DEF A, B
<1>8. C \cup D \subseteq {Item(c, n) : n \in b.open \cap c.open \cap numbers}
  BY <1>6
<1>9. {Item(c, n) : n \in b.open \cap c.open \cap numbers} \subseteq C \cup D
  BY <1>7
<1> QED
  BY <1>8, <1>9


-----------------------------------------------------------------------------
(* WakeInv: every answer is that of its world, the worlds follow each      *)
(* other, every answer but the last was accepted, and a resolver that is   *)
(* done accepted all it planned to read.                                   *)
ReadsInv ==
  /\ event.resolver \in Resolvers /\ event.pull \in PullRange
  /\ \E S : reads \in Seq(S)
  /\ Len(worlds) = Len(reads) /\ Len(reads) <= Len(Plan(event.resolver))
  /\ \A i \in 1 .. Len(reads) : \A w, object :
       w = worlds[i] /\ object = Plan(event.resolver)[i] => reads[i] = Answer(w, object)

WorldsInv ==
  /\ world \in Snapshot /\ worlds \in Seq(Snapshot)
  /\ \A i \in 1 .. Len(worlds) : Later(worlds[i], world)
  /\ \A i, j \in 1 .. Len(worlds) : i <= j => Later(worlds[i], worlds[j])

JudgedInv == \A n \in 1 .. Len(reads) : n < Len(reads) => Accepted(n)

ResolvedInv ==
  /\ result = [status |-> result.status, locators |-> result.locators]
  /\ result.status # "resolver-request-budget"
  /\ result.status = "resolved" =>
       /\ Len(reads) = Len(Plan(event.resolver))
       /\ \A n \in 1 .. Len(reads) : Accepted(n)
       /\ result.locators = Locators

WakeInv == ReadsInv /\ WorldsInv /\ JudgedInv /\ ResolvedInv

(* A plan asks for no more than its budget, and for an archive last.       *)
LEMMA PlansFit ==
  ASSUME NEW resolver \in Resolvers
  PROVE  /\ Len(Plan(resolver)) \in Nat /\ Len(Plan(resolver)) = Budget(resolver)
         /\ Len(Plan(resolver)) <= 8
         /\ \A i \in 1 .. Len(Plan(resolver)) : Plan(resolver)[i] = "archive" => i > 4
<1>1. CASE resolver = "issue"
  BY <1>1 DEF Plan, Budget
<1>2. CASE resolver = "pullRequest"
  BY <1>2 DEF Plan, Budget
<1>3. CASE resolver = "governance"
  BY <1>3 DEF Plan, Budget
<1>4. CASE resolver = "evidence"
  BY <1>4 DEF Plan, Budget
<1>5. CASE resolver = "schedule"
  BY <1>5 DEF Plan, Budget
<1> QED
  BY <1>1, <1>2, <1>3, <1>4, <1>5 DEF Resolvers

LEMMA AnswerStays ==
  ASSUME event' = event, NEW w, NEW object, object = "archive" => reads'[4] = reads[4]
  PROVE  Answer(w, object)' = Answer(w, object)
<1>1. CASE object = "archive"
  BY <1>1 DEF Answer
<1>2. CASE object # "archive"
  BY <1>2 DEF Answer
<1> QED
  BY <1>1, <1>2

(* What was made of answers does not change as more come in.               *)
LEMMA AcceptedStays ==
  ASSUME event' = event, NEW n \in Nat \ {0}, \A i \in 1 .. n : reads'[i] = reads[i]
  PROVE  Accepted(n)' <=> Accepted(n)
<1>1. reads'[n] = reads[n]
  OBVIOUS
<1>2. Incomplete(n)' <=> Incomplete(n)
  BY <1>1 DEF Incomplete
<1>3. n \in {2, 4, 6} => reads'[n - 1] = reads[n - 1]
  OBVIOUS
<1>4. n \in {4, 8} => reads'[n - 1] = reads[n - 1] /\ reads'[n - 2] = reads[n - 2] /\ reads'[n - 3] = reads[n - 3]
  OBVIOUS
<1>5. ReadTwiceAlike(n)' <=> ReadTwiceAlike(n)
  BY <1>1, <1>3, <1>4 DEF ReadTwiceAlike
<1>6. /\ n = 4 => reads'[4] = reads[4]
      /\ n = 6 => reads'[6] = reads[6] /\ reads'[2] = reads[2]
      /\ n = 2 => reads'[2] = reads[2]
      /\ n = 8 => reads'[3] = reads[3] /\ reads'[4] = reads[4] /\ reads'[7] = reads[7] /\ reads'[8] = reads[8]
  OBVIOUS
<1>7. GovernanceRefused(n)' <=> GovernanceRefused(n)
  BY <1>6 DEF GovernanceRefused
<1>8. EvidenceRefused(n)' <=> EvidenceRefused(n)
  BY <1>6 DEF EvidenceRefused
<1>9. event.resolver = "schedule" /\ n = 8 => Locators' = Locators
  BY <1>6 DEF Locators
<1>10. ScheduleRefused(n)' <=> ScheduleRefused(n)
  BY <1>9 DEF ScheduleRefused
<1> QED
  BY <1>2, <1>5, <1>7, <1>8, <1>10 DEF Accepted, Refused

LEMMA WakeInitEstablishes == WakeInit => WakeInv
<1> SUFFICES ASSUME WakeInit PROVE WakeInv
  OBVIOUS
<1>1. reads = << >> /\ worlds = << >> /\ result = [status |-> "reading", locators |-> {}]
  BY DEF WakeInit
<1>2. event.resolver \in Resolvers /\ event.pull \in PullRange
  BY DEF WakeInit
<1>3. world \in Snapshot
  <2>1. PICK open \in SUBSET Numbers, link \in [PullRange -> Issues], number \in Issues :
          world = [open |-> open, link |-> link, updated |-> [n \in Numbers |-> 0],
                   run |-> [attempt |-> 1, artifacts |-> {[attempt |-> 1, issue |-> number]}]]
    BY DEF WakeInit
  <2>2. {[attempt |-> 1, issue |-> number]} \in Artifacts
    <3>1. [attempt |-> 1, issue |-> number] \in Artifact
      BY DEF Artifact
    <3>2. PICK new \in Artifact : new = [attempt |-> 1, issue |-> number]
      BY <3>1
    <3>3. IsFiniteSet({new})
      BY FS_Singleton
    <3> QED
      BY <3>2, <3>3 DEF Artifacts
  <2>3. [n \in Numbers |-> 0] \in [Numbers -> Nat]
    OBVIOUS
  <2> QED
    BY <2>1, <2>2, <2>3 DEF Snapshot
<1>4. ReadsInv
  <2>1. reads \in Seq({}) /\ Len(reads) = 0 /\ Len(worlds) = 0
    BY <1>1
  <2>2. Len(Plan(event.resolver)) \in Nat
    BY <1>2, PlansFit
  <2> QED
    BY <1>2, <2>1, <2>2 DEF ReadsInv
<1>5. WorldsInv
  BY <1>1, <1>3 DEF WorldsInv
<1>6. JudgedInv /\ ResolvedInv
  BY <1>1 DEF JudgedInv, ResolvedInv
<1> QED
  BY <1>4, <1>5, <1>6 DEF WakeInv

(* Whatever happens in the repository, the world is one after the other.   *)
LEMMA RepositoryMovesOn ==
  ASSUME world \in Snapshot, Close \/ Open \/ EditPull \/ RunAgain
  PROVE  world' \in Snapshot /\ Later(world, world')
<1>1. ASSUME NEW n \in Numbers, NEW open \in SUBSET Numbers, NEW link \in [PullRange -> Issues],
             world' = [open |-> open, link |-> link,
                       updated |-> [world.updated EXCEPT ![n] = @ + 1], run |-> world.run],
             \A m \in Numbers \ {n} : m \in open <=> m \in world.open,
             \A m \in PullRange \ {n} : link[m] = world.link[m]
      PROVE  world' \in Snapshot /\ Later(world, world')
  <2>1. \A m \in Numbers : world.updated[m] \in Nat
    BY DEF Snapshot
  <2>2. world.updated \in [Numbers -> Nat] /\ world.run \in [attempt : Nat, artifacts : Artifacts]
    BY DEF Snapshot
  <2>3. [world.updated EXCEPT ![n] = @ + 1] \in [Numbers -> Nat]
    BY <2>1, <2>2
  <2>4. world' \in Snapshot
    BY <1>1, <2>2, <2>3 DEF Snapshot
  <2>5. ASSUME NEW m \in Numbers
        PROVE  /\ world.updated[m] <= world'.updated[m]
               /\ world.updated[m] = world'.updated[m] => Alike(world, world', m)
    <3>1. world'.updated = [world.updated EXCEPT ![n] = @ + 1] /\ world'.open = open /\ world'.link = link
      BY <1>1
    <3>2. CASE m = n
      <4>1. world'.updated[m] = world.updated[m] + 1
        BY <2>2, <3>1, <3>2
      <4> QED
        BY <2>1, <4>1
    <3>3. CASE m # n
      <4>1. world'.updated[m] = world.updated[m]
        BY <2>2, <3>1, <3>3
      <4>2. Alike(world, world', m)
        BY <1>1, <3>1, <3>3 DEF Alike
      <4> QED
        BY <2>1, <4>1, <4>2
    <3> QED
      BY <3>2, <3>3
  <2> QED
    BY <2>4, <2>5 DEF Later
<1>2. /\ world = [open |-> world.open, link |-> world.link, updated |-> world.updated, run |-> world.run]
      /\ world.open \in SUBSET Numbers /\ world.link \in [PullRange -> Issues]
  BY DEF Snapshot
<1>3. CASE Close
  <2>1. PICK n \in world.open : world' = [world EXCEPT !.open = @ \ {n}, !.updated[n] = @ + 1]
    BY <1>3 DEF Close
  <2>2. world' = [open |-> world.open \ {n}, link |-> world.link,
                  updated |-> [world.updated EXCEPT ![n] = @ + 1], run |-> world.run]
    BY <1>2, <2>1
  <2>3. PICK open \in SUBSET Numbers, link \in [PullRange -> Issues] :
          open = world.open \ {n} /\ link = world.link
    BY <1>2
  <2> QED
    BY <1>1, <1>2, <2>2, <2>3
<1>4. CASE Open
  <2>1. PICK n \in Numbers \ world.open : world' = [world EXCEPT !.open = @ \cup {n}, !.updated[n] = @ + 1]
    BY <1>4 DEF Open
  <2>2. world' = [open |-> world.open \cup {n}, link |-> world.link,
                  updated |-> [world.updated EXCEPT ![n] = @ + 1], run |-> world.run]
    BY <1>2, <2>1
  <2>3. PICK open \in SUBSET Numbers, link \in [PullRange -> Issues] :
          open = world.open \cup {n} /\ link = world.link
    BY <1>2
  <2> QED
    BY <1>1, <1>2, <2>2, <2>3
<1>5. CASE EditPull
  <2>1. PICK p \in PullRange, number \in Issues :
          world' = [world EXCEPT !.link[p] = number, !.updated[p] = @ + 1]
    BY <1>5 DEF EditPull
  <2>2. world' = [open |-> world.open, link |-> [world.link EXCEPT ![p] = number],
                  updated |-> [world.updated EXCEPT ![p] = @ + 1], run |-> world.run]
    BY <1>2, <2>1
  <2>3. PICK open \in SUBSET Numbers, link \in [PullRange -> Issues] :
          open = world.open /\ link = [world.link EXCEPT ![p] = number]
    BY <1>2
  <2>4. p \in Numbers
    BY DEF Numbers
  <2> QED
    BY <1>1, <1>2, <2>2, <2>3, <2>4
<1>6. CASE RunAgain
  <2>1. PICK kept \in {{}, world.run.artifacts}, number \in Issues :
          world' = [world EXCEPT !.run =
                      [attempt |-> @.attempt + 1,
                       artifacts |-> kept \cup {[attempt |-> @.attempt + 1, issue |-> number]}]]
    BY <1>6 DEF RunAgain
  <2>2. world.run.attempt \in Nat /\ world.run.artifacts \in Artifacts
    BY DEF Snapshot
  <2>3. PICK run : run = [attempt |-> world.run.attempt + 1,
                          artifacts |-> kept \cup {[attempt |-> world.run.attempt + 1, issue |-> number]}]
    OBVIOUS
  <2>4. world' = [world EXCEPT !.run = run]
    BY <2>1, <2>3
  <2>5. run \in [attempt : Nat, artifacts : Artifacts]
    <3>1. PICK new : new = [attempt |-> world.run.attempt + 1, issue |-> number]
      OBVIOUS
    <3>2. new \in Artifact
      BY <2>2, <3>1 DEF Artifact
    <3>3. kept \in SUBSET Artifact /\ IsFiniteSet(kept)
      BY <2>2, FS_EmptySet DEF Artifacts
    <3>4. kept \cup {new} \in Artifacts
      BY <3>2, <3>3, FS_AddElement DEF Artifacts
    <3>5. world.run.attempt + 1 \in Nat
      BY <2>2
    <3> QED
      BY <2>3, <3>1, <3>4, <3>5
  <2>6. world' = [open |-> world.open, link |-> world.link, updated |-> world.updated, run |-> run]
    BY <1>2, <2>4
  <2>7. world' \in Snapshot
    BY <2>5, <2>6 DEF Snapshot
  <2>8. \A m \in Numbers : world.updated[m] \in Nat
    BY DEF Snapshot
  <2>9. Later(world, world')
    BY <2>6, <2>8 DEF Later, Alike
  <2> QED
    BY <2>7, <2>9
<1> QED
  BY <1>3, <1>4, <1>5, <1>6


LEMMA RepositoryKeeps ==
  ASSUME WakeInv, Close \/ Open \/ EditPull \/ RunAgain
  PROVE  WakeInv'
<1>1. UNCHANGED <<event, reads, worlds, result>>
  BY DEF Close, Open, EditPull, RunAgain, Meanwhile
<1>2. world' \in Snapshot /\ Later(world, world')
  BY RepositoryMovesOn DEF WakeInv, WorldsInv
<1>3. ReadsInv'
  <2>1. ASSUME NEW w, NEW object PROVE Answer(w, object)' = Answer(w, object)
    BY <1>1, AnswerStays
  <2>2. ASSUME NEW i \in 1 .. Len(reads), NEW w, NEW object,
               w = worlds'[i], object = Plan(event.resolver)[i]
        PROVE  reads'[i] = Answer(w, object)'
    <3>1. reads[i] = Answer(w, object)
      BY <1>1, <2>2 DEF WakeInv, ReadsInv
    <3> QED
      BY <1>1, <2>1, <3>1
  <2>3. Plan(event.resolver)' = Plan(event.resolver)
    BY <1>1 DEF Plan
  <2> QED
    BY <1>1, <2>2, <2>3 DEF WakeInv, ReadsInv
<1>4. WorldsInv'
  <2>1. ASSUME NEW i \in 1 .. Len(worlds) PROVE Later(worlds[i], world')
    <3>1. worlds[i] \in Snapshot /\ Later(worlds[i], world) /\ world \in Snapshot
      BY DEF WakeInv, WorldsInv
    <3> QED
      BY <1>2, <3>1, LaterIsAnOrder
  <2>2. worlds \in Seq(Snapshot) /\ \A i, j \in 1 .. Len(worlds) : i <= j => Later(worlds[i], worlds[j])
    BY DEF WakeInv, WorldsInv
  <2> QED
    BY <1>1, <1>2, <2>1, <2>2 DEF WorldsInv, Later, Alike
<1>5. ASSUME NEW n \in 1 .. Len(reads) PROVE Accepted(n)' <=> Accepted(n)
  <2>1. Len(reads) \in Nat
    BY DEF WakeInv, ReadsInv
  <2>2. n \in Nat \ {0}
    BY <2>1
  <2> QED
    BY <1>1, <2>2, AcceptedStays
<1>6. JudgedInv'
  BY <1>1, <1>5 DEF WakeInv, JudgedInv
<1>7. ResolvedInv'
  <2>1. Locators' = Locators
    BY <1>1 DEF Locators
  <2>2. Plan(event.resolver)' = Plan(event.resolver)
    BY <1>1 DEF Plan
  <2> QED
    BY <1>1, <1>5, <2>1, <2>2 DEF WakeInv, ResolvedInv
<1> QED
  BY <1>3, <1>4, <1>6, <1>7 DEF WakeInv

(* What appending does to a sequence.                                      *)
LEMMA AppendedIsLonger ==
  ASSUME NEW S, NEW s \in Seq(S), NEW x
  PROVE  /\ Append(s, x) \in Seq(S \cup {x}) /\ Len(s) \in Nat /\ Len(Append(s, x)) = Len(s) + 1
         /\ \A i \in 1 .. Len(s) : Append(s, x)[i] = s[i]
         /\ Append(s, x)[Len(s) + 1] = x
<1>1. s \in Seq(S \cup {x}) /\ x \in S \cup {x}
  OBVIOUS
<1> QED
  BY <1>1

LEMMA AskProviderKeeps ==
  ASSUME WakeInv, AskProvider
  PROVE  WakeInv'
<1> DEFINE n == Len(reads)
           plan == Plan(event.resolver)
<1>1. PICK S : reads \in Seq(S)
  BY DEF WakeInv, ReadsInv
<1>2. n \in Nat /\ n < Len(plan) /\ Len(plan) = Budget(event.resolver) /\ Len(plan) \in Nat /\ Len(worlds) = n
  BY <1>1, PlansFit DEF AskProvider, MayAsk, WakeInv, ReadsInv
<1>3. /\ reads' = Append(reads, Answer(world, Object)) /\ worlds' = Append(worlds, world)
      /\ UNCHANGED <<result, world, event>>
  <2>1. ~(n + 1 > Budget(event.resolver))
    <3> HIDE DEF n, plan
    <3> QED
      BY <1>2
  <2> QED
    BY <2>1 DEF AskProvider
<1>4. PICK answer : answer = Answer(world, Object)
  OBVIOUS
<1>5. /\ reads' \in Seq(S \cup {answer}) /\ Len(reads') = n + 1 /\ reads'[n + 1] = answer
      /\ \A i \in 1 .. n : reads'[i] = reads[i]
  BY <1>1, <1>3, <1>4, AppendedIsLonger
<1>6. worlds \in Seq(Snapshot) /\ world \in Snapshot
  BY DEF WakeInv, WorldsInv
<1>7. /\ worlds' \in Seq(Snapshot) /\ Len(worlds') = n + 1 /\ worlds'[n + 1] = world
      /\ \A i \in 1 .. n : worlds'[i] = worlds[i]
  <2> HIDE DEF n
  <2>1. worlds' \in Seq(Snapshot)
    BY <1>3, <1>6
  <2> QED
    BY <1>2, <1>3, <1>6, <2>1, AppendedIsLonger
<1>8. plan' = plan
  BY <1>3 DEF Plan
<1>9. event.resolver \in Resolvers /\ event.pull \in PullRange
  BY DEF WakeInv, ReadsInv
<1>10. ReadsInv'
  <2>1. ASSUME NEW i \in 1 .. n + 1, NEW w, w = worlds'[i], NEW object, object = plan[i]
        PROVE  reads'[i] = Answer(w, object)'
    <3>1. object = "archive" => reads'[4] = reads[4]
      <4>1. ASSUME object = "archive" PROVE i > 4
        <5>1. i \in 1 .. Len(plan)
          <6> HIDE DEF n, plan
          <6> QED
            BY <1>2
        <5> QED
          BY <1>9, <2>1, <4>1, <5>1, PlansFit
      <4>2. i > 4 => 4 \in 1 .. n
        <5> HIDE DEF n
        <5> QED
          BY <1>2
      <4> QED
        BY <1>5, <4>1, <4>2
    <3>2. Answer(w, object)' = Answer(w, object)
      BY <1>3, <3>1, AnswerStays
    <3>3. CASE i \in 1 .. n
      <4>1. reads[i] = Answer(worlds[i], plan[i])
        BY <3>3 DEF WakeInv, ReadsInv
      <4> QED
        BY <1>5, <1>7, <2>1, <3>2, <3>3, <4>1
    <3>4. CASE i = n + 1
      <4>1. Object = object
        BY <2>1, <3>4 DEF Object
      <4>2. w = world
        BY <1>7, <2>1, <3>4
      <4> QED
        BY <1>4, <1>5, <3>2, <3>4, <4>1, <4>2
    <3>5. i \in 1 .. n \/ i = n + 1
      <4> HIDE DEF n
      <4> QED
        BY <1>2
    <3> QED
      BY <3>3, <3>4, <3>5
  <2>2. n + 1 <= Len(plan)
    <3> HIDE DEF n, plan
    <3> QED
      BY <1>2
  <2>3. \E T : reads' \in Seq(T)
    BY <1>5
  <2> HIDE DEF n
  <2> QED
    BY <1>3, <1>5, <1>7, <1>8, <1>9, <2>1, <2>2, <2>3 DEF ReadsInv
<1>11. WorldsInv'
  <2> HIDE DEF n
  <2>1. ASSUME NEW i \in 1 .. n + 1 PROVE Later(worlds'[i], world)
    <3>1. CASE i \in 1 .. n
      BY <1>2, <1>7, <3>1 DEF WakeInv, WorldsInv
    <3>2. CASE i = n + 1
      BY <1>6, <1>7, <3>2, LaterIsAnOrder
    <3> QED
      BY <1>2, <3>1, <3>2
  <2>2. ASSUME NEW i \in 1 .. n + 1, NEW j \in 1 .. n + 1, i <= j PROVE Later(worlds'[i], worlds'[j])
    <3>1. CASE j \in 1 .. n
      <4>1. i \in 1 .. n
        BY <1>2, <2>2, <3>1
      <4> QED
        BY <1>2, <1>7, <2>2, <3>1, <4>1 DEF WakeInv, WorldsInv
    <3>2. CASE j = n + 1
      BY <1>7, <2>1, <3>2
    <3> QED
      BY <1>2, <3>1, <3>2
  <2> QED
    BY <1>3, <1>6, <1>7, <2>1, <2>2 DEF WorldsInv, Later, Alike
<1>12. ASSUME NEW m \in 1 .. n PROVE Accepted(m)' <=> Accepted(m)
  <2>1. m \in Nat \ {0} /\ \A i \in 1 .. m : i \in 1 .. n
    <3> HIDE DEF n
    <3> QED
      BY <1>2
  <2>2. \A i \in 1 .. m : reads'[i] = reads[i]
    BY <1>5, <2>1
  <2> QED
    BY <1>3, <2>1, <2>2, AcceptedStays
<1>13. JudgedInv'
  <2>1. ASSUME NEW m \in 1 .. n PROVE Accepted(m)
    <3>1. m < n \/ m = n
      <4> HIDE DEF n
      <4> QED
        BY <1>2
    <3>2. Accepted(n)
      BY DEF AskProvider, MayAsk
    <3>3. m < n => Accepted(m)
      BY DEF WakeInv, JudgedInv
    <3> QED
      BY <3>1, <3>2, <3>3
  <2>2. ASSUME NEW m \in 1 .. n + 1, m < n + 1 PROVE m \in 1 .. n
    <3> HIDE DEF n
    <3> QED
      BY <1>2, <2>2
  <2> HIDE DEF n
  <2> QED
    BY <1>5, <1>12, <2>1, <2>2 DEF JudgedInv
<1>14. ResolvedInv'
  <2>1. result.status = "reading"
    BY DEF AskProvider, MayAsk, Reading
  <2> QED
    BY <1>3, <2>1 DEF WakeInv, ResolvedInv
<1> QED
  BY <1>10, <1>11, <1>13, <1>14 DEF WakeInv


(* A resolver that stops or is done reads no more.                         *)
LEMMA EndKeeps ==
  ASSUME WakeInv, Reject \/ GiveUp \/ Resolve \/ UNCHANGED wakeVars
  PROVE  WakeInv'
<1>1. UNCHANGED <<world, event, reads, worlds>>
  BY DEF Reject, GiveUp, Resolve, Stop, wakeVars
<1>2. ReadsInv'
  <2>1. ASSUME NEW w, NEW object PROVE Answer(w, object)' = Answer(w, object)
    BY <1>1, AnswerStays
  <2>2. Plan(event.resolver)' = Plan(event.resolver)
    BY <1>1 DEF Plan
  <2> QED
    BY <1>1, <2>1, <2>2 DEF WakeInv, ReadsInv
<1>3. WorldsInv'
  BY <1>1 DEF WakeInv, WorldsInv, Later, Alike
<1>4. ASSUME NEW n \in 1 .. Len(reads) PROVE Accepted(n)' <=> Accepted(n)
  <2>1. Len(reads) \in Nat
    BY DEF WakeInv, ReadsInv
  <2>2. n \in Nat \ {0}
    BY <2>1
  <2> QED
    BY <1>1, <2>2, AcceptedStays
<1>5. JudgedInv'
  BY <1>1, <1>4 DEF WakeInv, JudgedInv
<1>6. Locators' = Locators
  BY <1>1 DEF Locators
<1>7. Plan(event.resolver)' = Plan(event.resolver)
  BY <1>1 DEF Plan
<1>8. ResolvedInv'
  <2>1. CASE Reject \/ GiveUp
    <3>1. PICK status \in {"rejected", "schedule-pagination-incomplete", "resolver-unstable", "refused"} :
            result' = [result EXCEPT !.status = status]
      BY <2>1 DEF Reject, GiveUp, Stop
    <3>2. result' = [status |-> status, locators |-> result.locators]
      BY <3>1 DEF WakeInv, ResolvedInv
    <3> QED
      BY <3>2 DEF ResolvedInv
  <2>2. CASE Resolve
    <3>1. result' = [status |-> "resolved", locators |-> Locators]
      BY <2>2 DEF Resolve
    <3>2. Len(reads) = Len(Plan(event.resolver)) /\ Accepted(Len(reads)) /\ Len(reads) \in Nat
      BY <2>2 DEF Resolve, WakeInv, ReadsInv
    <3>3. ASSUME NEW n \in 1 .. Len(reads) PROVE Accepted(n)
      <4>1. n < Len(reads) \/ n = Len(reads)
        BY <3>2
      <4>2. n < Len(reads) => Accepted(n)
        BY DEF WakeInv, JudgedInv
      <4> QED
        BY <3>2, <4>1, <4>2
    <3> QED
      BY <1>1, <1>4, <1>6, <1>7, <3>1, <3>2, <3>3 DEF ResolvedInv
  <2>3. CASE UNCHANGED wakeVars
    <3>1. result' = result
      BY <2>3 DEF wakeVars
    <3> QED
      BY <1>1, <1>4, <1>6, <1>7, <3>1 DEF WakeInv, ResolvedInv
  <2> QED
    BY <2>1, <2>2, <2>3
<1> QED
  BY <1>2, <1>3, <1>5, <1>8 DEF WakeInv

LEMMA WakeNextKeeps == WakeInv /\ [WakeNext]_wakeVars => WakeInv'
<1> SUFFICES ASSUME WakeInv, [WakeNext]_wakeVars PROVE WakeInv'
  OBVIOUS
<1>1. CASE Close \/ Open \/ EditPull \/ RunAgain
  BY <1>1, RepositoryKeeps
<1>2. CASE AskProvider
  BY <1>2, AskProviderKeeps
<1>3. CASE Reject \/ GiveUp \/ Resolve \/ UNCHANGED wakeVars
  BY <1>3, EndKeeps
<1> QED
  BY <1>1, <1>2, <1>3 DEF WakeNext

(* The items of alike reads name the items of one instant.                 *)
LEMMA SchedulesReachTheirIssues ==
  ASSUME WakeInv, result.status = "resolved", event.resolver = "schedule"
  PROVE  Locators = (Issues \cap worlds[2].open \cap worlds[3].open)
           \cup {worlds[7].link[p] : p \in PullRange \cap worlds[6].open \cap worlds[7].open}
<1>1. Len(reads) = 8 /\ Len(worlds) = 8
  BY DEF WakeInv, ResolvedInv, ReadsInv, Plan
<1>2. \A n \in 1 .. 8 : Accepted(n) /\ worlds[n] \in Snapshot
  <2>1. \A n \in 1 .. 8 : Accepted(n)
    BY <1>1 DEF WakeInv, ResolvedInv
  <2>2. worlds \in Seq(Snapshot)
    BY DEF WakeInv, WorldsInv
  <2>3. \A n \in 1 .. Len(worlds) : worlds[n] \in Snapshot
    BY <2>2
  <2> QED
    BY <1>1, <2>1, <2>3
<1>3. \A i, j \in 1 .. 8 : i <= j => Later(worlds[i], worlds[j])
  BY <1>1 DEF WakeInv, WorldsInv
<1>4. \A i \in 1 .. 8 : reads[i] = Answer(worlds[i], Plan("schedule")[i])
  BY <1>1 DEF WakeInv, ReadsInv
<1>5. /\ reads[1] = Answer(worlds[1], "issues") /\ reads[2] = Answer(worlds[2], "moreIssues")
      /\ reads[3] = Answer(worlds[3], "issues") /\ reads[4] = Answer(worlds[4], "moreIssues")
      /\ reads[5] = Answer(worlds[5], "pulls") /\ reads[6] = Answer(worlds[6], "morePulls")
      /\ reads[7] = Answer(worlds[7], "pulls") /\ reads[8] = Answer(worlds[8], "morePulls")
  BY <1>4 DEF Plan
<1>6. /\ reads[1] = FirstPage(Items(worlds[1], Numbers)) /\ reads[2] = SecondPage(Items(worlds[2], Numbers))
      /\ reads[3] = FirstPage(Items(worlds[3], Numbers)) /\ reads[4] = SecondPage(Items(worlds[4], Numbers))
  BY <1>5 DEF Answer
<1>7. /\ reads[5] = FirstPage(Items(worlds[5], PullRange)) /\ reads[6] = SecondPage(Items(worlds[6], PullRange))
      /\ reads[7] = FirstPage(Items(worlds[7], PullRange)) /\ reads[8] = SecondPage(Items(worlds[8], PullRange))
  BY <1>5 DEF Answer
<1>8. /\ Flat(reads[1], reads[2]) = Flat(reads[3], reads[4])
      /\ Flat(reads[5], reads[6]) = Flat(reads[7], reads[8])
  <2>1. Accepted(4) /\ Accepted(8)
    BY <1>2
  <2> QED
    BY <2>1 DEF Accepted, ReadTwiceAlike
<1>9. Cardinality(reads[2]) # PageSize /\ Cardinality(reads[6]) # PageSize
  <2>1. Accepted(2) /\ Accepted(6)
    BY <1>2
  <2> QED
    BY <2>1 DEF Accepted, Incomplete
<1>10. reads[3] \cup reads[4] = {Item(worlds[3], n) : n \in worlds[2].open \cap worlds[3].open \cap Numbers}
  <2>1. PICK a \in Snapshot, b \in Snapshot, c \in Snapshot, d \in Snapshot :
          a = worlds[1] /\ b = worlds[2] /\ c = worlds[3] /\ d = worlds[4]
    BY <1>2
  <2>2. Later(a, b) /\ Later(b, c) /\ Later(c, d)
    BY <1>3, <2>1
  <2>3. FirstPage(Items(c, Numbers)) \cup SecondPage(Items(d, Numbers))
          = {Item(c, n) : n \in b.open \cap c.open \cap Numbers}
    BY <1>6, <1>8, <1>9, <2>1, <2>2, TwoReadsAgree
  <2> QED
    BY <1>6, <2>1, <2>3
<1>11. reads[7] \cup reads[8] = {Item(worlds[7], n) : n \in worlds[6].open \cap worlds[7].open \cap PullRange}
  <2>1. PICK a \in Snapshot, b \in Snapshot, c \in Snapshot, d \in Snapshot :
          a = worlds[5] /\ b = worlds[6] /\ c = worlds[7] /\ d = worlds[8]
    BY <1>2
  <2>2. Later(a, b) /\ Later(b, c) /\ Later(c, d)
    BY <1>3, <2>1
  <2>3. FirstPage(Items(c, PullRange)) \cup SecondPage(Items(d, PullRange))
          = {Item(c, n) : n \in b.open \cap c.open \cap PullRange}
    <3>1. PullRange \in SUBSET Numbers
      BY DEF Numbers
    <3> QED
      BY <1>7, <1>8, <1>9, <2>1, <2>2, <3>1, TwoReadsAgree
  <2> QED
    BY <1>7, <2>1, <2>3
<1>12. {item.number : item \in {i \in reads[3] \cup reads[4] : i.number \notin PullRange}}
         = Issues \cap worlds[2].open \cap worlds[3].open
  <2>1. \A n : Item(worlds[3], n).number = n
    BY DEF Item
  <2>2. Issues \cap PullRange = {}
    BY WakeAssumption
  <2> QED
    BY <1>10, <2>1, <2>2 DEF Numbers
<1>13. Named(reads[7], reads[8])
         = {worlds[7].link[p] : p \in PullRange \cap worlds[6].open \cap worlds[7].open}
  <2>1. \A p \in PullRange : Item(worlds[7], p).issue = worlds[7].link[p]
    BY DEF Item
  <2> QED
    BY <1>11, <2>1 DEF Named
<1> QED
  BY <1>12, <1>13 DEF Locators

(* A direct wake-up names what its last read showed, and what it was       *)
(* checked against was read alike before.                                  *)
LEMMA EventsReachTheirIssues ==
  ASSUME WakeInv, result.status = "resolved"
  PROVE  /\ event.resolver = "issue" => Locators = {event.issue}
         /\ event.resolver = "pullRequest" => Locators = {worlds[2].link[event.pull]}
         /\ event.resolver = "evidence" =>
              Locators = {worlds[4].link[event.pull]} /\ worlds[2].run.attempt = event.attempt
<1>1. event.pull \in PullRange /\ \A w : Item(w, event.pull).issue = w.link[event.pull]
  BY DEF WakeInv, ReadsInv, Item
<1>2. event.resolver = "issue" => Locators = {event.issue}
  BY DEF Locators
<1>3. ASSUME event.resolver = "pullRequest" PROVE Locators = {worlds[2].link[event.pull]}
  <2>1. Len(reads) = 2
    BY <1>3 DEF WakeInv, ResolvedInv, Plan
  <2>2. reads[2] = Answer(worlds[2], "pull")
    BY <1>3, <2>1 DEF WakeInv, ReadsInv, Plan
  <2> QED
    BY <1>1, <1>3, <2>2 DEF Locators, Answer
<1>4. ASSUME event.resolver = "evidence"
      PROVE  Locators = {worlds[4].link[event.pull]} /\ worlds[2].run.attempt = event.attempt
  <2>1. Len(reads) = 4 /\ Accepted(2)
    <3>1. Len(reads) = 4
      BY <1>4 DEF WakeInv, ResolvedInv, Plan
    <3>2. \A n \in 1 .. Len(reads) : Accepted(n)
      BY DEF WakeInv, ResolvedInv
    <3> QED
      BY <3>1, <3>2
  <2>2. reads[2] = Answer(worlds[2], "run") /\ reads[4] = Answer(worlds[4], "pull")
    BY <1>4, <2>1 DEF WakeInv, ReadsInv, Plan
  <2>3. reads[2] = event.attempt
    BY <1>4, <2>1 DEF Accepted, Refused, EvidenceRefused
  <2> QED
    BY <1>1, <1>4, <2>2, <2>3 DEF Locators, Answer
<1> QED
  BY <1>2, <1>3, <1>4

LEMMA ArtifactsNameTheirIssue ==
  ASSUME WakeInv, result.status = "resolved", event.resolver = "governance"
  PROVE  \E artifact \in worlds[4].run.artifacts :
           Locators = {artifact.issue} /\ artifact.attempt = worlds[2].run.attempt
<1>1. Len(reads) = 6 /\ Len(worlds) = 6 /\ Accepted(4) /\ Accepted(6)
  BY DEF WakeInv, ResolvedInv, ReadsInv, Plan
<1>2. /\ reads[2] = Answer(worlds[2], "run") /\ reads[4] = Answer(worlds[4], "artifacts")
      /\ reads[6] = Answer(worlds[6], "archive")
  BY <1>1 DEF WakeInv, ReadsInv, Plan
<1>3. reads[2] = worlds[2].run.attempt /\ reads[4] = worlds[4].run.artifacts /\ reads[6] = reads[4]
  BY <1>2 DEF Answer
<1>4. Cardinality(reads[4]) = 1 /\ \A artifact \in reads[6] : artifact.attempt = reads[2]
  BY <1>1 DEF Accepted, Refused, GovernanceRefused
<1>5. IsFiniteSet(reads[4])
  <2>1. worlds[4] \in Snapshot
    <3>1. worlds \in Seq(Snapshot)
      BY DEF WakeInv, WorldsInv
    <3>2. \A i \in 1 .. Len(worlds) : worlds[i] \in Snapshot
      BY <3>1
    <3> QED
      BY <1>1, <3>2
  <2> QED
    BY <1>3, <2>1 DEF Snapshot, Artifacts
<1>6. PICK artifact : reads[4] = {artifact}
  BY <1>4, <1>5, FS_Singleton
<1>7. Locators = {artifact.issue}
  BY <1>3, <1>6 DEF Locators
<1> QED
  BY <1>3, <1>4, <1>6, <1>7


(* Every wake-up reaches the issues of one instant of each of its reads,   *)
(* for any number of issues and pull requests, any size of a page and      *)
(* whatever opens, closes, is edited or runs again while a resolver reads  *)
(* (resolveLifecycleWakeup).                                               *)
THEOREM WakeupsReach == WakeSpec => []WakeupsReachTheirIssues
<1>1. WakeInv => WakeupsReachTheirIssues
  <2> SUFFICES ASSUME WakeInv PROVE WakeupsReachTheirIssues
    OBVIOUS
  <2>1. result.status # "resolver-request-budget"
    BY DEF WakeInv, ResolvedInv
  <2>2. ASSUME result.status = "resolved" PROVE result.locators = Locators
    BY <2>2 DEF WakeInv, ResolvedInv
  <2> QED
    BY <2>1, <2>2, EventsReachTheirIssues, ArtifactsNameTheirIssue, SchedulesReachTheirIssues
       DEF WakeupsReachTheirIssues
<1> QED
  BY <1>1, WakeInitEstablishes, WakeNextKeeps, PTL DEF WakeSpec

-----------------------------------------------------------------------------
(* Contract chains.  A valid chain and a complete history have the same    *)
(* order of contracts (InOrder), shown from the links for the one and from *)
(* the places of the entries for the other; the rest of each follows from  *)
(* the other and from the order.                                           *)

ChainBinding == [path : Paths, digest : Paths]
Contract ==
  [path : Paths, digest : Paths, supersedes : {NoBinding} \cup ChainBinding, recoveries : SUBSET ChainBinding]

ChainTypeOK ==
  /\ contracts \in SUBSET Contract /\ IsFiniteSet(contracts)
  /\ quarantined \in SUBSET ChainBinding /\ IsFiniteSet(quarantined)

(* The contracts and attempts are finitely many, and of their types.       *)
LEMMA ChainTypeCorrect == ChainSpec => []ChainTypeOK
<1>1. ChainInit => ChainTypeOK
  BY FS_EmptySet DEF ChainInit, ChainTypeOK
<1>2. ChainTypeOK /\ [ChainNext]_chainVars => ChainTypeOK'
  <2> SUFFICES ASSUME ChainTypeOK, [ChainNext]_chainVars PROVE ChainTypeOK'
    OBVIOUS
  <2>1. ASSUME NEW where \in Paths, NEW digest \in Digests(where) PROVE digest \in Paths
    BY <2>1 DEF Digests, ChainTypeOK, Contract, ChainBinding
  <2>2. CASE PublishContract
    <3>0. PICK where \in Paths, recovered \in SUBSET {BindingOf(attempt) : attempt \in quarantined},
               supersedes \in {NoBinding} \cup {BindingOf(node) : node \in contracts} :
            \E digest \in Digests(where) :
            contracts' = contracts \cup {[path |-> where, digest |-> digest, supersedes |-> supersedes,
                                          recoveries |-> recovered]}
      BY <2>2 DEF PublishContract
    <3>1. PICK digest \in Digests(where) :
            contracts' = contracts \cup {[path |-> where, digest |-> digest, supersedes |-> supersedes,
                                          recoveries |-> recovered]}
      BY <3>0
    <3>2. \A node \in contracts \cup quarantined : BindingOf(node) \in ChainBinding
      BY DEF ChainTypeOK, Contract, ChainBinding, BindingOf
    <3>3. supersedes \in {NoBinding} \cup ChainBinding /\ recovered \in SUBSET ChainBinding
      BY <3>2
    <3>4. PICK new : new = [path |-> where, digest |-> digest, supersedes |-> supersedes,
                            recoveries |-> recovered]
      OBVIOUS
    <3>5. new \in Contract
      BY <2>1, <3>3, <3>4 DEF Contract
    <3>6. contracts' = contracts \cup {new} /\ quarantined' = quarantined
      BY <2>2, <3>1, <3>4 DEF PublishContract
    <3> QED
      BY <3>5, <3>6, FS_AddElement DEF ChainTypeOK
  <2>3. CASE QuarantineContract
    <3>0. PICK where \in Paths :
            \E digest \in Digests(where) :
              quarantined' = quarantined \cup {[path |-> where, digest |-> digest]}
      BY <2>3 DEF QuarantineContract
    <3>1. PICK digest \in Digests(where) :
            quarantined' = quarantined \cup {[path |-> where, digest |-> digest]}
      BY <3>0
    <3>2. PICK new : new = [path |-> where, digest |-> digest]
      OBVIOUS
    <3>3. new \in ChainBinding
      BY <2>1, <3>2 DEF ChainBinding
    <3>4. quarantined' = quarantined \cup {new} /\ contracts' = contracts
      BY <2>3, <3>1, <3>2 DEF QuarantineContract
    <3> QED
      BY <3>3, <3>4, FS_AddElement DEF ChainTypeOK
  <2>4. CASE UNCHANGED chainVars
    BY <2>4 DEF ChainTypeOK, chainVars
  <2> QED
    BY <2>2, <2>3, <2>4 DEF ChainNext
<1> QED
  BY <1>1, <1>2, PTL DEF ChainSpec

(* Places of paths.                                                        *)
LEMMA PathsAreOrdered ==
  /\ \A p \in Paths : p.version \in Nat \ {0} /\ p.revision \in Nat \ {0} /\ ~Before(p, p)
  /\ \A p, q \in Paths :
       /\ Before(p, q) => ~Before(q, p) /\ p # q
       /\ ~Before(p, q) /\ ~Before(q, p) => p.version = q.version /\ p.revision = q.revision
       /\ p.version = q.version /\ p.revision = q.revision /\ p.type = q.type => p = q
  /\ \A p, q, r \in Paths : Before(p, q) /\ Before(q, r) => Before(p, r)
<1>1. \A p \in Paths : p.version \in Nat \ {0} /\ p.revision \in Nat \ {0}
  BY ChainAssumption
<1>2. \A p, q \in Paths :
        p.version = q.version /\ p.revision = q.revision /\ p.type = q.type => p = q
  BY ChainAssumption
<1> QED
  BY <1>1, <1>2 DEF Before

(* A finite set of numbers has a least and a greatest element.             *)
LEMMA LeastOf ==
  ASSUME NEW S \in SUBSET Nat, S # {}
  PROVE  \E x \in S : \A y \in S : x <= y
<1>1. PICK x \in S : \A y \in S : ~ (<<y, x>> \in OpToRel(<, Nat))
  BY NatLessThanWellFounded, WFMin, Zenon
<1>2. ASSUME NEW y \in S PROVE x <= y
  <2>1. x \in Nat /\ y \in Nat
    OBVIOUS
  <2>2. ASSUME y < x PROVE <<y, x>> \in OpToRel(<, Nat)
    BY <2>1, <2>2, Zenon DEF OpToRel
  <2>3. ~ (<<y, x>> \in OpToRel(<, Nat))
    BY <1>1, Zenon
  <2>4. ~ (y < x)
    BY <2>2, <2>3, Zenon
  <2> QED
    BY <2>1, <2>4
<1> QED
  BY <1>2

LEMMA GreatestOf ==
  ASSUME NEW S \in SUBSET Nat, IsFiniteSet(S), S # {}
  PROVE  \E x \in S : \A y \in S : y <= x
<1> DEFINE list == {[number |-> n] : n \in S}
           f == [n \in S |-> [number |-> n]]
<1>1. \A x \in list : x.number \in S /\ x = [number |-> x.number]
  OBVIOUS
<1>2. f \in Surjection(S, list)
  <2>1. f \in [S -> list] /\ \A x \in list : \E n \in S : f[n] = x
    OBVIOUS
  <2> HIDE DEF f, list
  <2> QED
    BY <2>1 DEF Surjection
<1>3. IsFiniteSet(list) /\ list # {}
  <2>1. list # {}
    OBVIOUS
  <2> HIDE DEF f, list
  <2> QED
    BY <1>2, <2>1, FS_Surjection
<1>4. \A n \in S : [number |-> n] \in list /\ [number |-> n].number = n
  OBVIOUS
<1> HIDE DEF f, list
<1>5. Listed(list)
  BY <1>1, <1>3 DEF Listed
<1>6. Cardinality(list) \in Nat /\ Cardinality(list) # 0
  BY <1>3, FS_CardinalityType, FS_EmptySet
<1>7. 0 < Cardinality(list)
  BY <1>6
<1>8. PICK x \in list : Place(x, list) = 0
  BY <1>5, <1>7, PlacesAreTaken
<1>9. ASSUME NEW y \in S PROVE y <= x.number
  <2>1. PICK other \in list : other = [number |-> y] /\ other.number = y
    BY <1>4
  <2>2. ~(other.number > x.number)
    <3>1. other.number > x.number => Place(other, list) < Place(x, list)
      BY <1>5, PlacesAreOrdered
    <3>2. Place(other, list) \in Nat
      BY <1>5, PlacesAreOrdered
    <3> QED
      BY <1>8, <3>1, <3>2
  <2>3. x.number \in Nat /\ y \in Nat
    BY <1>1
  <2> QED
    BY <2>1, <2>2, <2>3
<1> QED
  BY <1>1, <1>9

(* Of contracts, attempts or entries of a history, one is the first and,   *)
(* if they are finitely many, one is the last.                             *)
Dated(set) == \A x \in set : x.path \in Paths

LEMMA FirstEntry ==
  ASSUME NEW S, Dated(S), S # {}
  PROVE  \E x \in S : \A y \in S : ~Before(y.path, x.path)
<1> DEFINE versions == {x.path.version : x \in S}
<1>1. versions \in SUBSET Nat /\ versions # {}
  BY PathsAreOrdered DEF Dated
<1>2. PICK v \in versions : \A w \in versions : v <= w
  <2> HIDE DEF versions
  <2> QED
    BY <1>1, LeastOf
<1> DEFINE first == {x \in S : x.path.version = v}
           revisions == {x.path.revision : x \in first}
<1>3. revisions \in SUBSET Nat /\ revisions # {}
  <2>1. \A x \in S : x.path.revision \in Nat
    BY PathsAreOrdered DEF Dated
  <2>2. PICK x \in S : x.path.version = v
    BY <1>2
  <2> QED
    BY <2>1, <2>2
<1>4. PICK r \in revisions : \A s \in revisions : r <= s
  <2> HIDE DEF revisions
  <2> QED
    BY <1>3, LeastOf
<1>5. PICK x \in first : x.path.revision = r
  BY <1>4
<1>6. ASSUME NEW y \in S PROVE ~Before(y.path, x.path)
  <2>1. x.path.version = v /\ v <= y.path.version
    BY <1>2, <1>5
  <2>2. y.path.version = v => r <= y.path.revision
    BY <1>4
  <2>3. /\ x.path.version \in Nat /\ x.path.revision \in Nat
        /\ y.path.version \in Nat /\ y.path.revision \in Nat
    BY <1>5, PathsAreOrdered DEF Dated
  <2> QED
    BY <1>5, <2>1, <2>2, <2>3 DEF Before
<1> QED
  BY <1>5, <1>6

LEMMA LastEntry ==
  ASSUME NEW S, Dated(S), S # {}, IsFiniteSet(S)
  PROVE  \E x \in S : \A y \in S : ~Before(x.path, y.path)
<1> DEFINE versions == {x.path.version : x \in S}
           f == [x \in S |-> x.path.version]
<1>1. /\ versions \in SUBSET Nat /\ versions # {}
      /\ f \in [S -> versions] /\ \A v \in versions : \E x \in S : f[x] = v
  BY PathsAreOrdered DEF Dated
<1>2. PICK v \in versions : \A w \in versions : w <= v
  <2> HIDE DEF versions, f
  <2>1. f \in Surjection(S, versions)
    BY <1>1 DEF Surjection
  <2> QED
    BY <1>1, <2>1, FS_Surjection, GreatestOf
<1> DEFINE last == {x \in S : x.path.version = v}
           revisions == {x.path.revision : x \in last}
           g == [x \in last |-> x.path.revision]
<1>3. /\ revisions \in SUBSET Nat /\ revisions # {}
      /\ g \in [last -> revisions] /\ \A r \in revisions : \E x \in last : g[x] = r
  BY <1>2, PathsAreOrdered DEF Dated
<1>4. PICK r \in revisions : \A s \in revisions : s <= r
  <2>1. last \in SUBSET S
    OBVIOUS
  <2> HIDE DEF revisions, last, g
  <2>2. IsFiniteSet(last)
    BY <2>1, FS_Subset
  <2>3. g \in Surjection(last, revisions)
    BY <1>3 DEF Surjection
  <2> QED
    BY <1>3, <2>2, <2>3, FS_Surjection, GreatestOf
<1>5. PICK x \in last : x.path.revision = r
  BY <1>4
<1>6. ASSUME NEW y \in S PROVE ~Before(x.path, y.path)
  <2>1. x.path.version = v /\ y.path.version <= v
    BY <1>2, <1>5
  <2>2. y.path.version = v => y.path.revision <= r
    BY <1>4
  <2>3. /\ x.path.version \in Nat /\ x.path.revision \in Nat
        /\ y.path.version \in Nat /\ y.path.revision \in Nat
    BY <1>5, PathsAreOrdered DEF Dated
  <2> QED
    BY <1>5, <2>1, <2>2, <2>3 DEF Before
<1> QED
  BY <1>5, <1>6

(* The parts of contracts, attempts and entries.                           *)
LEMMA NodeFacts ==
  ASSUME ChainTypeOK
  PROVE  /\ \A n \in contracts :
              /\ n.path \in Paths /\ n.digest \in Paths
              /\ n.supersedes \in {NoBinding} \cup ChainBinding /\ n.recoveries \subseteq ChainBinding
              /\ BindingOf(n) \in ChainBinding /\ BindingOf(n) \in Published
              /\ BindingOf(n).path = n.path /\ BindingOf(n).digest = n.digest
         /\ \A q \in quarantined : q \in ChainBinding /\ BindingOf(q) = q
         /\ \A b \in ChainBinding :
              /\ b.path \in Paths /\ b.digest \in Paths /\ b # NoBinding
              /\ \A c \in ChainBinding : b.path = c.path /\ b.digest = c.digest => b = c
         /\ \A e \in Published : e \in ChainBinding /\ \E n \in contracts : e = BindingOf(n)
         /\ Attempted = quarantined /\ History = Published \cup quarantined
         /\ \A e \in History : e \in ChainBinding
<1>1. \A n \in contracts :
        /\ n.path \in Paths /\ n.digest \in Paths
        /\ n.supersedes \in {NoBinding} \cup ChainBinding /\ n.recoveries \subseteq ChainBinding
  BY DEF ChainTypeOK, Contract
<1>2. \A n \in contracts :
        /\ BindingOf(n) \in ChainBinding /\ BindingOf(n) \in Published
        /\ BindingOf(n).path = n.path /\ BindingOf(n).digest = n.digest
  BY <1>1 DEF BindingOf, ChainBinding, Published
<1>3. \A q \in quarantined : q \in ChainBinding /\ BindingOf(q) = q
  BY DEF ChainTypeOK, ChainBinding, BindingOf
<1>4. ASSUME NEW b \in ChainBinding
      PROVE  /\ b.path \in Paths /\ b.digest \in Paths /\ b # NoBinding
             /\ \A c \in ChainBinding : b.path = c.path /\ b.digest = c.digest => b = c
  <2>1. b.path \in Paths /\ b.digest \in Paths
    BY DEF ChainBinding
  <2>2. b # NoBinding
    <3>1. DOMAIN b = {"path", "digest"} /\ DOMAIN NoBinding = {"digest"}
      BY DEF ChainBinding, NoBinding
    <3> QED
      BY <3>1
  <2>3. \A c \in ChainBinding : b.path = c.path /\ b.digest = c.digest => b = c
    BY DEF ChainBinding
  <2> QED
    BY <2>1, <2>2, <2>3
<1>5. \A e \in Published : e \in ChainBinding /\ \E n \in contracts : e = BindingOf(n)
  BY <1>2 DEF Published
<1>6. Attempted = quarantined
  BY <1>3 DEF Attempted
<1> QED
  BY <1>1, <1>2, <1>3, <1>4, <1>5, <1>6 DEF History

(* A history is finite, as is whatever is taken from it.                   *)
LEMMA EntriesAreFinite ==
  ASSUME ChainTypeOK
  PROVE  /\ IsFiniteSet(Published) /\ IsFiniteSet(History)
         /\ \A S : S \in SUBSET History \/ S \in SUBSET contracts => IsFiniteSet(S) /\ Dated(S)
<1> DEFINE f == [n \in contracts |-> BindingOf(n)]
<1>1. f \in [contracts -> Published] /\ \A e \in Published : \E n \in contracts : f[n] = e
  BY DEF Published
<1>2. IsFiniteSet(Published)
  <2> HIDE DEF f
  <2>1. f \in Surjection(contracts, Published)
    BY <1>1 DEF Surjection
  <2> QED
    BY <2>1, FS_Surjection DEF ChainTypeOK
<1>3. IsFiniteSet(History)
  <2>1. History = Published \cup quarantined
    BY NodeFacts
  <2>2. IsFiniteSet(quarantined)
    BY DEF ChainTypeOK
  <2> QED
    BY <1>2, <2>1, <2>2, FS_Union
<1>4. ASSUME NEW S, S \in SUBSET History \/ S \in SUBSET contracts PROVE IsFiniteSet(S) /\ Dated(S)
  <2>1. IsFiniteSet(contracts)
    BY DEF ChainTypeOK
  <2>2. IsFiniteSet(S)
    BY <1>3, <1>4, <2>1, FS_Subset
  <2>3. \A x \in S : x.path \in Paths
    BY <1>4, NodeFacts
  <2> QED
    BY <2>2, <2>3 DEF Dated
<1> QED
  BY <1>2, <1>3, <1>4

(* What a set with one entry for each revision counts.                     *)
RevisionsOf(set) == {x.path.revision : x \in set}
OneEach(set) ==
  IsFiniteSet(set) /\ Dated(set) /\ \A x, y \in set : x.path.revision = y.path.revision => x = y

LEMMA RevisionsCount ==
  ASSUME NEW S, OneEach(S)
  PROVE  /\ IsFiniteSet(RevisionsOf(S)) /\ Cardinality(RevisionsOf(S)) = Cardinality(S)
         /\ Cardinality(S) \in Nat /\ RevisionsOf(S) \subseteq Nat \ {0}
<1> DEFINE f == [x \in S |-> x.path.revision]
           R == RevisionsOf(S)
<1>1. /\ f \in [S -> R] /\ \A r \in R : \E x \in S : f[x] = r
      /\ \A x, y \in S : f[x] = f[y] => x = y
  BY DEF RevisionsOf, OneEach
<1>2. R \subseteq Nat \ {0}
  BY PathsAreOrdered DEF RevisionsOf, OneEach, Dated
<1>3. IsFiniteSet(R) /\ Cardinality(R) = Cardinality(S)
  <2> HIDE DEF f, R
  <2>1. f \in Surjection(S, R) /\ f \in Injection(S, R)
    BY <1>1 DEF Surjection, Injection, IsInjective
  <2> QED
    BY <2>1, FS_Surjection DEF OneEach
<1> QED
  BY <1>2, <1>3, FS_CardinalityType DEF OneEach

(* Revisions within bounds fill them just when there are as many.          *)
LEMMA RevisionsFill ==
  ASSUME NEW S, OneEach(S), NEW a \in Nat, NEW b \in Nat, a <= b, RevisionsOf(S) \subseteq a .. b - 1
  PROVE  /\ Cardinality(S) <= b - a
         /\ Cardinality(S) = b - a <=> RevisionsOf(S) = a .. b - 1
<1>1. IsFiniteSet(a .. b - 1) /\ Cardinality(a .. b - 1) = b - a
  <2>1. a \in Int /\ b - 1 \in Int
    OBVIOUS
  <2>2. IsFiniteSet(a .. b - 1) /\ Cardinality(a .. b - 1) = IF a > b - 1 THEN 0 ELSE (b - 1) - a + 1
    BY <2>1, FS_Interval
  <2> QED
    BY <2>2
<1>2. /\ Cardinality(RevisionsOf(S)) <= Cardinality(a .. b - 1)
      /\ Cardinality(a .. b - 1) = Cardinality(RevisionsOf(S)) => a .. b - 1 = RevisionsOf(S)
  BY <1>1, FS_Subset
<1> QED
  BY <1>1, <1>2, RevisionsCount

LEMMA RevisionsFrom ==
  ASSUME NEW S, OneEach(S), NEW a \in Nat, NEW b \in Nat, a <= b + 1, RevisionsOf(S) = a .. b
  PROVE  RevisionsOf(S) = a .. a + Cardinality(S) - 1
<1>1. Cardinality(a .. b) = b - a + 1
  BY FS_Interval
<1> QED
  BY <1>1, RevisionsCount

(* Revisions without a gap below them count from one.                      *)
LEMMA RevisionsFromOne ==
  ASSUME NEW S, OneEach(S), \A x \in S : \A k \in 1 .. x.path.revision : k \in RevisionsOf(S)
  PROVE  RevisionsOf(S) = 1 .. Cardinality(S)
<1> DEFINE R == RevisionsOf(S)
<1>1. IsFiniteSet(R) /\ R \subseteq Nat \ {0} /\ Cardinality(R) = Cardinality(S) /\ Cardinality(S) \in Nat
  BY RevisionsCount
<1>2. \A r \in R : \A k \in 1 .. r : k \in R
  BY DEF RevisionsOf
<1>3. CASE R = {}
  BY <1>1, <1>3, FS_EmptySet
<1>4. CASE R # {}
  <2> HIDE DEF R
  <2>1. R \in SUBSET Nat
    BY <1>1
  <2>2. PICK m \in R : \A r \in R : r <= m
    BY <1>1, <1>4, <2>1, GreatestOf
  <2>3. m \in Nat /\ m >= 1
    BY <1>1, <2>2
  <2>4. R = 1 .. m
    <3>1. \A r \in R : r \in 1 .. m
      BY <1>1, <2>2, <2>3
    <3>2. \A k \in 1 .. m : k \in R
      BY <1>2, <2>2
    <3> QED
      BY <3>1, <3>2
  <2>5. Cardinality(1 .. m) = m
    BY <2>3, FS_Interval
  <2>6. R = 1 .. Cardinality(S)
    BY <1>1, <2>4, <2>5
  <2> QED
    BY <2>6 DEF R
<1> QED
  BY <1>3, <1>4

(* A set with at most one element.                                         *)
LEMMA AtMostOne ==
  ASSUME NEW S
  PROVE  /\ (\A x, y \in S : x = y) => IsFiniteSet(S) /\ Cardinality(S) <= 1
         /\ IsFiniteSet(S) /\ Cardinality(S) <= 1 => \A x, y \in S : x = y
<1>1. ASSUME \A x, y \in S : x = y PROVE IsFiniteSet(S) /\ Cardinality(S) <= 1
  <2>1. CASE S = {}
    BY <2>1, FS_EmptySet
  <2>2. CASE S # {}
    <3>1. PICK x \in S : TRUE
      BY <2>2
    <3>2. S = {x}
      BY <1>1, <3>1
    <3>3. IsFiniteSet(S) /\ Cardinality(S) = 1
      BY <3>2, FS_Singleton
    <3> QED
      BY <3>3
  <2> QED
    BY <2>1, <2>2
<1>2. ASSUME IsFiniteSet(S), Cardinality(S) <= 1 PROVE \A x, y \in S : x = y
  <2>1. Cardinality(S) \in Nat
    BY <1>2, FS_CardinalityType
  <2>2. Cardinality(S) = 0 \/ Cardinality(S) = 1
    BY <1>2, <2>1
  <2>3. S = {} \/ \E x : S = {x}
    BY <1>2, <2>2, FS_EmptySet, FS_Singleton
  <2> QED
    BY <2>3
<1> QED
  BY <1>1, <1>2

(* The latest of some entries.                                             *)
LEMMA LatestOf ==
  ASSUME NEW S, Dated(S), IsFiniteSet(S), S # {}
  PROVE  Latest(S) \in S /\ \A o \in S : ~Before(Latest(S).path, o.path)
<1>1. \E e \in S : \A o \in S : ~Before(e.path, o.path)
  BY LastEntry
<1> QED
  BY <1>1 DEF Latest

LEMMA LatestIs ==
  ASSUME NEW S, Dated(S), NEW e \in S, \A o \in S : o = e \/ Before(o.path, e.path)
  PROVE  Latest(S) = e
<1>1. \A o \in S : ~Before(e.path, o.path)
  BY PathsAreOrdered DEF Dated
<1>2. Latest(S) \in S /\ \A o \in S : ~Before(Latest(S).path, o.path)
  BY <1>1 DEF Latest
<1> QED
  BY <1>2

(* A history counts as many entries as there are contracts and attempts    *)
(* just when no two of them are the same entry.                            *)
Distinct ==
  /\ \A a, b \in contracts : BindingOf(a) = BindingOf(b) => a = b
  /\ Published \cap quarantined = {}

LEMMA HistoryCounts ==
  ASSUME ChainTypeOK
  PROVE  Distinct <=> Cardinality(History) = Cardinality(contracts) + Cardinality(quarantined)
<1> DEFINE f == [n \in contracts |-> BindingOf(n)]
<1>1. /\ f \in [contracts -> Published] /\ \A e \in Published : \E n \in contracts : f[n] = e
      /\ \A n \in contracts : f[n] = BindingOf(n)
  BY DEF Published
<1>2. IsFiniteSet(contracts) /\ IsFiniteSet(quarantined) /\ IsFiniteSet(Published)
  BY EntriesAreFinite DEF ChainTypeOK
<1>3. History = Published \cup quarantined
  BY NodeFacts
<1>4. Cardinality(History)
        = Cardinality(Published) + Cardinality(quarantined) - Cardinality(Published \cap quarantined)
  BY <1>2, <1>3, FS_Union
<1>5. IsFiniteSet(Published \cap quarantined)
  BY <1>2, FS_Intersection
<1>6. /\ Cardinality(contracts) \in Nat /\ Cardinality(quarantined) \in Nat
      /\ Cardinality(Published) \in Nat /\ Cardinality(Published \cap quarantined) \in Nat
  BY <1>2, <1>5, FS_CardinalityType
<1>7. Cardinality(Published \cap quarantined) = 0 <=> Published \cap quarantined = {}
  BY <1>5, FS_EmptySet
<1>8. /\ Cardinality(Published) <= Cardinality(contracts)
      /\ Cardinality(Published) = Cardinality(contracts)
           <=> \A a, b \in contracts : BindingOf(a) = BindingOf(b) => a = b
  <2> HIDE DEF f
  <2>1. f \in Surjection(contracts, Published)
    BY <1>1 DEF Surjection
  <2>2. f \in Injection(contracts, Published) <=> \A a, b \in contracts : f[a] = f[b] => a = b
    <3>1. DOMAIN f = contracts
      BY <1>1
    <3> QED
      BY <1>1, <3>1 DEF Injection, IsInjective
  <2>3. /\ Cardinality(Published) <= Cardinality(contracts)
        /\ Cardinality(Published) = Cardinality(contracts) <=> f \in Injection(contracts, Published)
    BY <1>2, <2>1, FS_Surjection
  <2> QED
    BY <1>1, <2>2, <2>3
<1>9. Distinct <=> /\ Cardinality(Published) = Cardinality(contracts)
                   /\ Cardinality(Published \cap quarantined) = 0
  BY <1>7, <1>8 DEF Distinct
<1> QED
  BY <1>4, <1>6, <1>8, <1>9

(* Nothing is published or attempted twice.                                *)
Identified ==
  /\ contracts # {} /\ Distinct
  /\ \A e, o \in History : e # o => e.path # o.path /\ e.digest # o.digest

LEMMA PreparedIsIdentified == ASSUME ChainTypeOK PROVE PrepareChain <=> Identified
<1>1. /\ \A e \in History : (\E n \in contracts : e = BindingOf(n)) \/ e \in quarantined
      /\ \A n \in contracts : BindingOf(n) \in History
      /\ \A n \in contracts : BindingOf(n).path = n.path /\ BindingOf(n).digest = n.digest
      /\ \A q \in quarantined : q \in History
  BY NodeFacts
<1>2. ASSUME PrepareChain PROVE Identified
  <2>1. /\ contracts # {}
        /\ \A a, b \in contracts : a # b => a.path # b.path /\ a.digest # b.digest
        /\ \A a, b \in quarantined : a # b => a.path # b.path /\ a.digest # b.digest
        /\ \A a \in contracts, b \in quarantined : a.path # b.path /\ a.digest # b.digest
    BY <1>2 DEF PrepareChain, DuplicateIdentity
  <2>2. \A a, b \in contracts : BindingOf(a) = BindingOf(b) => a = b
    BY <1>1, <2>1
  <2>3. ASSUME NEW e \in Published, e \in quarantined PROVE FALSE
    BY <1>1, <2>1, <2>3, NodeFacts
  <2>4. ASSUME NEW e \in History, NEW o \in History, e # o PROVE e.path # o.path /\ e.digest # o.digest
    <3>1. CASE e \in quarantined /\ o \in quarantined
      BY <2>1, <2>4, <3>1
    <3>2. CASE e \in quarantined /\ \E n \in contracts : o = BindingOf(n)
      <4>1. PICK n \in contracts : o = BindingOf(n)
        BY <3>2
      <4>2. o.path = n.path /\ o.digest = n.digest
        BY <1>1, <4>1
      <4> QED
        BY <2>1, <3>2, <4>2
    <3>3. CASE o \in quarantined /\ \E n \in contracts : e = BindingOf(n)
      <4>1. PICK n \in contracts : e = BindingOf(n)
        BY <3>3
      <4>2. e.path = n.path /\ e.digest = n.digest
        BY <1>1, <4>1
      <4> QED
        BY <2>1, <3>3, <4>2
    <3>4. CASE (\E n \in contracts : e = BindingOf(n)) /\ \E n \in contracts : o = BindingOf(n)
      <4>1. PICK n \in contracts, m \in contracts : e = BindingOf(n) /\ o = BindingOf(m)
        BY <3>4
      <4>2. e.path = n.path /\ e.digest = n.digest /\ o.path = m.path /\ o.digest = m.digest
        BY <1>1, <4>1
      <4>3. n # m
        BY <2>4, <4>1
      <4> QED
        BY <2>1, <4>2, <4>3
    <3> QED
      BY <1>1, <3>1, <3>2, <3>3, <3>4
  <2> QED
    BY <2>1, <2>2, <2>3, <2>4 DEF Identified, Distinct
<1>3. ASSUME Identified PROVE PrepareChain
  <2>1. /\ \A a, b \in contracts : BindingOf(a) = BindingOf(b) => a = b
        /\ \A e, o \in History : e # o => e.path # o.path /\ e.digest # o.digest
        /\ Published \cap quarantined = {} /\ contracts # {}
    BY <1>3 DEF Identified, Distinct
  <2>2. ASSUME NEW a \in contracts, NEW b \in contracts, a # b PROVE a.path # b.path /\ a.digest # b.digest
    <3>1. BindingOf(a) # BindingOf(b) /\ BindingOf(a) \in History /\ BindingOf(b) \in History
      BY <1>1, <2>1, <2>2
    <3>2. BindingOf(a).path # BindingOf(b).path /\ BindingOf(a).digest # BindingOf(b).digest
      BY <2>1, <3>1
    <3> QED
      BY <1>1, <3>2
  <2>3. ASSUME NEW a \in contracts, NEW b \in quarantined PROVE a.path # b.path /\ a.digest # b.digest
    <3>1. BindingOf(a) \in Published
      BY DEF Published
    <3>2. BindingOf(a) # b /\ BindingOf(a) \in History /\ b \in History
      BY <1>1, <2>1, <3>1
    <3>3. BindingOf(a).path # b.path /\ BindingOf(a).digest # b.digest
      BY <2>1, <3>2
    <3> QED
      BY <1>1, <3>3
  <2>4. \A a, b \in quarantined : a # b => a.path # b.path /\ a.digest # b.digest
    BY <1>1, <2>1
  <2> QED
    BY <2>1, <2>2, <2>3, <2>4 DEF PrepareChain, DuplicateIdentity
<1> QED
  BY <1>2, <1>3

(* Every version is of one type; the contracts are in order, and each names *)
(* the one before it.                                                      *)
OneType == \A e, o \in History : e.path.version = o.path.version => e.path.type = o.path.type

InOrder ==
  /\ Identified
  /\ \A a, b \in contracts : a = b \/ Before(a.path, b.path) \/ Before(b.path, a.path)
  /\ \A n \in contracts :
       n.supersedes = IF Earlier(n) = {} THEN NoBinding ELSE Latest(Earlier(n))

(* With one type for each version, a place is taken once.                  *)
LEMMA PlacesIdentify ==
  ASSUME ChainTypeOK, Identified, OneType
  PROVE  /\ \A e, o \in History :
              e = o \/ Before(e.path, o.path) \/ Before(o.path, e.path)
         /\ \A e, o \in History :
              e.path.version = o.path.version /\ e.path.revision = o.path.revision => e = o
         /\ \A a, b \in contracts : a = b \/ Before(a.path, b.path) \/ Before(b.path, a.path)
         /\ \A v : OneEach(OfVersion(v))
<1>1. ASSUME NEW e \in History, NEW o \in History,
             e.path.version = o.path.version, e.path.revision = o.path.revision
      PROVE  e = o
  <2>1. e.path \in Paths /\ o.path \in Paths
    BY NodeFacts
  <2>2. e.path.type = o.path.type
    BY <1>1 DEF OneType
  <2>3. e.path = o.path
    BY <1>1, <2>1, <2>2, PathsAreOrdered
  <2> QED
    BY <2>3 DEF Identified
<1>2. ASSUME NEW e \in History, NEW o \in History
      PROVE  e = o \/ Before(e.path, o.path) \/ Before(o.path, e.path)
  <2>1. e.path \in Paths /\ o.path \in Paths
    BY NodeFacts
  <2> QED
    BY <1>1, <2>1, PathsAreOrdered
<1>3. ASSUME NEW a \in contracts, NEW b \in contracts
      PROVE  a = b \/ Before(a.path, b.path) \/ Before(b.path, a.path)
  <2>1. /\ BindingOf(a) \in History /\ BindingOf(b) \in History
        /\ BindingOf(a).path = a.path /\ BindingOf(b).path = b.path
    BY NodeFacts
  <2>2. BindingOf(a) = BindingOf(b) => a = b
    BY DEF Identified, Distinct
  <2> QED
    BY <1>2, <2>1, <2>2
<1>4. \A v : OneEach(OfVersion(v))
  <2> SUFFICES ASSUME NEW v PROVE OneEach(OfVersion(v))
    OBVIOUS
  <2>1. OfVersion(v) \in SUBSET History
    BY DEF OfVersion
  <2>2. IsFiniteSet(OfVersion(v)) /\ Dated(OfVersion(v))
    BY <2>1, EntriesAreFinite
  <2>3. \A x, y \in OfVersion(v) : x.path.revision = y.path.revision => x = y
    BY <1>1 DEF OfVersion
  <2> QED
    BY <2>2, <2>3 DEF OneEach
<1> QED
  BY <1>1, <1>2, <1>3, <1>4

(* In an ordered history a contract supersedes the last one before it.     *)
Follows(p, n) ==
  /\ n.supersedes = BindingOf(p) /\ Before(p.path, n.path)
  /\ \A m \in contracts : Before(m.path, n.path) => m = p \/ Before(m.path, p.path)

LEMMA Predecessors ==
  ASSUME ChainTypeOK, InOrder
  PROVE  \A n \in contracts :
           \/ /\ Earlier(n) = {} /\ n.supersedes = NoBinding
              /\ \A m \in contracts : ~Before(m.path, n.path)
           \/ /\ Earlier(n) # {} /\ n.supersedes # NoBinding
              /\ \E p \in contracts : Follows(p, n) /\ Latest(Earlier(n)) = BindingOf(p)
<1> SUFFICES ASSUME NEW n \in contracts
             PROVE  \/ /\ Earlier(n) = {} /\ n.supersedes = NoBinding
                       /\ \A m \in contracts : ~Before(m.path, n.path)
                    \/ /\ Earlier(n) # {} /\ n.supersedes # NoBinding
                       /\ \E p \in contracts : Follows(p, n) /\ Latest(Earlier(n)) = BindingOf(p)
  OBVIOUS
<1>1. \A m \in contracts : Before(m.path, n.path) => BindingOf(m) \in Earlier(n)
  BY NodeFacts DEF Earlier
<1>2. n.supersedes = IF Earlier(n) = {} THEN NoBinding ELSE Latest(Earlier(n))
  BY DEF InOrder
<1>3. CASE Earlier(n) = {}
  BY <1>1, <1>2, <1>3
<1>4. CASE Earlier(n) # {}
  <2>1. Earlier(n) \in SUBSET History
    BY DEF Earlier, History
  <2>2. IsFiniteSet(Earlier(n)) /\ Dated(Earlier(n))
    BY <2>1, EntriesAreFinite
  <2>3. Latest(Earlier(n)) \in Earlier(n) /\ \A o \in Earlier(n) : ~Before(Latest(Earlier(n)).path, o.path)
    BY <1>4, <2>2, LatestOf
  <2>4. PICK p \in contracts : Latest(Earlier(n)) = BindingOf(p)
    BY <2>3, NodeFacts DEF Earlier
  <2>5. BindingOf(p).path = p.path /\ BindingOf(p) # NoBinding
    BY NodeFacts
  <2>6. Before(p.path, n.path)
    BY <2>3, <2>4, <2>5 DEF Earlier
  <2>7. ASSUME NEW m \in contracts, Before(m.path, n.path) PROVE m = p \/ Before(m.path, p.path)
    <3>1. ~Before(p.path, BindingOf(m).path)
      BY <1>1, <2>3, <2>4, <2>5, <2>7
    <3>2. BindingOf(m).path = m.path
      BY NodeFacts
    <3> QED
      BY <3>1, <3>2 DEF InOrder
  <2>8. Follows(p, n)
    BY <1>2, <1>4, <2>4, <2>6, <2>7 DEF Follows
  <2> QED
    BY <1>2, <1>4, <2>4, <2>5, <2>8
<1> QED
  BY <1>3, <1>4

(* No two contracts supersede the same one.                                *)
LEMMA LinksDiffer ==
  ASSUME ChainTypeOK, InOrder
  PROVE  \A a, b \in contracts : a.supersedes = b.supersedes => a = b
<1>1. ASSUME NEW a \in contracts, NEW b \in contracts, a.supersedes = b.supersedes,
             Before(a.path, b.path)
      PROVE  FALSE
  <2>1. PICK p \in contracts : Follows(p, b)
    BY <1>1, Predecessors
  <2>2. a.supersedes = BindingOf(p) /\ BindingOf(p) # NoBinding
    BY <1>1, <2>1, NodeFacts DEF Follows
  <2>3. PICK q \in contracts : Follows(q, a)
    BY <2>2, Predecessors
  <2>4. q = p
    BY <2>2, <2>3 DEF Follows, InOrder, Identified, Distinct
  <2>5. Before(p.path, a.path) /\ (a = p \/ Before(a.path, p.path))
    BY <1>1, <2>1, <2>3, <2>4 DEF Follows
  <2>6. a.path \in Paths /\ p.path \in Paths
    BY NodeFacts
  <2> QED
    BY <2>5, <2>6, PathsAreOrdered
<1> QED
  BY <1>1 DEF InOrder

(* Contracts in order have one root, no fork and no cycle.                 *)
LEMMA OrderedIsAChain ==
  ASSUME ChainTypeOK, InOrder
  PROVE  PredecessorsPresent /\ CycleFree /\ ChainTopology
<1>1. PredecessorsPresent
  <2> SUFFICES ASSUME NEW n \in contracts, n.supersedes # NoBinding PROVE Predecessor(n) # {}
    BY DEF PredecessorsPresent
  <2>1. PICK p \in contracts : Follows(p, n)
    BY Predecessors
  <2> QED
    BY <2>1 DEF Follows, Predecessor
<1>2. CycleFree
  <2> SUFFICES ASSUME NEW nodes \in SUBSET contracts, nodes # {}
               PROVE  \E n \in nodes : Predecessor(n) \cap nodes = {}
    BY DEF CycleFree
  <2>1. PICK n \in nodes : \A m \in nodes : ~Before(m.path, n.path)
    BY EntriesAreFinite, FirstEntry
  <2>2. ASSUME NEW m \in Predecessor(n), m \in nodes PROVE FALSE
    <3>1. m \in contracts /\ BindingOf(m) = n.supersedes /\ n.supersedes # NoBinding
      BY <2>2, NodeFacts DEF Predecessor
    <3>2. PICK p \in contracts : Follows(p, n)
      BY <3>1, Predecessors
    <3>3. m = p
      BY <3>1, <3>2 DEF Follows, InOrder, Identified, Distinct
    <3> QED
      BY <2>1, <2>2, <3>2, <3>3 DEF Follows
  <2> QED
    BY <2>1, <2>2
<1>3. Cardinality({n \in contracts : n.supersedes = NoBinding}) = 1
  <2>1. PICK n \in contracts : \A m \in contracts : ~Before(m.path, n.path)
    BY EntriesAreFinite, FirstEntry DEF InOrder, Identified
  <2>2. n.supersedes = NoBinding
    <3>1. \A p \in contracts : ~Follows(p, n)
      BY <2>1 DEF Follows
    <3> QED
      BY <3>1, Predecessors
  <2>3. {m \in contracts : m.supersedes = NoBinding} = {n}
    BY <2>2, LinksDiffer
  <2>4. Cardinality({n}) = 1
    BY FS_Singleton
  <2> QED
    BY <2>3, <2>4
<1>4. ASSUME NEW n \in contracts PROVE Cardinality(Successors(n)) <= 1
  <2>1. \A a, b \in Successors(n) : a = b
    BY LinksDiffer DEF Successors
  <2> QED
    BY <2>1, AtMostOne
<1> QED
  BY <1>1, <1>2, <1>3, <1>4 DEF ChainTopology

(* The contract without a successor is the last one, and a contract that   *)
(* is not the last has a successor, before all others that follow it.      *)
LEMMA LastIsLast ==
  ASSUME ChainTypeOK, InOrder
  PROVE  /\ LastContract \in contracts
         /\ \A n \in contracts : n = LastContract \/ Before(n.path, LastContract.path)
         /\ \A n \in contracts : n # LastContract => \E s \in contracts : Follows(n, s)
<1>1. ASSUME NEW n \in contracts, NEW m \in contracts, Before(n.path, m.path)
      PROVE  \E s \in contracts : Follows(n, s)
  <2> DEFINE later == {s \in contracts : Before(n.path, s.path)}
  <2>1. later # {} /\ Dated(later) /\ later \in SUBSET contracts
    BY <1>1, EntriesAreFinite
  <2>2. PICK s \in later : \A o \in later : ~Before(o.path, s.path)
    <3> HIDE DEF later
    <3> QED
      BY <2>1, FirstEntry
  <2>3. s \in contracts /\ Before(n.path, s.path)
    OBVIOUS
  <2>4. PICK p \in contracts : Follows(p, s)
    BY <2>3, Predecessors
  <2>5. p = n
    <3>1. n = p \/ Before(n.path, p.path)
      BY <2>3, <2>4 DEF Follows
    <3>2. ~Before(n.path, p.path)
      BY <2>2, <2>4 DEF Follows
    <3> QED
      BY <3>1, <3>2
  <2> QED
    BY <2>3, <2>4, <2>5
<1>2. PICK t \in contracts : \A m \in contracts : ~Before(t.path, m.path)
  BY EntriesAreFinite, LastEntry DEF InOrder, Identified
<1>3. Successors(t) = {}
  <2> SUFFICES ASSUME NEW s \in contracts, s.supersedes = BindingOf(t) PROVE FALSE
    BY DEF Successors
  <2>1. s.supersedes # NoBinding
    BY NodeFacts
  <2>2. PICK p \in contracts : Follows(p, s)
    BY <2>1, Predecessors
  <2>3. p = t
    BY <2>2 DEF Follows, InOrder, Identified, Distinct
  <2> QED
    BY <1>2, <2>2, <2>3 DEF Follows
<1>4. LastContract \in contracts /\ Successors(LastContract) = {}
  BY <1>3 DEF LastContract
<1>5. \A m \in contracts : ~Before(LastContract.path, m.path)
  <2> SUFFICES ASSUME NEW m \in contracts, Before(LastContract.path, m.path) PROVE FALSE
    OBVIOUS
  <2>1. PICK s \in contracts : Follows(LastContract, s)
    BY <1>1, <1>4
  <2> QED
    BY <1>4, <2>1 DEF Follows, Successors
<1>6. \A n \in contracts : n = LastContract \/ Before(n.path, LastContract.path)
  BY <1>4, <1>5 DEF InOrder
<1> QED
  BY <1>1, <1>4, <1>6

(* Contracts that supersede earlier ones, no two the same, are in order.   *)
Linked ==
  /\ \A n \in contracts :
       \/ n.supersedes = NoBinding
       \/ \E p \in contracts : n.supersedes = BindingOf(p) /\ Before(p.path, n.path)
  /\ \A a, b \in contracts : a.supersedes = b.supersedes => a = b

(* The root is before all others.                                          *)
LEMMA RootIsFirst ==
  ASSUME ChainTypeOK, Linked, NEW root \in contracts, root.supersedes = NoBinding
  PROVE  \A n \in contracts : n # root => Before(root.path, n.path)
<1> DEFINE astray == {n \in contracts : n # root /\ ~Before(root.path, n.path)}
<1> SUFFICES ASSUME astray # {} PROVE FALSE
  OBVIOUS
<1>1. astray \in SUBSET contracts
  OBVIOUS
<1>2. PICK n \in astray : \A m \in astray : ~Before(m.path, n.path)
  <2> HIDE DEF astray
  <2> QED
    BY <1>1, EntriesAreFinite, FirstEntry
<1>3. n \in contracts /\ n # root /\ ~Before(root.path, n.path)
  OBVIOUS
<1>4. PICK p \in contracts : n.supersedes = BindingOf(p) /\ Before(p.path, n.path)
  BY <1>3 DEF Linked
<1>5. p # root
  BY <1>3, <1>4
<1>6. Before(root.path, p.path)
  BY <1>2, <1>4, <1>5
<1>7. root.path \in Paths /\ p.path \in Paths /\ n.path \in Paths
  BY <1>3, NodeFacts
<1> QED
  BY <1>3, <1>4, <1>6, <1>7, PathsAreOrdered

(* Nothing is between a contract and its predecessor: of what is, the      *)
(* first would supersede an earlier one of the same kind.                  *)
LEMMA NothingBetweenLinks ==
  ASSUME ChainTypeOK, Identified, Linked
  PROVE  \A p, n, m \in contracts :
           n.supersedes = BindingOf(p) /\ m # n /\ Before(p.path, m.path) => Before(n.path, m.path)
<1> DEFINE astray ==
      {m \in contracts : \E p, n \in contracts :
         n.supersedes = BindingOf(p) /\ m # n /\ Before(p.path, m.path) /\ ~Before(n.path, m.path)}
<1> SUFFICES ASSUME astray # {} PROVE FALSE
  OBVIOUS
<1>1. astray \in SUBSET contracts
  OBVIOUS
<1>2. PICK m \in astray : \A o \in astray : ~Before(o.path, m.path)
  <2> HIDE DEF astray
  <2> QED
    BY <1>1, EntriesAreFinite, FirstEntry
<1>3. m \in contracts
  OBVIOUS
<1>4. PICK p \in contracts, n \in contracts :
        n.supersedes = BindingOf(p) /\ m # n /\ Before(p.path, m.path) /\ ~Before(n.path, m.path)
  OBVIOUS
<1>5. \A a \in contracts : a.path \in Paths
  BY NodeFacts
<1>6. ASSUME NEW o \in contracts, NEW q \in contracts, NEW s \in contracts, s.supersedes = BindingOf(q),
             o # s, Before(q.path, o.path), ~Before(s.path, o.path), Before(o.path, m.path)
      PROVE  FALSE
  <2>1. o \in astray
    BY <1>6
  <2> QED
    BY <1>2, <1>6, <2>1
<1> HIDE DEF astray
<1>7. m.supersedes # NoBinding
  <2>1. p # m => (m.supersedes = NoBinding => Before(m.path, p.path))
    BY <1>3, RootIsFirst
  <2> QED
    BY <1>3, <1>4, <1>5, <2>1, PathsAreOrdered
<1>8. PICK q \in contracts : m.supersedes = BindingOf(q) /\ Before(q.path, m.path)
  BY <1>3, <1>7 DEF Linked
<1>9. q # p
  BY <1>3, <1>4, <1>8 DEF Linked
<1>10. CASE Before(p.path, q.path)
  <2>1. q # n /\ ~Before(n.path, q.path)
    BY <1>3, <1>4, <1>5, <1>8, PathsAreOrdered
  <2> QED
    BY <1>4, <1>6, <1>8, <1>10, <2>1
<1>11. CASE Before(q.path, p.path)
  <2>1. p # m /\ ~Before(m.path, p.path)
    BY <1>3, <1>4, <1>5, PathsAreOrdered
  <2> QED
    BY <1>3, <1>4, <1>6, <1>8, <1>11, <2>1
<1>12. CASE ~Before(p.path, q.path) /\ ~Before(q.path, p.path)
  <2>1. q.supersedes # NoBinding
    BY <1>9, <1>12, RootIsFirst
  <2>2. PICK r \in contracts : q.supersedes = BindingOf(r) /\ Before(r.path, q.path)
    BY <2>1 DEF Linked
  <2>3. Before(r.path, p.path)
    <3>1. p.path.version = q.path.version /\ p.path.revision = q.path.revision
      BY <1>5, <1>12, PathsAreOrdered
    <3> QED
      BY <2>2, <3>1 DEF Before
  <2> QED
    BY <1>4, <1>6, <1>9, <1>12, <2>2, <2>3
<1> QED
  BY <1>10, <1>11, <1>12

(* So each link leads to the last contract before.                         *)
LEMMA LinksFollow ==
  ASSUME ChainTypeOK, Identified, Linked
  PROVE  InOrder
<1>1. \A a \in contracts : a.path \in Paths
  BY NodeFacts
<1>2. ASSUME NEW a \in contracts, NEW b \in contracts, a # b
      PROVE  Before(a.path, b.path) \/ Before(b.path, a.path)
  <2> SUFFICES ASSUME ~Before(a.path, b.path), ~Before(b.path, a.path) PROVE FALSE
    OBVIOUS
  <2>1. a.supersedes # NoBinding
    BY <1>2, RootIsFirst
  <2>2. PICK p \in contracts : a.supersedes = BindingOf(p) /\ Before(p.path, a.path)
    BY <2>1 DEF Linked
  <2>3. Before(p.path, b.path)
    <3>1. a.path.version = b.path.version /\ a.path.revision = b.path.revision
      BY <1>1, PathsAreOrdered
    <3> QED
      BY <2>2, <3>1 DEF Before
  <2> QED
    BY <1>2, <2>2, <2>3, NothingBetweenLinks
<1>3. ASSUME NEW n \in contracts
      PROVE  \/ n.supersedes = NoBinding /\ Earlier(n) = {}
             \/ \E p \in contracts :
                  Follows(p, n) /\ Earlier(n) # {} /\ Latest(Earlier(n)) = BindingOf(p)
  <2>1. \A e \in Earlier(n) : \E m \in contracts : e = BindingOf(m) /\ Before(m.path, n.path)
    BY NodeFacts DEF Earlier
  <2>2. CASE n.supersedes = NoBinding
    <3>1. \A m \in contracts : ~Before(m.path, n.path)
      BY <1>1, <2>2, RootIsFirst, PathsAreOrdered
    <3> QED
      BY <2>1, <2>2, <3>1
  <2>3. CASE n.supersedes # NoBinding
    <3>1. PICK p \in contracts : n.supersedes = BindingOf(p) /\ Before(p.path, n.path)
      BY <2>3 DEF Linked
    <3>2. ASSUME NEW m \in contracts, Before(m.path, n.path) PROVE m = p \/ Before(m.path, p.path)
      <4>1. ~Before(n.path, m.path) /\ m # n
        BY <1>1, <3>2, PathsAreOrdered
      <4>2. ~Before(p.path, m.path)
        BY <3>1, <4>1, NothingBetweenLinks
      <4> QED
        BY <1>2, <4>2
    <3>3. Follows(p, n)
      BY <3>1, <3>2 DEF Follows
    <3>4. BindingOf(p) \in Earlier(n) /\ BindingOf(p).path = p.path
      BY <3>1, NodeFacts DEF Earlier
    <3>5. \A o \in Earlier(n) : o = BindingOf(p) \/ Before(o.path, BindingOf(p).path)
      <4> SUFFICES ASSUME NEW o \in Earlier(n) PROVE o = BindingOf(p) \/ Before(o.path, BindingOf(p).path)
        OBVIOUS
      <4>1. PICK m \in contracts : o = BindingOf(m) /\ Before(m.path, n.path)
        BY <2>1
      <4>2. o.path = m.path
        BY <4>1, NodeFacts
      <4> QED
        BY <3>2, <3>4, <4>1, <4>2
    <3>6. Dated(Earlier(n))
      <4>1. Earlier(n) \in SUBSET History
        BY DEF Earlier, History
      <4> QED
        BY <4>1, EntriesAreFinite
    <3>7. Latest(Earlier(n)) = BindingOf(p)
      BY <3>4, <3>5, <3>6, LatestIs
    <3> QED
      BY <3>3, <3>4, <3>7
  <2> QED
    BY <2>2, <2>3
<1>4. \A n \in contracts :
        n.supersedes = IF Earlier(n) = {} THEN NoBinding ELSE Latest(Earlier(n))
  BY <1>3 DEF Follows
<1> QED
  BY <1>2, <1>4 DEF InOrder

(* The revisions a contract must explain begin after the last contract of  *)
(* its version, or at one.                                                 *)
LEMMA GapBegins ==
  ASSUME ChainTypeOK, NEW n \in contracts
  PROVE  /\ FirstRevision(n) \in Nat \ {0}
         /\ n.supersedes = NoBinding => FirstRevision(n) = 1
         /\ \A p \in contracts : n.supersedes = BindingOf(p) =>
              FirstRevision(n) = IF p.path.version = n.path.version THEN p.path.revision + 1 ELSE 1
<1>1. n.supersedes = NoBinding => FirstRevision(n) = 1
  BY DEF FirstRevision
<1>2. \A p \in contracts : n.supersedes = BindingOf(p) =>
        FirstRevision(n) = IF p.path.version = n.path.version THEN p.path.revision + 1 ELSE 1
  BY NodeFacts DEF FirstRevision
<1>3. FirstRevision(n) \in Nat \ {0}
  <2>1. CASE n.supersedes \in ChainBinding
    <3>1. n.supersedes.path \in Paths
      BY <2>1, NodeFacts
    <3>2. n.supersedes.path.revision \in Nat
      BY <3>1, PathsAreOrdered
    <3> QED
      BY <3>2 DEF FirstRevision
  <2>2. CASE n.supersedes = NoBinding
    BY <1>1, <2>2
  <2> QED
    BY <2>1, <2>2, NodeFacts
<1> QED
  BY <1>1, <1>2, <1>3

(* In a valid chain every contract supersedes an earlier one.              *)
LEMMA ValidLinks ==
  ASSUME ChainTypeOK, ValidateContractChain
  PROVE  /\ Identified /\ Linked /\ InOrder
         /\ \A n, p \in contracts : n.supersedes = BindingOf(p) => SemanticTransition(p.path, n.path)
<1>1. Identified
  BY PreparedIsIdentified DEF ValidateContractChain
<1>2. ASSUME NEW n \in contracts, NEW p \in contracts, n.supersedes = BindingOf(p)
      PROVE  SemanticTransition(p.path, n.path) /\ Before(p.path, n.path)
  <2>1. /\ n.supersedes # NoBinding => SemanticTransition(n.supersedes.path, n.path)
        /\ FirstRevision(n) <= n.path.revision
    BY DEF ValidateContractChain, ExpectedGap
  <2>2. SemanticTransition(p.path, n.path)
    BY <1>2, <2>1, NodeFacts
  <2>3. FirstRevision(n) = IF p.path.version = n.path.version THEN p.path.revision + 1 ELSE 1
    BY <1>2, GapBegins
  <2>4. /\ p.path.version \in Nat /\ p.path.revision \in Nat
        /\ n.path.version \in Nat /\ n.path.revision \in Nat
    BY NodeFacts, PathsAreOrdered
  <2>5. p.path.version <= n.path.version /\ n.path.version <= p.path.version + 1
    BY <2>2 DEF SemanticTransition
  <2> QED
    BY <2>1, <2>2, <2>3, <2>4, <2>5 DEF Before
<1>3. \A n \in contracts : n.supersedes # NoBinding => \E p \in contracts : n.supersedes = BindingOf(p)
  BY DEF ValidateContractChain, PredecessorsPresent, Predecessor
<1>4. ASSUME NEW a \in contracts, NEW b \in contracts, a.supersedes = b.supersedes PROVE a = b
  <2>1. CASE a.supersedes = NoBinding
    <3> DEFINE roots == {n \in contracts : n.supersedes = NoBinding}
    <3>1. Cardinality(roots) = 1
      BY DEF ValidateContractChain, ChainTopology
    <3>2. IsFiniteSet(roots)
      BY EntriesAreFinite
    <3>3. a \in roots /\ b \in roots
      BY <1>4, <2>1
    <3> HIDE DEF roots
    <3>4. \A x, y \in roots : x = y
      BY <3>1, <3>2, AtMostOne
    <3> QED
      BY <3>3, <3>4
  <2>2. CASE a.supersedes # NoBinding
    <3>1. PICK p \in contracts : a.supersedes = BindingOf(p)
      BY <1>3, <2>2
    <3>2. a \in Successors(p) /\ b \in Successors(p) /\ Successors(p) \in SUBSET contracts
      BY <1>4, <3>1 DEF Successors
    <3>3. Cardinality(Successors(p)) <= 1
      BY DEF ValidateContractChain, ChainTopology
    <3>4. IsFiniteSet(Successors(p))
      BY <3>2, EntriesAreFinite
    <3> QED
      BY <3>2, <3>3, <3>4, AtMostOne
  <2> QED
    BY <2>1, <2>2
<1>5. Linked
  BY <1>2, <1>3, <1>4 DEF Linked
<1> QED
  BY <1>1, <1>2, <1>5, LinksFollow

(* Contracts of one version are of one type, and so is all that was        *)
(* attempted.                                                              *)
LEMMA ContractTypesAgree ==
  ASSUME ChainTypeOK, ValidateContractChain
  PROVE  \A a, b \in contracts : a.path.version = b.path.version => a.path.type = b.path.type
<1> DEFINE odd == {n \in contracts : \E m \in contracts :
      m.path.version = n.path.version /\ Before(m.path, n.path) /\ m.path.type # n.path.type}
<1>1. odd = {}
  <2> SUFFICES ASSUME odd # {} PROVE FALSE
    OBVIOUS
  <2>1. odd \in SUBSET contracts
    OBVIOUS
  <2>2. PICK n \in odd : \A m \in odd : ~Before(m.path, n.path)
    <3> HIDE DEF odd
    <3> QED
      BY <2>1, EntriesAreFinite, FirstEntry
  <2>3. PICK m \in contracts :
          m.path.version = n.path.version /\ Before(m.path, n.path) /\ m.path.type # n.path.type
    OBVIOUS
  <2>4. n \in contracts
    OBVIOUS
  <2>5. PICK p \in contracts : Follows(p, n)
    BY <2>3, <2>4, ValidLinks, Predecessors
  <2>6. SemanticTransition(p.path, n.path)
    BY <2>4, <2>5, ValidLinks DEF Follows
  <2>7. m = p \/ Before(m.path, p.path)
    BY <2>3, <2>5 DEF Follows
  <2>8. /\ p.path.version \in Nat /\ n.path.version \in Nat /\ m.path.version \in Nat
    BY <2>4, NodeFacts, PathsAreOrdered
  <2>9. p.path.version = n.path.version /\ p.path.type = n.path.type
    <3>1. m.path.version <= p.path.version
      BY <2>7, <2>8 DEF Before
    <3> QED
      BY <2>3, <2>6, <2>8, <3>1 DEF SemanticTransition
  <2>10. m # p
    BY <2>3, <2>9
  <2>11. p \in odd
    BY <2>3, <2>7, <2>9, <2>10
  <2> QED
    BY <2>2, <2>5, <2>11 DEF Follows
<1>2. \A a, b \in contracts : a = b \/ Before(a.path, b.path) \/ Before(b.path, a.path)
  BY ValidLinks DEF InOrder
<1> QED
  BY <1>1, <1>2

(* What is pending is of one version and one type, and follows the last    *)
(* contract.                                                               *)
LEMMA PendingFollows ==
  ASSUME ChainTypeOK, ValidateContractChain
  PROVE  LET t == LastContract.path IN
         /\ Pending \in SUBSET quarantined
         /\ \A q, o \in Pending : q.path.version = o.path.version /\ q.path.type = o.path.type
         /\ \A q \in Pending :
              \/ /\ q.path.version = t.version /\ q.path.type = t.type
                 /\ RevisionsOf(Pending) = t.revision + 1 .. t.revision + Cardinality(Pending)
              \/ /\ q.path.version = t.version + 1
                 /\ RevisionsOf(Pending) = 1 .. Cardinality(Pending)
         /\ \A q \in Pending : Before(t, q.path)
<1> DEFINE t == LastContract.path
           first == CHOOSE attempt \in Pending : \A other \in Pending : ~Before(other.path, attempt.path)
           start == IF first.path.version = t.version THEN t.revision + 1 ELSE 1
<1>1. Pending \in SUBSET quarantined
  BY DEF Pending
<1>2. CASE Pending = {}
  BY <1>2
<1>3. CASE Pending # {}
  <2>1. first \in Pending
    <3>1. Pending \in SUBSET History
      BY <1>1, NodeFacts
    <3>2. \E a \in Pending : \A other \in Pending : ~Before(other.path, a.path)
      BY <1>3, <3>1, EntriesAreFinite, FirstEntry
    <3> QED
      BY <3>2
  <2>2. /\ \/ first.path.version = t.version /\ first.path.type = t.type
           \/ first.path.version = t.version + 1
        /\ \A a \in Pending : a.path.version = first.path.version /\ a.path.type = first.path.type
        /\ {a.path.revision : a \in Pending} = start .. start + Cardinality(Pending) - 1
    BY <1>3 DEF ValidateContractChain, PendingQuarantine
  <2>3. LastContract \in contracts
    BY ValidLinks, LastIsLast
  <2>4. t.version \in Nat /\ t.revision \in Nat
    BY <2>3, NodeFacts, PathsAreOrdered
  <2>5. \A q \in Pending : q.path.version \in Nat /\ q.path.revision \in Nat
    BY <1>1, NodeFacts, PathsAreOrdered
  <2>6. Cardinality(Pending) \in Nat
    BY <1>1, FS_Subset, FS_CardinalityType DEF ChainTypeOK
  <2> HIDE DEF first, start, t
  <2>7. ASSUME NEW q \in Pending
        PROVE  /\ \/ /\ q.path.version = t.version /\ q.path.type = t.type
                     /\ RevisionsOf(Pending) = t.revision + 1 .. t.revision + Cardinality(Pending)
                  \/ /\ q.path.version = t.version + 1
                     /\ RevisionsOf(Pending) = 1 .. Cardinality(Pending)
               /\ Before(t, q.path)
    <3>1. q.path.version = first.path.version /\ q.path.type = first.path.type
      BY <2>2
    <3>2. RevisionsOf(Pending) = start .. start + Cardinality(Pending) - 1
      BY <2>2 DEF RevisionsOf
    <3>3. q.path.revision \in RevisionsOf(Pending)
      BY DEF RevisionsOf
    <3>4. CASE first.path.version = t.version
      <4>1. start = t.revision + 1
        BY <3>4 DEF start
      <4>2. start + Cardinality(Pending) - 1 = t.revision + Cardinality(Pending)
        BY <2>4, <2>6, <4>1
      <4>3. q.path.revision > t.revision
        BY <2>4, <2>5, <2>6, <3>2, <3>3, <4>1, <4>2
      <4>4. q.path.type = t.type
        BY <2>2, <2>4, <3>1, <3>4
      <4>5. Before(t, q.path)
        BY <2>4, <2>5, <3>1, <3>4, <4>3 DEF Before
      <4> QED
        BY <3>1, <3>2, <3>4, <4>1, <4>2, <4>4, <4>5
    <3>5. CASE first.path.version = t.version + 1
      <4>1. start = 1
        BY <2>4, <3>5 DEF start
      <4>2. start + Cardinality(Pending) - 1 = Cardinality(Pending)
        BY <2>6, <4>1
      <4>3. Before(t, q.path)
        BY <2>4, <2>5, <3>1, <3>5 DEF Before
      <4> QED
        BY <3>1, <3>2, <3>5, <4>1, <4>2, <4>3
    <3> QED
      BY <2>2, <3>4, <3>5
  <2>8. \A q, o \in Pending : q.path.version = o.path.version /\ q.path.type = o.path.type
    BY <2>2
  <2> QED
    BY <1>1, <2>7, <2>8 DEF t
<1> QED
  BY <1>2, <1>3

(* In a valid chain every version is of one type.                          *)
LEMMA ValidTypes == ASSUME ChainTypeOK, ValidateContractChain PROVE OneType
<1> DEFINE t == LastContract.path
<1>1. LastContract \in contracts /\ \A n \in contracts : n = LastContract \/ Before(n.path, LastContract.path)
  BY ValidLinks, LastIsLast
<1>2. \A n \in contracts : n.path.version \in Nat /\ n.path.version <= t.version
  BY <1>1, NodeFacts, PathsAreOrdered DEF Before
<1>3. ASSUME NEW e \in History
      PROVE  \/ \E n \in contracts : e.path.version = n.path.version /\ e.path.type = n.path.type
             \/ e \in Pending /\ e.path.version = t.version + 1
  <2>1. CASE e \in Published
    BY <2>1, NodeFacts
  <2>2. CASE e \in quarantined /\ e \notin Pending
    <3>1. PICK n \in contracts : e \in AttemptsInGap(n)
      BY <2>2 DEF Pending
    <3> QED
      BY <3>1 DEF AttemptsInGap
  <2>3. CASE e \in Pending
    BY <1>1, <2>3, PendingFollows
  <2> QED
    BY <2>1, <2>2, <2>3, NodeFacts
<1>4. ASSUME NEW e \in History, NEW o \in History, e.path.version = o.path.version
      PROVE  e.path.type = o.path.type
  <2>1. t.version \in Nat
    BY <1>1, <1>2
  <2>2. CASE \E n \in contracts : e.path.version = n.path.version /\ e.path.type = n.path.type
    <3>1. PICK n \in contracts : e.path.version = n.path.version /\ e.path.type = n.path.type
      BY <2>2
    <3>2. o.path.version # t.version + 1
      BY <1>2, <1>4, <2>1, <3>1
    <3>3. PICK m \in contracts : o.path.version = m.path.version /\ o.path.type = m.path.type
      BY <1>3, <3>2
    <3> QED
      BY <1>4, <3>1, <3>3, ContractTypesAgree
  <2>3. CASE e \in Pending /\ e.path.version = t.version + 1
    <3>1. ~ \E n \in contracts : o.path.version = n.path.version
      BY <1>2, <1>4, <2>1, <2>3
    <3>2. o \in Pending
      BY <1>3, <3>1
    <3> QED
      BY <2>3, <3>2, PendingFollows
  <2> QED
    BY <1>3, <2>2, <2>3
<1> QED
  BY <1>4 DEF OneType

(* The attempts in a gap are entries of the version, each of a revision of *)
(* its own.                                                                *)
LEMMA GapFacts ==
  ASSUME ChainTypeOK, Identified, OneType, NEW n \in contracts
  PROVE  /\ AttemptsInGap(n) \in SUBSET quarantined
         /\ AttemptsInGap(n) \in SUBSET OfVersion(n.path.version)
         /\ OneEach(AttemptsInGap(n))
         /\ RevisionsOf(AttemptsInGap(n)) \subseteq FirstRevision(n) .. n.path.revision - 1
         /\ {BindingOf(attempt) : attempt \in AttemptsInGap(n)} = AttemptsInGap(n)
         /\ n.path.version \in Nat /\ n.path.revision \in Nat \ {0}
<1>1. AttemptsInGap(n) \in SUBSET quarantined
  BY DEF AttemptsInGap
<1>2. AttemptsInGap(n) \in SUBSET OfVersion(n.path.version)
  BY NodeFacts DEF AttemptsInGap, OfVersion
<1>3. OneEach(AttemptsInGap(n))
  <2>1. OneEach(OfVersion(n.path.version))
    BY PlacesIdentify
  <2> QED
    BY <1>2, <2>1, FS_Subset DEF OneEach, Dated
<1>4. n.path.version \in Nat /\ n.path.revision \in Nat \ {0}
  BY NodeFacts, PathsAreOrdered
<1>5. RevisionsOf(AttemptsInGap(n)) \subseteq FirstRevision(n) .. n.path.revision - 1
  <2> SUFFICES ASSUME NEW q \in AttemptsInGap(n)
               PROVE  q.path.revision \in FirstRevision(n) .. n.path.revision - 1
    BY DEF RevisionsOf
  <2>1. q.path.revision >= FirstRevision(n) /\ q.path.revision < n.path.revision
    BY DEF AttemptsInGap
  <2>2. q.path.revision \in Nat /\ FirstRevision(n) \in Nat
    BY <1>1, NodeFacts, PathsAreOrdered, GapBegins
  <2> QED
    BY <1>4, <2>1, <2>2
<1>6. {BindingOf(attempt) : attempt \in AttemptsInGap(n)} = AttemptsInGap(n)
  <2>1. \A q \in AttemptsInGap(n) : BindingOf(q) = q
    BY <1>1, NodeFacts
  <2> QED
    BY <2>1
<1> QED
  BY <1>1, <1>2, <1>3, <1>4, <1>5, <1>6

(* A contract that follows another of its version, or opens a version,     *)
(* recovers what was attempted in between.                                 *)
LEMMA GapIsBetween ==
  ASSUME ChainTypeOK, InOrder, OneType, NEW n \in contracts
  PROVE  AttemptsInGap(n) = {entry \in History \ Published :
           /\ entry.path.version = n.path.version /\ Before(entry.path, n.path)
           /\ Earlier(n) # {} => Before(Latest(Earlier(n)).path, entry.path)}
<1> DEFINE gapped == {entry \in History \ Published :
           /\ entry.path.version = n.path.version /\ Before(entry.path, n.path)
           /\ Earlier(n) # {} => Before(Latest(Earlier(n)).path, entry.path)}
<1>1. History \ Published = quarantined
  BY NodeFacts DEF InOrder, Identified, Distinct
<1>2. ASSUME NEW q \in quarantined PROVE q \in AttemptsInGap(n) <=> q \in gapped
  <2>1. n.path.version \in Nat /\ n.path.revision \in Nat
    BY NodeFacts, PathsAreOrdered
  <2>2. q.path.version \in Nat /\ q.path.revision \in Nat \ {0}
    BY NodeFacts, PathsAreOrdered
  <2>3. q.path.version = n.path.version => q.path.type = n.path.type
    BY NodeFacts DEF OneType
  <2>4. CASE q.path.version # n.path.version
    BY <2>4 DEF AttemptsInGap
  <2>5. CASE q.path.version = n.path.version
    <3>1. Before(q.path, n.path) <=> q.path.revision < n.path.revision
      BY <2>1, <2>2, <2>5 DEF Before
    <3>2. q.path.revision >= FirstRevision(n)
             <=> (Earlier(n) # {} => Before(Latest(Earlier(n)).path, q.path))
      <4>1. CASE Earlier(n) = {} /\ n.supersedes = NoBinding
        <5>1. FirstRevision(n) = 1
          BY <4>1, GapBegins
        <5> QED
          BY <2>2, <4>1, <5>1
      <4>2. CASE Earlier(n) # {} /\ \E p \in contracts : Follows(p, n) /\ Latest(Earlier(n)) = BindingOf(p)
        <5>1. PICK p \in contracts : Follows(p, n) /\ Latest(Earlier(n)) = BindingOf(p)
          BY <4>2
        <5>2. Latest(Earlier(n)).path = p.path /\ p.path.version \in Nat /\ p.path.revision \in Nat
          BY <5>1, NodeFacts, PathsAreOrdered
        <5>3. FirstRevision(n) = IF p.path.version = n.path.version THEN p.path.revision + 1 ELSE 1
          BY <5>1, GapBegins DEF Follows
        <5>4. p.path.version <= n.path.version
          BY <2>1, <5>1, <5>2 DEF Follows, Before
        <5>5. CASE p.path.version = n.path.version
          BY <2>2, <2>5, <4>2, <5>2, <5>3, <5>5 DEF Before
        <5>6. CASE p.path.version # n.path.version
          <6>1. p.path.version < q.path.version
            BY <2>1, <2>5, <5>2, <5>4, <5>6
          <6>2. Before(p.path, q.path)
            BY <6>1 DEF Before
          <6> QED
            BY <2>2, <5>2, <5>3, <5>6, <6>2
        <5> QED
          BY <5>5, <5>6
      <4> QED
        BY <4>1, <4>2, Predecessors
    <3> QED
      BY <1>1, <2>3, <2>5, <3>1, <3>2 DEF AttemptsInGap
  <2> QED
    BY <2>4, <2>5
<1>3. AttemptsInGap(n) \in SUBSET quarantined
  BY DEF AttemptsInGap
<1>4. gapped \in SUBSET quarantined
  BY <1>1
<1> HIDE DEF gapped
<1>5. AttemptsInGap(n) = gapped
  BY <1>2, <1>3, <1>4
<1> QED
  BY <1>5 DEF gapped

(* The contracts and attempts of a valid chain have every revision up to   *)
(* their last.                                                             *)
LEMMA ValidGaps ==
  ASSUME ChainTypeOK, ValidateContractChain, NEW n \in contracts
  PROVE  /\ RevisionsOf(AttemptsInGap(n)) = FirstRevision(n) .. n.path.revision - 1
         /\ FirstRevision(n) <= n.path.revision
<1>1. /\ FirstRevision(n) <= n.path.revision
      /\ Cardinality(AttemptsInGap(n)) = n.path.revision - FirstRevision(n)
  BY DEF ValidateContractChain, ExpectedGap
<1>2. /\ OneEach(AttemptsInGap(n)) /\ n.path.revision \in Nat
      /\ RevisionsOf(AttemptsInGap(n)) \subseteq FirstRevision(n) .. n.path.revision - 1
  BY ValidLinks, ValidTypes, GapFacts
<1>3. FirstRevision(n) \in Nat
  BY GapBegins
<1> QED
  BY <1>1, <1>2, <1>3, RevisionsFill

(* Below a contract of a valid chain no revision is missing.               *)
LEMMA ValidContractRevisions ==
  ASSUME ChainTypeOK, ValidateContractChain
  PROVE  \A n \in contracts : \A k \in 1 .. n.path.revision : k \in RevisionsOf(OfVersion(n.path.version))
<1> DEFINE short == {n \in contracts :
      \E k \in 1 .. n.path.revision : k \notin RevisionsOf(OfVersion(n.path.version))}
<1> SUFFICES ASSUME short # {} PROVE FALSE
  OBVIOUS
<1>1. short \in SUBSET contracts
  OBVIOUS
<1>2. PICK n \in short : \A m \in short : ~Before(m.path, n.path)
  <2> HIDE DEF short
  <2> QED
    BY <1>1, EntriesAreFinite, FirstEntry
<1>3. PICK k \in 1 .. n.path.revision : k \notin RevisionsOf(OfVersion(n.path.version))
  OBVIOUS
<1>4. n \in contracts
  OBVIOUS
<1>5. n.path.revision \in Nat /\ n.path.version \in Nat /\ FirstRevision(n) \in Nat
  BY <1>4, NodeFacts, PathsAreOrdered, GapBegins
<1>6. k < n.path.revision
  <2>1. BindingOf(n) \in OfVersion(n.path.version) /\ BindingOf(n).path = n.path
    BY <1>4, NodeFacts DEF OfVersion, History
  <2>2. n.path.revision \in RevisionsOf(OfVersion(n.path.version))
    BY <2>1 DEF RevisionsOf
  <2> QED
    BY <1>3, <1>5, <2>2
<1>7. CASE k >= FirstRevision(n)
  <2>1. k \in RevisionsOf(AttemptsInGap(n))
    BY <1>4, <1>5, <1>6, <1>7, ValidGaps
  <2>2. AttemptsInGap(n) \in SUBSET OfVersion(n.path.version)
    BY <1>4, ValidLinks, ValidTypes, GapFacts
  <2> QED
    BY <1>3, <2>1, <2>2 DEF RevisionsOf
<1>8. CASE k < FirstRevision(n)
  <2>1. FirstRevision(n) # 1
    BY <1>8
  <2>2. n.supersedes # NoBinding
    BY <1>4, <2>1, GapBegins
  <2>3. PICK p \in contracts : Follows(p, n)
    BY <1>4, <2>2, ValidLinks, Predecessors
  <2>4. FirstRevision(n) = IF p.path.version = n.path.version THEN p.path.revision + 1 ELSE 1
    BY <1>4, <2>3, GapBegins DEF Follows
  <2>5. p.path.version = n.path.version /\ FirstRevision(n) = p.path.revision + 1 /\ p.path.revision \in Nat
    BY <2>1, <2>4, NodeFacts, PathsAreOrdered
  <2>6. k \in 1 .. p.path.revision
    BY <1>8, <2>5
  <2>7. p \in short
    BY <1>3, <2>5, <2>6
  <2> QED
    BY <1>2, <2>3, <2>7 DEF Follows
<1> QED
  BY <1>5, <1>7, <1>8

(* An entry is a contract, an attempt recovered by one, or pending.        *)
LEMMA EntryKinds ==
  ASSUME ChainTypeOK
  PROVE  \A e \in History :
           \/ \E n \in contracts : e = BindingOf(n) /\ e.path = n.path
           \/ \E n \in contracts : e \in AttemptsInGap(n) /\ e.path.version = n.path.version
                                   /\ e.path.revision < n.path.revision /\ Before(e.path, n.path)
           \/ e \in Pending
<1> SUFFICES ASSUME NEW e \in History, e \in quarantined, e \notin Pending
             PROVE  \E n \in contracts : e \in AttemptsInGap(n) /\ e.path.version = n.path.version
                                   /\ e.path.revision < n.path.revision /\ Before(e.path, n.path)
  BY NodeFacts
<1>1. PICK n \in contracts : e \in AttemptsInGap(n)
  BY DEF Pending
<1>2. e.path.version = n.path.version /\ e.path.revision < n.path.revision
  BY <1>1 DEF AttemptsInGap
<1> QED
  BY <1>1, <1>2 DEF Before

(* In a valid chain the revisions of a version count from one.             *)
LEMMA ValidRevisions ==
  ASSUME ChainTypeOK, ValidateContractChain
  PROVE  \A v : RevisionsOf(OfVersion(v)) = 1 .. Cardinality(OfVersion(v))
<1> SUFFICES ASSUME NEW v PROVE RevisionsOf(OfVersion(v)) = 1 .. Cardinality(OfVersion(v))
  OBVIOUS
<1>1. OneEach(OfVersion(v))
  BY ValidLinks, ValidTypes, PlacesIdentify
<1>2. ASSUME NEW x \in OfVersion(v), NEW k \in 1 .. x.path.revision PROVE k \in RevisionsOf(OfVersion(v))
  <2>1. x \in History /\ x.path.version = v
    BY DEF OfVersion
  <2>2. x.path.revision \in Nat
    BY <2>1, NodeFacts, PathsAreOrdered
  <2>3. CASE \E n \in contracts : x.path = n.path
    BY <2>1, <2>3, ValidContractRevisions
  <2>4. CASE \E n \in contracts : x.path.version = n.path.version /\ x.path.revision < n.path.revision
    <3>1. PICK n \in contracts : x.path.version = n.path.version /\ x.path.revision < n.path.revision
      BY <2>4
    <3>2. n.path.revision \in Nat
      BY NodeFacts, PathsAreOrdered
    <3>3. k \in 1 .. n.path.revision
      BY <2>2, <3>1, <3>2
    <3> QED
      BY <2>1, <3>1, <3>3, ValidContractRevisions
  <2>5. CASE x \in Pending
    <3>1. \A q \in Pending : q \in OfVersion(v)
      BY <2>1, <2>5, PendingFollows, NodeFacts DEF OfVersion
    <3>2. \A r \in RevisionsOf(Pending) : r \in RevisionsOf(OfVersion(v))
      BY <3>1 DEF RevisionsOf
    <3>3. x.path.revision \in RevisionsOf(Pending)
      BY <2>5 DEF RevisionsOf
    <3>4. LastContract \in contracts
      BY ValidLinks, LastIsLast
    <3>5. LastContract.path.revision \in Nat
      BY <3>4, NodeFacts, PathsAreOrdered
    <3>6. Cardinality(Pending) \in Nat
      BY PendingFollows, FS_Subset, FS_CardinalityType DEF ChainTypeOK
    <3>7. CASE /\ x.path.version = LastContract.path.version
               /\ RevisionsOf(Pending)
                    = LastContract.path.revision + 1 .. LastContract.path.revision + Cardinality(Pending)
      <4>1. CASE k \in 1 .. LastContract.path.revision
        BY <2>1, <3>4, <3>7, <4>1, ValidContractRevisions
      <4>2. CASE k \notin 1 .. LastContract.path.revision
        <5>1. k \in RevisionsOf(Pending)
          BY <2>2, <3>3, <3>5, <3>6, <3>7, <4>2
        <5> QED
          BY <3>2, <5>1
      <4> QED
        BY <4>1, <4>2
    <3>8. CASE RevisionsOf(Pending) = 1 .. Cardinality(Pending)
      <4>1. k \in RevisionsOf(Pending)
        BY <2>2, <3>3, <3>6, <3>8
      <4> QED
        BY <3>2, <4>1
    <3> QED
      BY <2>5, <3>7, <3>8, PendingFollows
  <2> QED
    BY <2>1, <2>3, <2>4, <2>5, EntryKinds
<1> QED
  BY <1>1, <1>2, RevisionsFromOne

(* The versions of a history have a greatest.                              *)
LEMMA GreatestVersion ==
  ASSUME ChainTypeOK, History # {}
  PROVE  Max(Versions) \in Versions /\ \A v \in Versions : v \in Nat /\ v <= Max(Versions)
<1>1. \A v \in Versions : v \in Nat
  BY NodeFacts, PathsAreOrdered DEF Versions
<1>2. PICK e \in History : \A o \in History : ~Before(e.path, o.path)
  BY EntriesAreFinite, LastEntry
<1>3. e.path.version \in Versions
  BY DEF Versions
<1>4. \A o \in History : o.path.version <= e.path.version
  <2> SUFFICES ASSUME NEW o \in History PROVE o.path.version <= e.path.version
    OBVIOUS
  <2>1. o.path.version \in Nat /\ e.path.version \in Nat
    BY NodeFacts, PathsAreOrdered
  <2> QED
    BY <1>2, <2>1 DEF Before
<1>5. \E v \in Versions : \A w \in Versions : v >= w
  BY <1>1, <1>3, <1>4 DEF Versions
<1>6. Max(Versions) \in Versions /\ \A w \in Versions : Max(Versions) >= w
  BY <1>5 DEF Max
<1> QED
  BY <1>1, <1>6

(* In a valid chain a version that is not the last was left by a contract. *)
LEMMA ValidVersions ==
  ASSUME ChainTypeOK, ValidateContractChain, NEW v \in Versions, v # Max(Versions)
  PROVE  v + 1 \in Versions /\ Latest(OfVersion(v)) \in Published
<1> DEFINE t == LastContract.path
           mine == {n \in contracts : n.path.version = v}
<1>1. LastContract \in contracts /\ \A n \in contracts : n = LastContract \/ Before(n.path, LastContract.path)
  BY ValidLinks, LastIsLast
<1>2. \A n \in contracts : n.path.version \in Nat /\ n.path.revision \in Nat /\ n.path.version <= t.version
  BY <1>1, NodeFacts, PathsAreOrdered DEF Before
<1>3. PICK e \in History : e.path.version = v
  BY DEF Versions
<1>4. PICK o \in History : o.path.version > v
  <2>1. Max(Versions) \in Versions /\ v \in Nat /\ Max(Versions) \in Nat /\ v <= Max(Versions)
    BY <1>3, GreatestVersion
  <2> QED
    BY <2>1 DEF Versions
<1>5. v \in Nat /\ o.path.version \in Nat
  BY <1>3, NodeFacts, PathsAreOrdered
<1>6. \A q \in Pending : q.path.version \in {t.version, t.version + 1}
  BY PendingFollows
<1>7. o \in Pending \/ o.path.version <= t.version
  BY <1>2, EntryKinds
<1>8. \A q \in Pending : q.path.version # v
  <2> SUFFICES ASSUME NEW q \in Pending, q.path.version = v PROVE FALSE
    OBVIOUS
  <2>1. v >= t.version
    BY <1>1, <1>2, <1>6
  <2>2. o \in Pending
    BY <1>1, <1>2, <1>4, <1>5, <1>7, <2>1
  <2>3. o.path.version = v
    BY <2>2, PendingFollows
  <2> QED
    BY <1>4, <1>5, <2>3
<1>9. mine # {} /\ mine \in SUBSET contracts
  BY <1>3, <1>8, EntryKinds
<1>10. PICK n \in mine : \A m \in mine : ~Before(n.path, m.path)
  <2> HIDE DEF mine
  <2> QED
    BY <1>9, EntriesAreFinite, LastEntry
<1>11. n \in contracts /\ n.path.version = v
  OBVIOUS
<1>12. \A m \in contracts : m.path.version = v => m = n \/ Before(m.path, n.path)
  BY <1>10, <1>11, ValidLinks DEF InOrder
<1>13. BindingOf(n) \in OfVersion(v) /\ BindingOf(n).path = n.path /\ BindingOf(n) \in Published
  BY <1>11, NodeFacts DEF OfVersion, History
<1>14. ASSUME NEW x \in OfVersion(v) PROVE x = BindingOf(n) \/ Before(x.path, BindingOf(n).path)
  <2>1. x \in History /\ x.path.version = v /\ x \notin Pending
    BY <1>8 DEF OfVersion
  <2>2. CASE \E m \in contracts : x = BindingOf(m) /\ x.path = m.path
    BY <1>12, <1>13, <2>1, <2>2
  <2>3. CASE \E m \in contracts : x.path.version = m.path.version /\ Before(x.path, m.path)
    <3>1. PICK m \in contracts : x.path.version = m.path.version /\ Before(x.path, m.path)
      BY <2>3
    <3>2. m = n \/ Before(m.path, n.path)
      BY <1>12, <2>1, <3>1
    <3>3. x.path \in Paths /\ m.path \in Paths /\ n.path \in Paths
      BY <1>11, <2>1, NodeFacts
    <3> QED
      BY <1>13, <3>1, <3>2, <3>3, PathsAreOrdered
  <2> QED
    BY <2>1, <2>2, <2>3, EntryKinds
<1>15. Latest(OfVersion(v)) = BindingOf(n)
  <2>1. OfVersion(v) \in SUBSET History
    BY DEF OfVersion
  <2>2. Dated(OfVersion(v))
    BY <2>1, EntriesAreFinite
  <2> QED
    BY <1>13, <1>14, <2>2, LatestIs
<1>16. v + 1 \in Versions
  <2>1. CASE n = LastContract
    <3>1. o \in Pending /\ o.path.version # t.version
      BY <1>4, <1>5, <1>7, <1>11, <2>1
    <3>2. o.path.version = v + 1
      BY <1>6, <1>11, <2>1, <3>1
    <3> QED
      BY <3>2 DEF Versions
  <2>2. CASE n # LastContract
    <3>1. PICK s \in contracts : Follows(n, s)
      BY <1>11, <2>2, ValidLinks, LastIsLast
    <3>2. SemanticTransition(n.path, s.path)
      BY <1>11, <3>1, ValidLinks DEF Follows
    <3>3. s.path.version # v
      BY <1>10, <3>1 DEF Follows
    <3>4. s.path.version = v + 1
      BY <1>2, <1>11, <3>2, <3>3 DEF SemanticTransition
    <3>5. BindingOf(s) \in History /\ BindingOf(s).path = s.path
      BY NodeFacts DEF History
    <3> QED
      BY <3>4, <3>5 DEF Versions
  <2> QED
    BY <2>1, <2>2
<1> QED
  BY <1>13, <1>15, <1>16

(* What the validator accepts is complete.                                 *)
LEMMA ValidIsGapless == ASSUME ChainTypeOK, ValidateContractChain PROVE GaplessHistory
<1>1. Identified /\ InOrder /\ OneType
  BY ValidLinks, ValidTypes
<1>2. contracts # {} /\ \A left, right \in History : left # right => left.digest # right.digest
  BY <1>1 DEF Identified
<1>3. Cardinality(History) = Cardinality(contracts) + Cardinality(quarantined)
  BY <1>1, HistoryCounts DEF Identified
<1>4. ASSUME NEW v \in Versions PROVE GaplessVersion(v)
  <2>1. PICK e \in History : e.path.version = v
    BY DEF Versions
  <2>2. {entry.path.type : entry \in OfVersion(v)} = {e.path.type}
    BY <1>1, <2>1 DEF OneType, OfVersion
  <2>3. Cardinality({e.path.type}) = 1
    BY FS_Singleton
  <2>4. {entry.path.revision : entry \in OfVersion(v)} = 1 .. Cardinality(OfVersion(v))
    BY ValidRevisions DEF RevisionsOf
  <2>5. v # Max(Versions) => v + 1 \in Versions /\ Latest(OfVersion(v)) \in Published
    BY ValidVersions
  <2> QED
    BY <2>2, <2>3, <2>4, <2>5 DEF GaplessVersion
<1>5. ASSUME NEW n \in contracts PROVE InItsPlace(n)
  <2>1. n.recoveries = {BindingOf(attempt) : attempt \in AttemptsInGap(n)}
    BY DEF ValidateContractChain, ExpectedGap
  <2>2. {BindingOf(attempt) : attempt \in AttemptsInGap(n)} = AttemptsInGap(n)
    BY <1>1, GapFacts
  <2>3. n.recoveries = AttemptsInGap(n)
    BY <2>1, <2>2
  <2>4. n.supersedes = IF Earlier(n) = {} THEN NoBinding ELSE Latest(Earlier(n))
    BY <1>1 DEF InOrder
  <2> QED
    BY <1>1, <2>3, <2>4, GapIsBetween DEF InItsPlace
<1> QED
  BY <1>2, <1>3, <1>4, <1>5 DEF GaplessHistory

(* Conversely, the entries of a complete history have places of their own. *)
LEMMA RevisionsDiffer ==
  ASSUME NEW S, IsFiniteSet(S), RevisionsOf(S) = 1 .. Cardinality(S)
  PROVE  \A x, y \in S : x.path.revision = y.path.revision => x = y
<1> DEFINE f == [x \in S |-> x.path.revision]
           R == 1 .. Cardinality(S)
<1>1. /\ f \in [S -> R] /\ \A r \in R : \E x \in S : f[x] = r
      /\ \A x \in S : f[x] = x.path.revision
  BY DEF RevisionsOf
<1>2. Cardinality(R) = Cardinality(S)
  <2>1. Cardinality(S) \in Nat
    BY FS_CardinalityType
  <2>2. Cardinality(R) = IF 1 > Cardinality(S) THEN 0 ELSE Cardinality(S) - 1 + 1
    BY <2>1, FS_Interval
  <2> QED
    BY <2>1, <2>2
<1> HIDE DEF f, R
<1>3. f \in Surjection(S, R)
  BY <1>1 DEF Surjection
<1>4. f \in Injection(S, R)
  BY <1>2, <1>3, FS_Surjection
<1>5. DOMAIN f = S
  BY <1>1
<1> QED
  BY <1>1, <1>4, <1>5 DEF Injection, IsInjective

(* In a complete history places are taken once and contracts are in order. *)
LEMMA GaplessIsOrdered ==
  ASSUME ChainTypeOK, GaplessHistory
  PROVE  Identified /\ OneType /\ InOrder
<1>1. ASSUME NEW v \in Versions
      PROVE  /\ \A e, o \in OfVersion(v) : e.path.type = o.path.type
             /\ \A e, o \in OfVersion(v) : e.path.revision = o.path.revision => e = o
  <2> DEFINE S == OfVersion(v)
             types == {entry.path.type : entry \in S}
             f == [x \in S |-> x.path.type]
  <2>1. OfVersion(v) \in SUBSET History
    BY DEF OfVersion
  <2>2. IsFiniteSet(S)
    BY <2>1, EntriesAreFinite
  <2>3. f \in [S -> types] /\ \A r \in types : \E x \in S : f[x] = r
    OBVIOUS
  <2>4. GaplessVersion(v)
    BY DEF GaplessHistory
  <2>5. Cardinality(types) = 1 /\ RevisionsOf(S) = 1 .. Cardinality(S)
    BY <2>4 DEF GaplessVersion, RevisionsOf
  <2>6. \A e \in S : e.path.type \in types
    OBVIOUS
  <2> HIDE DEF S, types, f
  <2>7. f \in Surjection(S, types)
    BY <2>3 DEF Surjection
  <2>8. IsFiniteSet(types)
    BY <2>2, <2>7, FS_Surjection
  <2>9. \A x, y \in types : x = y
    BY <2>5, <2>8, AtMostOne
  <2>10. \A x, y \in S : x.path.revision = y.path.revision => x = y
    BY <2>2, <2>5, RevisionsDiffer
  <2> QED
    BY <2>6, <2>9, <2>10 DEF S
<1>2. \A e \in History : e.path.version \in Versions /\ e \in OfVersion(e.path.version)
  BY DEF Versions, OfVersion
<1>3. OneType
  <2> SUFFICES ASSUME NEW e \in History, NEW o \in History, e.path.version = o.path.version
               PROVE  e.path.type = o.path.type
    BY DEF OneType
  <2>1. e \in OfVersion(e.path.version) /\ o \in OfVersion(e.path.version)
    BY <1>2
  <2> QED
    BY <1>1, <1>2, <2>1
<1>4. ASSUME NEW e \in History, NEW o \in History, e # o PROVE e.path # o.path
  <2> SUFFICES ASSUME e.path = o.path PROVE FALSE
    OBVIOUS
  <2>1. e \in OfVersion(e.path.version) /\ o \in OfVersion(e.path.version)
    BY <1>2
  <2> QED
    BY <1>1, <1>2, <1>4, <2>1
<1>5. Identified
  <2>1. Distinct
    BY HistoryCounts DEF GaplessHistory
  <2> QED
    BY <1>4, <2>1 DEF Identified, GaplessHistory
<1>6. InOrder
  <2>1. \A a, b \in contracts : a = b \/ Before(a.path, b.path) \/ Before(b.path, a.path)
    BY <1>3, <1>5, PlacesIdentify
  <2>2. \A n \in contracts :
          n.supersedes = IF Earlier(n) = {} THEN NoBinding ELSE Latest(Earlier(n))
    BY DEF GaplessHistory, InItsPlace
  <2> QED
    BY <1>5, <2>1, <2>2 DEF InOrder
<1> QED
  BY <1>3, <1>5, <1>6

(* A version that is left was left by publishing a contract.               *)
LEMMA VersionsAreLeft ==
  ASSUME ChainTypeOK, GaplessHistory, NEW e \in History, NEW o \in History,
         e.path.version < o.path.version
  PROVE  /\ e.path.version + 1 \in Versions
         /\ \E c \in contracts : /\ c.path.version = e.path.version
                                 /\ e.path = c.path \/ Before(e.path, c.path)
<1> DEFINE v == e.path.version
<1>1. v \in Versions /\ o.path.version \in Versions
  BY DEF Versions
<1>2. v \in Nat /\ o.path.version \in Nat
  BY NodeFacts, PathsAreOrdered
<1>3. v # Max(Versions)
  <2>1. o.path.version <= Max(Versions)
    BY <1>1, GreatestVersion
  <2> QED
    BY <1>2, <2>1
<1>4. v + 1 \in Versions /\ Latest(OfVersion(v)) \in Published
  BY <1>1, <1>3 DEF GaplessHistory, GaplessVersion
<1>5. e \in OfVersion(v) /\ OfVersion(v) \in SUBSET History
  BY DEF OfVersion
<1>6. Dated(OfVersion(v)) /\ IsFiniteSet(OfVersion(v))
  BY <1>5, EntriesAreFinite
<1>7. Latest(OfVersion(v)) \in OfVersion(v) /\ ~Before(Latest(OfVersion(v)).path, e.path)
  BY <1>5, <1>6, LatestOf
<1>8. PICK c \in contracts : Latest(OfVersion(v)) = BindingOf(c) /\ BindingOf(c).path = c.path
  BY <1>4, NodeFacts
<1>9. c.path.version = v /\ BindingOf(c) \in History /\ ~Before(c.path, e.path)
  BY <1>7, <1>8 DEF OfVersion
<1>10. e = BindingOf(c) \/ Before(e.path, c.path)
  BY <1>8, <1>9, GaplessIsOrdered, PlacesIdentify
<1> QED
  BY <1>4, <1>8, <1>9, <1>10

(* In a complete history each contract is of the version of its            *)
(* predecessor or of the next.                                             *)
LEMMA GaplessSteps ==
  ASSUME ChainTypeOK, GaplessHistory, NEW n \in contracts, NEW p \in contracts, Follows(p, n)
  PROVE  SemanticTransition(p.path, n.path)
<1>1. BindingOf(p) \in History /\ BindingOf(n) \in History
      /\ BindingOf(p).path = p.path /\ BindingOf(n).path = n.path
  BY NodeFacts DEF History
<1>2. p.path.version \in Nat /\ n.path.version \in Nat
  BY NodeFacts, PathsAreOrdered
<1>3. p.path.version <= n.path.version
  BY <1>2 DEF Follows, Before
<1>4. p.path.version = n.path.version => p.path.type = n.path.type
  BY <1>1, GaplessIsOrdered DEF OneType
<1>5. n.path.version <= p.path.version + 1
  <2> SUFFICES ASSUME n.path.version > p.path.version + 1 PROVE FALSE
    BY <1>2
  <2>1. p.path.version + 1 \in Versions
    BY <1>1, <1>2, VersionsAreLeft
  <2>2. PICK e \in History : e.path.version = p.path.version + 1
    BY <2>1 DEF Versions
  <2>3. PICK c \in contracts : c.path.version = p.path.version + 1
    BY <1>1, <2>2, VersionsAreLeft
  <2>4. Before(c.path, n.path) /\ Before(p.path, c.path)
    BY <1>2, <2>3 DEF Before
  <2>5. c = p \/ Before(c.path, p.path)
    BY <2>4 DEF Follows
  <2>6. c.path \in Paths /\ p.path \in Paths
    BY NodeFacts
  <2> QED
    BY <2>4, <2>5, <2>6, PathsAreOrdered
<1> QED
  BY <1>3, <1>4, <1>5 DEF SemanticTransition

(* In a complete history each contract recovers all that was attempted     *)
(* since its predecessor.                                                  *)
LEMMA GaplessGaps ==
  ASSUME ChainTypeOK, GaplessHistory, NEW n \in contracts
  PROVE  ExpectedGap(n)
<1> DEFINE v == n.path.version
           gap == AttemptsInGap(n)
<1>1. Identified /\ OneType /\ InOrder
  BY GaplessIsOrdered
<1>2. v \in Nat /\ n.path.revision \in Nat \ {0} /\ FirstRevision(n) \in Nat \ {0}
  BY NodeFacts, PathsAreOrdered, GapBegins
<1>3. n.supersedes # NoBinding => \E p \in contracts : Follows(p, n) /\ SemanticTransition(p.path, n.path)
  BY <1>1, Predecessors, GaplessSteps
<1>4. n.supersedes # NoBinding => SemanticTransition(n.supersedes.path, n.path)
  BY <1>3, NodeFacts DEF Follows
<1>5. FirstRevision(n) <= n.path.revision
  <2>1. CASE n.supersedes = NoBinding
    BY <1>2, <2>1, GapBegins
  <2>2. CASE n.supersedes # NoBinding
    <3>1. PICK p \in contracts : Follows(p, n)
      BY <1>3, <2>2
    <3>2. FirstRevision(n) = IF p.path.version = n.path.version THEN p.path.revision + 1 ELSE 1
      BY <3>1, GapBegins DEF Follows
    <3>3. p.path.version \in Nat /\ p.path.revision \in Nat
      BY NodeFacts, PathsAreOrdered
    <3> QED
      BY <1>2, <3>1, <3>2, <3>3 DEF Follows, Before
  <2> QED
    BY <2>1, <2>2
<1>6. BindingOf(n) \in OfVersion(v) /\ v \in Versions /\ BindingOf(n).path = n.path
  <2>1. BindingOf(n) \in History /\ BindingOf(n).path = n.path
    BY NodeFacts DEF History
  <2> QED
    BY <2>1 DEF OfVersion, Versions
<1>7. RevisionsOf(OfVersion(v)) = 1 .. Cardinality(OfVersion(v)) /\ Cardinality(OfVersion(v)) \in Nat
  <2>1. OneEach(OfVersion(v))
    BY <1>1, PlacesIdentify
  <2>2. GaplessVersion(v)
    BY <1>6 DEF GaplessHistory
  <2> QED
    BY <2>1, <2>2, RevisionsCount DEF GaplessVersion, RevisionsOf
<1>8. ASSUME NEW k \in FirstRevision(n) .. n.path.revision - 1 PROVE k \in RevisionsOf(gap)
  <2>1. n.path.revision \in RevisionsOf(OfVersion(v))
    BY <1>6 DEF RevisionsOf
  <2>2. k \in RevisionsOf(OfVersion(v))
    BY <1>2, <1>7, <2>1
  <2>3. PICK e \in OfVersion(v) : e.path.revision = k
    BY <2>2 DEF RevisionsOf
  <2>4. e \in History /\ e.path.version = v
    BY DEF OfVersion
  <2>5. Before(e.path, n.path)
    BY <1>2, <2>3, <2>4 DEF Before
  <2>6. e \notin Published
    <3> SUFFICES ASSUME e \in Published PROVE FALSE
      OBVIOUS
    <3>1. PICK m \in contracts : e = BindingOf(m) /\ e.path = m.path
      BY NodeFacts
    <3>2. n.supersedes # NoBinding
      BY <1>1, <2>5, <3>1, Predecessors
    <3>3. PICK p \in contracts : Follows(p, n)
      BY <1>3, <3>2
    <3>4. m = p \/ Before(m.path, p.path)
      BY <2>5, <3>1, <3>3 DEF Follows
    <3>5. FirstRevision(n) = IF p.path.version = n.path.version THEN p.path.revision + 1 ELSE 1
      BY <3>3, GapBegins DEF Follows
    <3>6. /\ p.path.version \in Nat /\ p.path.revision \in Nat
          /\ m.path.version = v /\ m.path.revision = k
      BY <2>3, <2>4, <3>1, NodeFacts, PathsAreOrdered
    <3>7. p.path.version <= v
      BY <1>2, <3>3, <3>6 DEF Follows, Before
    <3> QED
      BY <1>2, <3>4, <3>5, <3>6, <3>7 DEF Before
  <2>7. e \in quarantined
    BY <2>4, <2>6, NodeFacts
  <2>8. e.path.type = n.path.type
    BY <1>1, <1>6, <2>4 DEF OneType, OfVersion
  <2>9. e \in gap
    BY <1>2, <2>3, <2>4, <2>7, <2>8 DEF AttemptsInGap
  <2> QED
    BY <2>3, <2>9 DEF RevisionsOf
<1>9. /\ OneEach(gap) /\ {BindingOf(attempt) : attempt \in gap} = gap
      /\ RevisionsOf(gap) \subseteq FirstRevision(n) .. n.path.revision - 1
  BY <1>1, GapFacts
<1>10. RevisionsOf(gap) = FirstRevision(n) .. n.path.revision - 1
  <2> HIDE DEF gap
  <2> QED
    BY <1>8, <1>9
<1>11. Cardinality(gap) = n.path.revision - FirstRevision(n)
  <2> HIDE DEF gap
  <2> QED
    BY <1>2, <1>5, <1>9, <1>10, RevisionsFill
<1>12. n.recoveries = gap
  <2>1. InItsPlace(n)
    BY DEF GaplessHistory
  <2> QED
    BY <1>1, <2>1, GapIsBetween DEF InItsPlace
<1> QED
  BY <1>4, <1>5, <1>9, <1>11, <1>12 DEF ExpectedGap

(* What is pending comes after all contracts of its version.               *)
LEMMA NothingAfterPending ==
  ASSUME ChainTypeOK, GaplessHistory, NEW q \in Pending, NEW n \in contracts,
         n.path.version = q.path.version
  PROVE  Before(n.path, q.path)
<1> DEFINE later == {m \in contracts : m.path.version = q.path.version /\ Before(q.path, m.path)}
<1>1. q \in quarantined /\ q \in History /\ \A m \in contracts : q \notin AttemptsInGap(m)
  BY NodeFacts DEF Pending
<1>2. Identified /\ OneType /\ InOrder
  BY GaplessIsOrdered
<1>3. ASSUME NEW m \in contracts PROVE Before(m.path, q.path) \/ Before(q.path, m.path)
  <2>1. BindingOf(m) \in Published /\ BindingOf(m) \in History /\ BindingOf(m).path = m.path
    BY NodeFacts DEF History
  <2>2. BindingOf(m) # q
    BY <1>1, <1>2, <2>1 DEF Identified, Distinct
  <2> QED
    BY <1>1, <1>2, <2>1, <2>2, PlacesIdentify
<1>4. later = {}
  <2> SUFFICES ASSUME later # {} PROVE FALSE
    OBVIOUS
  <2>1. later \in SUBSET contracts
    OBVIOUS
  <2>2. PICK m \in later : \A o \in later : ~Before(o.path, m.path)
    <3> HIDE DEF later
    <3> QED
      BY <2>1, EntriesAreFinite, FirstEntry
  <2>3. m \in contracts /\ m.path.version = q.path.version /\ Before(q.path, m.path)
    OBVIOUS
  <2>4. /\ m.path.version \in Nat /\ m.path.revision \in Nat
        /\ q.path.version \in Nat /\ q.path.revision \in Nat \ {0}
    BY <1>1, <2>3, NodeFacts, PathsAreOrdered
  <2>5. q.path.revision < m.path.revision
    BY <2>3, <2>4 DEF Before
  <2>6. q.path.type = m.path.type
    <3>1. BindingOf(m) \in History /\ BindingOf(m).path = m.path
      BY <2>3, NodeFacts DEF History
    <3> QED
      BY <1>1, <1>2, <2>3, <3>1 DEF OneType
  <2>7. q.path.revision >= FirstRevision(m)
    <3>1. CASE m.supersedes = NoBinding
      <4>1. FirstRevision(m) = 1
        BY <2>3, <3>1, GapBegins
      <4> QED
        BY <2>4, <4>1
    <3>2. CASE m.supersedes # NoBinding
      <4>1. PICK p \in contracts : Follows(p, m)
        BY <1>2, <2>3, <3>2, Predecessors
      <4>2. FirstRevision(m) = IF p.path.version = m.path.version THEN p.path.revision + 1 ELSE 1
        BY <2>3, <4>1, GapBegins DEF Follows
      <4>3. p.path.version \in Nat /\ p.path.revision \in Nat
        BY NodeFacts, PathsAreOrdered
      <4>4. p.path.version = m.path.version => Before(p.path, q.path)
        <5>1. p.path.version = m.path.version /\ Before(q.path, p.path) => p \in later
          BY <2>3
        <5>2. p \notin later
          BY <2>2, <4>1 DEF Follows
        <5> QED
          BY <1>3, <5>1, <5>2
      <4>5. p.path.version = m.path.version => p.path.revision < q.path.revision
        BY <2>3, <2>4, <4>3, <4>4 DEF Before
      <4> QED
        BY <2>4, <4>2, <4>3, <4>5
    <3> QED
      BY <3>1, <3>2
  <2>8. q \in AttemptsInGap(m)
    BY <1>1, <2>3, <2>5, <2>6, <2>7 DEF AttemptsInGap
  <2> QED
    BY <1>1, <2>3, <2>8
<1> QED
  BY <1>3, <1>4

(* In a complete history what is pending follows the last contract.        *)
LEMMA GaplessPending == ASSUME ChainTypeOK, GaplessHistory PROVE PendingQuarantine
<1> DEFINE t == LastContract.path
           last == BindingOf(LastContract)
           first == CHOOSE attempt \in Pending : \A other \in Pending : ~Before(other.path, attempt.path)
           w == first.path.version
           start == IF w = t.version THEN t.revision + 1 ELSE 1
           all == Cardinality(OfVersion(w))
<1> SUFFICES ASSUME Pending # {}
             PROVE  /\ \/ w = t.version /\ first.path.type = t.type
                       \/ w = t.version + 1
                    /\ \A a \in Pending : a.path.version = w /\ a.path.type = first.path.type
                    /\ {a.path.revision : a \in Pending} = start .. start + Cardinality(Pending) - 1
  BY DEF PendingQuarantine
<1>1. Identified /\ OneType /\ InOrder
  BY GaplessIsOrdered
<1>2. LastContract \in contracts /\ \A n \in contracts : n = LastContract \/ Before(n.path, LastContract.path)
  BY <1>1, LastIsLast
<1>3. last \in History /\ last.path = t /\ t.version \in Nat /\ t.revision \in Nat /\ t \in Paths
  BY <1>2, NodeFacts, PathsAreOrdered DEF History
<1>4. \A n \in contracts : /\ n.path.version \in Nat /\ n.path.revision \in Nat
                           /\ n.path.version <= t.version
                           /\ n.path.version = t.version => n.path.revision <= t.revision
  BY <1>2, NodeFacts, PathsAreOrdered DEF Before
<1>5. Pending \in SUBSET quarantined /\ Pending \in SUBSET History
  BY NodeFacts DEF Pending
<1>6. \A q \in Pending : q.path \in Paths /\ q.path.version \in Nat /\ q.path.revision \in Nat \ {0}
  BY <1>5, NodeFacts, PathsAreOrdered
<1>7. first \in Pending
  <2>1. \E a \in Pending : \A other \in Pending : ~Before(other.path, a.path)
    BY <1>5, EntriesAreFinite, FirstEntry
  <2> QED
    BY <2>1
<1> HIDE DEF first, t, last
<1>8. ASSUME NEW q \in Pending, NEW o \in History, q.path.version < o.path.version PROVE FALSE
  <2>1. PICK c \in contracts :
          c.path.version = q.path.version /\ (q.path = c.path \/ Before(q.path, c.path))
    BY <1>5, <1>8, VersionsAreLeft
  <2>2. Before(c.path, q.path)
    BY <2>1, NothingAfterPending
  <2>3. c.path \in Paths
    BY NodeFacts
  <2> QED
    BY <1>6, <2>1, <2>2, <2>3, PathsAreOrdered
<1>9. \A q \in Pending : q.path.version >= t.version
  BY <1>3, <1>6, <1>8
<1>10. ASSUME NEW q \in Pending PROVE q.path.version <= t.version + 1
  <2> SUFFICES ASSUME q.path.version > t.version + 1 PROVE FALSE
    BY <1>3, <1>6
  <2>1. t.version + 1 \in Versions
    BY <1>3, <1>5, <1>6, VersionsAreLeft
  <2>2. PICK e \in History : e.path.version = t.version + 1
    BY <2>1 DEF Versions
  <2>3. PICK c \in contracts : c.path.version = t.version + 1
    BY <1>5, <2>2, VersionsAreLeft
  <2> QED
    BY <1>3, <1>4, <2>3
<1>11. ASSUME NEW a \in Pending PROVE a.path.version = w /\ a.path.type = first.path.type
  <2>1. a.path.version = w
    BY <1>5, <1>6, <1>7, <1>8
  <2> QED
    BY <1>1, <1>5, <1>7, <2>1 DEF OneType
<1>12. w = t.version => first.path.type = t.type
  BY <1>1, <1>3, <1>5, <1>7 DEF OneType
<1>13. w \in {t.version, t.version + 1}
  BY <1>3, <1>6, <1>7, <1>9, <1>10
<1>14. w \in Versions /\ Pending \in SUBSET OfVersion(w)
  BY <1>5, <1>7, <1>11 DEF Versions, OfVersion
<1>15. OneEach(OfVersion(w)) /\ OneEach(Pending)
  <2>1. OneEach(OfVersion(w))
    BY <1>1, PlacesIdentify
  <2> QED
    BY <1>14, <2>1, FS_Subset DEF OneEach, Dated
<1>16. all \in Nat /\ RevisionsOf(OfVersion(w)) = 1 .. all
  <2>1. GaplessVersion(w)
    BY <1>14 DEF GaplessHistory
  <2> QED
    BY <1>15, <2>1, RevisionsCount DEF GaplessVersion, RevisionsOf
<1>17. \A q \in Pending : q.path.revision \in 1 .. all
  BY <1>14, <1>16 DEF RevisionsOf
<1>18. ASSUME NEW k \in 1 .. all
       PROVE  k \in RevisionsOf(Pending) \/ (w = t.version /\ k <= t.revision)
  <2>1. PICK e \in OfVersion(w) : e.path.revision = k
    BY <1>16 DEF RevisionsOf
  <2>2. e \in History /\ e.path.version = w
    BY DEF OfVersion
  <2>3. CASE \E n \in contracts : e.path = n.path
    BY <1>3, <1>4, <1>13, <2>1, <2>2, <2>3
  <2>4. CASE \E n \in contracts : e.path.version = n.path.version /\ e.path.revision < n.path.revision
    BY <1>3, <1>4, <1>13, <2>1, <2>2, <2>4
  <2>5. CASE e \in Pending
    BY <2>1, <2>5 DEF RevisionsOf
  <2> QED
    BY <2>2, <2>3, <2>4, <2>5, EntryKinds
<1>19. CASE w = t.version
  <2>1. \A q \in Pending : q.path.revision > t.revision
    <3> SUFFICES ASSUME NEW q \in Pending PROVE q.path.revision > t.revision
      OBVIOUS
    <3>1. q.path.version = t.version
      BY <1>11, <1>19
    <3>2. Before(t, q.path)
      BY <1>2, <3>1, NothingAfterPending DEF t
    <3> QED
      BY <1>3, <1>6, <3>1, <3>2 DEF Before
  <2>2. t.revision <= all
    <3>1. last \in OfVersion(w)
      BY <1>3, <1>19 DEF OfVersion
    <3>2. t.revision \in RevisionsOf(OfVersion(w))
      BY <1>3, <3>1 DEF RevisionsOf
    <3> QED
      BY <1>3, <1>16, <3>2
  <2>3. RevisionsOf(Pending) = t.revision + 1 .. all
    <3>1. \A k \in RevisionsOf(Pending) : k \in t.revision + 1 .. all
      BY <1>3, <1>16, <1>17, <2>1 DEF RevisionsOf
    <3>2. \A k \in t.revision + 1 .. all : k \in RevisionsOf(Pending)
      BY <1>3, <1>16, <1>18
    <3> QED
      BY <3>1, <3>2
  <2>4. RevisionsOf(Pending) = t.revision + 1 .. t.revision + 1 + Cardinality(Pending) - 1
    <3> HIDE DEF all
    <3>1. t.revision + 1 \in Nat /\ t.revision + 1 <= all + 1
      BY <1>3, <1>16, <2>2
    <3> QED
      BY <1>15, <1>16, <2>3, <3>1, RevisionsFrom
  <2>5. RevisionsOf(Pending) = start .. start + Cardinality(Pending) - 1
    BY <1>19, <2>4
  <2> QED
    BY <1>11, <1>12, <1>19, <2>5 DEF RevisionsOf
<1>20. CASE w # t.version
  <2>1. RevisionsOf(Pending) = 1 .. all
    <3>1. \A k \in RevisionsOf(Pending) : k \in 1 .. all
      BY <1>17 DEF RevisionsOf
    <3>2. \A k \in 1 .. all : k \in RevisionsOf(Pending)
      BY <1>18, <1>20
    <3> QED
      BY <3>1, <3>2
  <2>2. RevisionsOf(Pending) = 1 .. 1 + Cardinality(Pending) - 1
    <3> HIDE DEF all
    <3>1. 1 \in Nat /\ 1 <= all + 1
      BY <1>16
    <3> QED
      BY <1>15, <1>16, <2>1, <3>1, RevisionsFrom
  <2>3. RevisionsOf(Pending) = start .. start + Cardinality(Pending) - 1
    BY <1>20, <2>2
  <2> QED
    BY <1>11, <1>13, <1>20, <2>3 DEF RevisionsOf
<1> QED
  BY <1>19, <1>20

(* The validator accepts exactly the complete histories, for any paths and *)
(* any number of contracts and attempts.                                   *)
THEOREM ChainsAreAlwaysGapless == ChainSpec => []ChainsAreGapless
<1>1. ChainTypeOK => ChainsAreGapless
  <2> SUFFICES ASSUME ChainTypeOK PROVE ChainsAreGapless
    OBVIOUS
  <2>1. ASSUME GaplessHistory PROVE ValidateContractChain
    <3>1. PrepareChain
      BY <2>1, GaplessIsOrdered, PreparedIsIdentified
    <3>2. PredecessorsPresent /\ CycleFree /\ ChainTopology
      BY <2>1, GaplessIsOrdered, OrderedIsAChain
    <3>3. \A n \in contracts : ExpectedGap(n)
      BY <2>1, GaplessGaps
    <3>4. PendingQuarantine
      BY <2>1, GaplessPending
    <3> QED
      BY <3>1, <3>2, <3>3, <3>4 DEF ValidateContractChain
  <2> QED
    BY <2>1, ValidIsGapless DEF ChainsAreGapless
<1> QED
  BY <1>1, ChainTypeCorrect, PTL

(* What an accepted receipt adds closes the gap after the last contract.   *)
LEMMA ReceiptExtends ==
  ASSUME ChainTypeOK, ChainTypeOK', ValidateContractChain, PublishContract,
         NEW c \in contracts' \ contracts,
         HistoryAccepted(c, FALSE), c.supersedes = BindingOf(LastContract),
         \A node \in contracts \cup quarantined :
           node.digest # c.digest /\ Before(node.path, c.path),
         \A q \in quarantined : q.path.version < c.path.version => Before(q.path, c.supersedes.path)
  PROVE  ValidateContractChain'
<1>1. contracts' = contracts \cup {c} /\ quarantined' = quarantined /\ c.recoveries \in SUBSET quarantined
  <2>1. PICK where \in Paths, recovered \in SUBSET {BindingOf(attempt) : attempt \in quarantined},
               supersedes \in {NoBinding} \cup {BindingOf(node) : node \in contracts} :
            \E digest \in Digests(where) :
            contracts' = contracts \cup {[path |-> where, digest |-> digest, supersedes |-> supersedes,
                                          recoveries |-> recovered]}
    BY DEF PublishContract
  <2>2. PICK digest \in Digests(where) :
            contracts' = contracts \cup {[path |-> where, digest |-> digest, supersedes |-> supersedes,
                                          recoveries |-> recovered]}
    BY <2>1
  <2>3. c = [path |-> where, digest |-> digest, supersedes |-> supersedes, recoveries |-> recovered]
    BY <2>2
  <2>4. c.recoveries \in SUBSET Attempted
    BY <2>3 DEF Attempted
  <2> QED
    BY <2>2, <2>3, <2>4, NodeFacts DEF PublishContract
<1>2. /\ c.path \in Paths /\ c.digest \in Paths
      /\ c.path.version \in Nat /\ c.path.revision \in Nat \ {0}
  <2>1. c.path \in Paths /\ c.digest \in Paths
    BY DEF ChainTypeOK, Contract
  <2> QED
    BY <2>1, PathsAreOrdered
<1>3. PICK t \in contracts :
        t = LastContract /\ \A n \in contracts : n = t \/ Before(n.path, t.path)
  BY ValidLinks, LastIsLast
<1>4. /\ c.supersedes = BindingOf(t) /\ BindingOf(t) # NoBinding /\ BindingOf(t).path = t.path
      /\ t.path \in Paths /\ t.path.version \in Nat /\ t.path.revision \in Nat
  BY <1>3, NodeFacts, PathsAreOrdered
<1>5. Identified /\ OneType /\ InOrder
  BY ValidLinks, ValidTypes
<1>6. \A n \in contracts : n.path # c.path /\ n.digest # c.digest /\ BindingOf(n) # BindingOf(c)
  <2> SUFFICES ASSUME NEW n \in contracts
               PROVE  n.path # c.path /\ n.digest # c.digest /\ BindingOf(n) # BindingOf(c)
    OBVIOUS
  <2>1. n.digest # c.digest /\ Before(n.path, c.path)
    OBVIOUS
  <2>2. n.path # c.path
    BY <1>2, <2>1, NodeFacts, PathsAreOrdered
  <2>3. BindingOf(n).path = n.path /\ BindingOf(c).path = c.path
    BY DEF BindingOf
  <2> QED
    BY <2>1, <2>2, <2>3
<1>7. \A q \in quarantined : q.path # c.path /\ q.digest # c.digest
  BY <1>2, NodeFacts, PathsAreOrdered
<1>8. \A n \in contracts : n.supersedes # BindingOf(c)
  <2> SUFFICES ASSUME NEW n \in contracts, n.supersedes = BindingOf(c) PROVE FALSE
    OBVIOUS
  <2>1. n.supersedes # NoBinding
    <3>1. BindingOf(c) \in ChainBinding
      BY <1>2 DEF BindingOf, ChainBinding
    <3> QED
      BY <3>1, NodeFacts
  <2>2. PICK p \in contracts : Follows(p, n)
    BY <1>5, <2>1, Predecessors
  <2> QED
    BY <1>6, <2>2 DEF Follows
<1>9. /\ c.path.version \in {t.path.version, t.path.version + 1}
      /\ t.path.version = c.path.version => t.path.type = c.path.type
      /\ FirstRevision(c) <= c.path.revision
      /\ Cardinality(c.recoveries) = c.path.revision - FirstRevision(c)
      /\ \A r \in c.recoveries :
           /\ r.path.type = c.path.type /\ r.path.version = c.path.version
           /\ r.path.revision \in FirstRevision(c) .. c.path.revision - 1
  <2>1. CASE t.path.version = c.path.version
    <3>1. FirstRevision(c) = t.path.revision + 1
      BY <1>4, <2>1 DEF FirstRevision
    <3> QED
      BY <1>4, <2>1, <3>1 DEF HistoryAccepted
  <2>2. CASE t.path.version # c.path.version
    <3>1. FirstRevision(c) = 1
      BY <1>4, <2>2 DEF FirstRevision
    <3> QED
      BY <1>4, <2>2, <3>1 DEF HistoryAccepted
  <2> QED
    BY <2>1, <2>2
<1>10. FirstRevision(c) = IF t.path.version = c.path.version THEN t.path.revision + 1 ELSE 1
  BY <1>4 DEF FirstRevision
<1> DEFINE gap == AttemptsInGap(c)
<1>11. /\ gap \in SUBSET quarantined /\ IsFiniteSet(gap)
       /\ {BindingOf(attempt) : attempt \in gap} = gap /\ gap \in SUBSET OfVersion(c.path.version)
  <2>1. gap \in SUBSET quarantined
    BY DEF AttemptsInGap
  <2>2. IsFiniteSet(gap)
    BY <2>1, FS_Subset DEF ChainTypeOK
  <2>3. \A q \in gap : BindingOf(q) = q /\ q \in History /\ q.path.version = c.path.version
    BY <2>1, NodeFacts DEF AttemptsInGap
  <2>4. {BindingOf(attempt) : attempt \in gap} = gap
    BY <2>3
  <2>5. gap \in SUBSET OfVersion(c.path.version)
    BY <2>3 DEF OfVersion
  <2> QED
    BY <2>1, <2>2, <2>4, <2>5
<1>12. FirstRevision(c) \in Nat
  BY <1>4, <1>10
<1>13. c.recoveries \in SUBSET gap
  <2> SUFFICES ASSUME NEW r \in c.recoveries PROVE r \in gap
    OBVIOUS
  <2>1. r \in quarantined /\ r.path.type = c.path.type /\ r.path.version = c.path.version
    BY <1>1, <1>9
  <2>2. r.path.revision >= FirstRevision(c) /\ r.path.revision < c.path.revision
    BY <1>2, <1>9, <1>12
  <2> QED
    BY <2>1, <2>2 DEF AttemptsInGap
<1>14. OneEach(gap) /\ RevisionsOf(gap) \subseteq FirstRevision(c) .. c.path.revision - 1
  <2>1. OneEach(OfVersion(c.path.version))
    BY <1>5, PlacesIdentify
  <2>2. OneEach(gap)
    BY <1>11, <2>1 DEF OneEach, Dated
  <2>3. \A q \in gap : q.path.revision \in FirstRevision(c) .. c.path.revision - 1
    <3> SUFFICES ASSUME NEW q \in gap PROVE q.path.revision \in FirstRevision(c) .. c.path.revision - 1
      OBVIOUS
    <3>1. q.path.revision >= FirstRevision(c) /\ q.path.revision < c.path.revision
      BY DEF AttemptsInGap
    <3>2. q.path.revision \in Nat
      BY <1>11, NodeFacts, PathsAreOrdered
    <3> QED
      BY <1>2, <1>12, <3>1, <3>2
  <2> QED
    BY <2>2, <2>3 DEF RevisionsOf
<1> HIDE DEF gap
<1>15. c.recoveries = gap /\ Cardinality(gap) = c.path.revision - FirstRevision(c)
  <2>1. Cardinality(gap) <= c.path.revision - FirstRevision(c)
    BY <1>2, <1>9, <1>12, <1>14, RevisionsFill
  <2>2. /\ Cardinality(c.recoveries) <= Cardinality(gap)
        /\ Cardinality(gap) = Cardinality(c.recoveries) => gap = c.recoveries
    BY <1>11, <1>13, FS_Subset
  <2>3. Cardinality(gap) \in Nat
    BY <1>11, FS_CardinalityType
  <2>4. Cardinality(gap) = Cardinality(c.recoveries)
    BY <1>2, <1>9, <1>12, <2>1, <2>2, <2>3
  <2> QED
    BY <1>9, <2>2, <2>4
<1>16. RevisionsOf(gap) = FirstRevision(c) .. c.path.revision - 1
  BY <1>2, <1>9, <1>12, <1>14, <1>15, RevisionsFill
<1>17. ASSUME NEW q \in Pending PROVE q \in gap
  <2>1. q \in quarantined /\ Before(q.path, c.path) /\ q.path \in Paths
        /\ q.path.version \in Nat /\ q.path.revision \in Nat \ {0}
    BY NodeFacts, PathsAreOrdered DEF Pending
  <2>2. Before(t.path, q.path)
    BY <1>3, PendingFollows
  <2>3. q.path.version = c.path.version
    <3>1. ~Before(q.path, t.path)
      BY <1>4, <2>1, <2>2, PathsAreOrdered
    <3>2. ~(q.path.version < c.path.version)
      BY <1>4, <2>1, <3>1
    <3> QED
      BY <1>2, <2>1, <3>2 DEF Before
  <2>4. q.path.revision < c.path.revision
    BY <1>2, <2>1, <2>3 DEF Before
  <2>5. q.path.revision >= FirstRevision(c)
    <3>1. t.path.version = c.path.version => t.path.revision < q.path.revision
      BY <1>2, <1>4, <2>1, <2>2, <2>3 DEF Before
    <3> QED
      BY <1>4, <1>10, <2>1, <3>1
  <2>6. PICK a \in gap : a.path.revision = q.path.revision
    <3>1. q.path.revision \in RevisionsOf(gap)
      BY <1>2, <1>12, <1>16, <2>1, <2>4, <2>5
    <3> QED
      BY <3>1 DEF RevisionsOf
  <2>7. a \in OfVersion(c.path.version) /\ q \in OfVersion(c.path.version)
    BY <1>11, <2>1, <2>3, NodeFacts DEF OfVersion
  <2>8. a = q
    BY <1>5, <2>6, <2>7, PlacesIdentify DEF OneEach
  <2> QED
    BY <2>6, <2>8
<1>18. \A n : AttemptsInGap(n)' = AttemptsInGap(n)
  BY <1>1 DEF AttemptsInGap
<1>19. Pending' = {}
  <2> SUFFICES ASSUME NEW q \in quarantined PROVE \E n \in contracts' : q \in AttemptsInGap(n)
    BY <1>1, <1>18 DEF Pending
  <2>1. CASE q \in Pending
    BY <1>1, <1>17, <2>1 DEF gap
  <2>2. CASE q \notin Pending
    BY <1>1, <2>2 DEF Pending
  <2> QED
    BY <2>1, <2>2
<1>20. PrepareChain'
  <2>1. PrepareChain
    BY DEF ValidateContractChain
  <2> QED
    BY <1>1, <1>6, <1>7, <2>1 DEF PrepareChain, DuplicateIdentity
<1>21. PredecessorsPresent'
  <2> SUFFICES ASSUME NEW n \in contracts', n.supersedes # NoBinding
               PROVE  \E p \in contracts' : BindingOf(p) = n.supersedes
    BY DEF PredecessorsPresent, Predecessor
  <2>1. CASE n = c
    BY <1>1, <1>4, <2>1
  <2>2. CASE n \in contracts
    <3>1. PICK p \in contracts : BindingOf(p) = n.supersedes
      BY <2>2 DEF ValidateContractChain, PredecessorsPresent, Predecessor
    <3> QED
      BY <1>1, <3>1
  <2> QED
    BY <1>1, <2>1, <2>2
<1>22. CycleFree'
  <2> SUFFICES ASSUME NEW nodes \in SUBSET contracts', nodes # {}
               PROVE  \E n \in nodes : \A p \in contracts' : BindingOf(p) = n.supersedes => p \notin nodes
    BY DEF CycleFree, Predecessor
  <2>1. CASE nodes = {c}
    BY <1>4, <1>6, <2>1
  <2>2. CASE nodes # {c}
    <3>1. nodes \ {c} \in SUBSET contracts /\ nodes \ {c} # {}
      BY <1>1, <2>2
    <3>2. PICK n \in nodes \ {c} : Predecessor(n) \cap (nodes \ {c}) = {}
      BY <3>1 DEF ValidateContractChain, CycleFree
    <3>3. n \in contracts /\ n.supersedes # BindingOf(c)
      BY <1>8, <3>1, <3>2
    <3> QED
      BY <1>1, <3>2, <3>3 DEF Predecessor
  <2> QED
    BY <2>1, <2>2
<1>23. ChainTopology'
  <2>1. {n \in contracts' : n.supersedes = NoBinding} = {n \in contracts : n.supersedes = NoBinding}
    BY <1>1, <1>4
  <2>2. Cardinality({n \in contracts' : n.supersedes = NoBinding}) = 1
    BY <2>1 DEF ValidateContractChain, ChainTopology
  <2>3. ASSUME NEW n \in contracts' PROVE Cardinality(Successors(n)') <= 1
    <3>1. \A a, b \in Successors(n)' : a = b
      <4> SUFFICES ASSUME NEW a \in contracts', NEW b \in contracts',
                          a.supersedes = BindingOf(n), b.supersedes = BindingOf(n)
                   PROVE  a = b
        BY DEF Successors
      <4>1. \A x \in contracts : x.supersedes # BindingOf(t)
        <5> SUFFICES ASSUME NEW x \in contracts, x.supersedes = BindingOf(t) PROVE FALSE
          OBVIOUS
        <5>1. PICK p \in contracts : Follows(p, x)
          BY <1>4, <1>5, Predecessors
        <5>2. p = t
          BY <1>5, <5>1 DEF Follows, Identified, Distinct
        <5>3. x.path \in Paths
          BY NodeFacts
        <5>4. Before(t.path, x.path) /\ (x = t \/ Before(x.path, t.path))
          BY <1>3, <5>1, <5>2 DEF Follows
        <5> QED
          BY <1>4, <5>3, <5>4, PathsAreOrdered
      <4>2. CASE a \in contracts /\ b \in contracts
        BY <1>5, <4>2, LinksDiffer
      <4>3. CASE a = c \/ b = c
        BY <1>1, <1>4, <4>1, <4>3
      <4> QED
        BY <1>1, <4>2, <4>3
    <3> QED
      BY <3>1, AtMostOne
  <2> QED
    BY <2>2, <2>3 DEF ChainTopology
<1>24. ASSUME NEW n \in contracts' PROVE ExpectedGap(n)'
  <2>1. CASE n \in contracts
    <3>1. ExpectedGap(n)
      BY <2>1 DEF ValidateContractChain
    <3> QED
      BY <1>18, <3>1 DEF ExpectedGap
  <2>2. CASE n = c
    <3>1. c.supersedes # NoBinding => SemanticTransition(c.supersedes.path, c.path)
      BY <1>2, <1>4, <1>9 DEF SemanticTransition
    <3>2. /\ FirstRevision(c) <= c.path.revision
          /\ Cardinality(AttemptsInGap(c)) = c.path.revision - FirstRevision(c)
          /\ c.recoveries = {BindingOf(attempt) : attempt \in AttemptsInGap(c)}
      BY <1>9, <1>11, <1>15 DEF gap
    <3> QED
      BY <1>18, <2>2, <3>1, <3>2 DEF ExpectedGap
  <2> QED
    BY <1>1, <2>1, <2>2
<1>25. PendingQuarantine'
  BY <1>19 DEF PendingQuarantine
<1> QED
  BY <1>20, <1>21, <1>22, <1>23, <1>24, <1>25 DEF ValidateContractChain

(* A contract whose receipt was accepted extends the chain.                *)
THEOREM ReceiptsAlwaysExtendChains == ChainSpec => ReceiptsExtendChains
<1> DEFINE ReceiptHolds ==
      /\ ValidateContractChain
      /\ \E candidate \in contracts' \ contracts :
           /\ HistoryAccepted(candidate, FALSE)
           /\ candidate.supersedes = BindingOf(LastContract)
           /\ \A node \in contracts \cup quarantined :
                /\ node.digest # candidate.digest
                /\ Before(node.path, candidate.path)
           /\ \A q \in quarantined : q.path.version < candidate.path.version =>
                  Before(q.path, candidate.supersedes.path)
      => ValidateContractChain'
<1>1. ChainTypeOK /\ ChainTypeOK' /\ [ChainNext]_chainVars => [ReceiptHolds]_chainVars
  <2> SUFFICES ASSUME ChainTypeOK, ChainTypeOK', PublishContract \/ QuarantineContract PROVE ReceiptHolds
    BY DEF ChainNext
  <2>1. CASE QuarantineContract
    BY <2>1 DEF QuarantineContract
  <2>2. CASE PublishContract
    BY <2>2, ReceiptExtends
  <2> QED
    BY <2>1, <2>2
<1>2. ChainSpec => [][ReceiptHolds]_chainVars
  <2> HIDE DEF ReceiptHolds
  <2> QED
    BY <1>1, ChainTypeCorrect, PTL DEF ChainSpec
<1> QED
  BY <1>2 DEF ReceiptsExtendChains

=============================================================================
