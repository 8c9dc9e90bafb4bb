--------------------------- MODULE LifecycleHandoff ---------------------------
(***************************************************************************)
(* The exact-head handoff of one pull request                              *)
(* (src/quality/lifecycle-handoff*.mjs, publication-candidate.mjs,         *)
(* publication-contract.mjs): input generations, the runs that are started *)
(* for them, their reports, and the decision that publishes the            *)
(* `Lifecycle handoff` status of a head.                                   *)
(*                                                                         *)
(* The source holds the evaluators; whoever calls them reads the           *)
(* repository again on every wake-up, keeps the generation they return,    *)
(* and does what they decide.  Runs report late, twice, or in another      *)
(* order, and people change what the evaluators read at any time.          *)
(*                                                                         *)
(* A digest stands for the canonical encoding of its value, so two digests *)
(* are equal when the requests they were taken of are equal; that the      *)
(* encoding loses nothing is what CanonicalValue is about.                 *)
(***************************************************************************)
EXTENDS Naturals, FiniteSets, Functions

CONSTANTS
  MaxHead,      \* bound: heads of the pull request
  Diffs,        \* what the heads change: kinds of files by head
  MaxRevision,  \* bound: revisions of the issue
  MaxAttempt,   \* bound: attempts of a generation
  MaxRuns,      \* bound: runs that are started
  MaxChanges    \* bound: what people change

VARIABLES
  diff,        \* the kinds of files each head changes
  pull,        \* the pull request: head, its authority and receipt, what reviewers and checks say
  issue,       \* the issue: lifecycle label, revision, accepted readiness, last label change
  phaseOne,    \* the facts the handshake began with
  transition,  \* the label change it made
  prior,       \* the generation that is kept
  runs,        \* the runs started for generations
  recoveries,  \* authorized recoveries, delivered any number of times
  handoff,     \* the last success, with the facts it was decided on
  spent        \* how much of MaxChanges is used

handoffVars ==
  <<diff, pull, issue, phaseOne, transition, prior, runs, recoveries, handoff, spent>>

PrOpen == "status: pr open"
Review == "status: ready for human review"

Heads == 1 .. MaxHead
Kinds == {"other", "contract", "receipt"}

ASSUME HandoffAssumption ==
  /\ {MaxHead, MaxRevision, MaxAttempt, MaxRuns, MaxChanges} \subseteq Nat \ {0}
  /\ \A files \in Diffs : \A head \in Heads : files[head] \subseteq Kinds

Contexts(lane) ==
  {"Issue contract current", "PR contract"}
    \cup (IF lane = "publication" THEN {"Contract publication"} ELSE {})

-----------------------------------------------------------------------------
(* Lanes.  A diff with contracts or a receipt is a publication and holds   *)
(* nothing else; the authority must name the same head and lane.           *)

ClassifyDiff(kinds) ==
  CASE kinds = {"other"} -> "normal"
    [] kinds = {"contract", "receipt"} -> "publication"
    [] OTHER -> "none"

AuthorityMatches(p, lane) == p.authority = [head |-> p.head, lane |-> lane]

(* What a publication is verified against: the receipt binds the issue as  *)
(* its snapshot saw it, and the issue must still be seen so.  Ordinary     *)
(* publication is for new issues without readiness.                        *)
ObservedIssue == [state |-> issue.state, readiness |-> issue.readiness]

Submode(observed) ==
  CASE observed.readiness = 0 /\ observed.state = "status: new" -> "ordinary"
    [] observed.readiness # 0 /\ observed.state # "status: new" -> "migration"
    [] OTHER -> "none"

CandidateAccepted(p) ==
  /\ ClassifyDiff(diff[p.head]) = "publication"
  /\ p.receipt = ObservedIssue
  /\ Submode(p.receipt) # "none"

Lane(p) ==
  LET lane == ClassifyDiff(diff[p.head]) IN
  IF AuthorityMatches(p, lane) /\ (lane = "publication" => CandidateAccepted(p)) THEN lane ELSE "none"

Classified(p) == Lane(p) # "none"

(* The immutable identity of the lane: what every result must repeat.      *)
Binding(p) ==
  [lane    |-> Lane(p),
   head    |-> p.head,
   receipt |-> IF Lane(p) = "publication" THEN p.receipt ELSE [state |-> "none", readiness |-> 0]]

-----------------------------------------------------------------------------
(* Generations.                                                            *)

(* review stands for the eight observations that people and other checks   *)
(* settle and withdraw: reviews, conversations, audit, journey, manual,    *)
(* external, platform and upstream.                                        *)
Observation ==
  [revision |-> issue.revision, readiness |-> issue.readiness, state |-> issue.state,
   review |-> pull.review]

NoObservation == [revision |-> 0, readiness |-> 0, state |-> "none", review |-> "none"]

NoRecovery == [authorized |-> FALSE]

Request(attempt, recovery) ==
  [binding |-> Binding(pull), inputs |-> Observation, attempt |-> attempt, recovery |-> recovery]

NoGeneration == [status |-> "none", request |-> NoRecovery, results |-> << >>]

HasPrior == prior.status # "none"

(* The request of the wake-up that reads the repository now.               *)
CurrentRequest ==
  IF HasPrior THEN Request(prior.request.attempt, prior.request.recovery) ELSE Request(0, NoRecovery)

NextStatus(results, contexts) ==
  LET conclusions == {results[c].conclusion : c \in DOMAIN results} IN
  CASE "failure" \in conclusions -> "failure"
    [] "failure" \notin conclusions /\ "abandoned" \in conclusions -> "abandoned"
    [] DOMAIN results = contexts /\ conclusions = {"success"} -> "success"
    [] OTHER -> "pending"

Terminal(generation) == generation.status \in {"failure", "abandoned"}

(* Not the code: a completion of any generation.                           *)
AnyGeneration(completion, generation) ==
  completion.context \in Contexts(generation.request.binding.lane)

CompletionMatches(completion, generation) ==
  /\ completion.context \in Contexts(generation.request.binding.lane)
  /\ completion.generation = generation.request
  /\ completion.generation.binding.head = generation.request.binding.head

ValidPrior ==
  LET contexts == Contexts(prior.request.binding.lane) IN
  /\ DOMAIN prior.results \subseteq contexts
  /\ \A c \in DOMAIN prior.results : CompletionMatches(prior.results[c], prior)
  /\ prior.status = NextStatus(prior.results, contexts)

NewGeneration(request) == [status |-> "pending", request |-> request, results |-> << >>]

(* A recovery is authorized for one terminal generation and its head.      *)
RecoveryAccepted(request) ==
  /\ Terminal(prior)
  /\ request.attempt = prior.request.attempt + 1
  /\ request.recovery.authorized
  /\ request.recovery.generation = prior.request
  /\ request.recovery.head = prior.request.binding.head

Replaceable(request) ==
  \/ /\ ~Terminal(prior)
     /\ request.attempt = prior.request.attempt
     /\ request.recovery = prior.request.recovery
  \/ RecoveryAccepted(request)

NoCompletion == [context |-> "none"]

(* A second report of a context is taken only when it repeats the first,   *)
(* or settles a pending one of the same run (run stands for a run with its *)
(* result: a second result is another identity).                           *)
Settles(existing, completion) ==
  \/ completion = existing
  \/ existing.conclusion = "pending" /\ completion.run = existing.run

Attachable(completion) ==
  /\ completion # NoCompletion
  /\ CompletionMatches(completion, prior)
  /\ completion.context \in DOMAIN prior.results
       => Settles(prior.results[completion.context], completion)

AttachCompletion(completion) ==
  LET results == [c \in DOMAIN prior.results \cup {completion.context} |->
                    IF c = completion.context THEN completion ELSE prior.results[c]] IN
  [prior EXCEPT !.results = results,
                !.status = NextStatus(results, Contexts(prior.request.binding.lane))]

Startable(request, completion) ==
  IF HasPrior THEN request # prior.request /\ Replaceable(request) /\ ValidPrior
  ELSE request.attempt = 0 /\ request.recovery = NoRecovery /\ completion = NoCompletion

(* The generation that is kept after a wake-up: a new one, the old one     *)
(* with the report attached, or the old one when the input is rejected,    *)
(* unchanged or terminal.                                                  *)
Coalesce(request, completion) ==
  IF request.binding.lane # "none" /\ Startable(request, completion) THEN NewGeneration(request)
  ELSE IF HasPrior /\ Attachable(completion) /\ request = prior.request /\ ValidPrior
       THEN AttachCompletion(completion)
       ELSE prior

-----------------------------------------------------------------------------
(* The decision.                                                           *)

NoPhase == [head |-> 0, inputs |-> NoObservation, clear |-> FALSE, source |-> "none", fence |-> 0]

NoTransition ==
  [head |-> 0, fence |-> 0, sourceRevision |-> 0, resultRevision |-> 0, event |-> 0]

NoHandoff ==
  [lane |-> "none", transition |-> NoTransition, generation |-> NoRecovery, results |-> << >>,
   pull |-> NoRecovery, issue |-> NoRecovery, inputs |-> NoObservation]

Readable == issue.readiness # 0

PhaseSnapshotsCurrent ==
  LET before == phaseOne.inputs
      after  == CurrentRequest.inputs IN
  /\ before.state = PrOpen /\ after.state = Review
  /\ before.revision # after.revision
  /\ before.readiness = after.readiness /\ before.review = after.review

PhaseOneEligible ==
  /\ Readable
  /\ PhaseSnapshotsCurrent
  /\ phaseOne.clear
  /\ phaseOne.source = PrOpen
  /\ phaseOne.head = pull.head

DowngradeEligible ==
  Readable /\ phaseOne.source \in {PrOpen, Review} /\ phaseOne.head = pull.head

TransitionBound ==
  /\ transition.head = pull.head
  /\ transition.fence = phaseOne.fence
  /\ transition.sourceRevision = phaseOne.inputs.revision
  /\ transition.resultRevision = CurrentRequest.inputs.revision

ReadbackEligible(change) ==
  /\ issue.state = Review
  /\ issue.revision = change.resultRevision
  /\ issue.event = change.event

(* Every context once, by runs of their own, for the request of now.       *)
VerifiedResults ==
  LET results  == prior.results
      contexts == Contexts(prior.request.binding.lane) IN
  /\ prior.status = "success"
  /\ prior.request = CurrentRequest
  /\ DOMAIN results = contexts
  /\ \A c \in contexts :
       /\ CompletionMatches(results[c], prior)
       /\ results[c].conclusion = "success"
       /\ results[c].output = Binding(pull)
  /\ IsInjective([c \in contexts |-> results[c].run])

StableReview ==
  /\ Readable
  /\ phaseOne.inputs = CurrentRequest.inputs
  /\ phaseOne.inputs.state = Review
  /\ phaseOne.clear
  /\ phaseOne.head = pull.head
  /\ handoff.generation = prior.request
  /\ handoff.transition.fence = phaseOne.fence
  /\ handoff.transition.head = pull.head
  /\ ReadbackEligible(handoff.transition)

NormalHandoff ==
  /\ Lane(pull) = "normal"
  /\ \/ phaseOne.source = Review /\ StableReview
     \/ /\ phaseOne.source # Review
        /\ PhaseOneEligible
        /\ TransitionBound
        /\ ReadbackEligible(transition)
  /\ VerifiedResults

(* Whether a refused handoff asks for the label to go back to PR open.     *)
Downgrades ==
  /\ Lane(pull) = "normal"
  /\ phaseOne.source # Review /\ ~PhaseOneEligible => DowngradeEligible

PublicationHandoff ==
  /\ Lane(pull) = "publication"
  /\ VerifiedResults

-----------------------------------------------------------------------------
(* What people do.                                                         *)

HandoffInit ==
  /\ diff \in Diffs
  /\ \/ /\ ClassifyDiff(diff[1]) # "normal"
        /\ issue = [state |-> "status: new", revision |-> 1, readiness |-> 0, event |-> 0]
     \/ issue = [state |-> PrOpen, revision |-> 1, readiness |-> 1, event |-> 0]
  /\ pull = [head |-> 1, authority |-> [head |-> 1, lane |-> ClassifyDiff(diff[1])],
             receipt |-> ObservedIssue, review |-> "clear"]
  /\ phaseOne = NoPhase /\ transition = NoTransition
  /\ prior = NoGeneration /\ handoff = NoHandoff
  /\ runs = {} /\ recoveries = {}
  /\ spent = 0

Change ==
  /\ spent < MaxChanges
  /\ spent' = spent + 1
  /\ UNCHANGED <<diff, phaseOne, transition, prior, runs, recoveries, handoff>>

(* A push leaves the authority behind; its tree holds the receipt it was   *)
(* made with or a fresh one.                                               *)
Push ==
  /\ Change
  /\ pull.head < MaxHead
  /\ \E receipt \in {pull.receipt, ObservedIssue} :
       pull' = [pull EXCEPT !.head = @ + 1, !.receipt = receipt]
  /\ UNCHANGED issue

Authorize ==
  /\ Change
  /\ \E lane \in {"normal", "publication"} :
       /\ pull.authority # [head |-> pull.head, lane |-> lane]
       /\ pull' = [pull EXCEPT !.authority = [head |-> pull.head, lane |-> lane]]
  /\ UNCHANGED issue

ReviewChanges ==
  /\ Change
  /\ pull' = [pull EXCEPT !.review = IF @ = "clear" THEN "raised" ELSE "clear"]
  /\ UNCHANGED issue

(* An edit of the body invalidates the readiness that was accepted for the *)
(* text before; accepting it again leaves a newer record.                  *)
Edit ==
  /\ Change
  /\ issue.revision < MaxRevision
  /\ issue' = [issue EXCEPT !.revision = @ + 1, !.readiness = 0]
  /\ UNCHANGED pull

AcceptReadiness ==
  /\ Change
  /\ issue.readiness = 0
  /\ issue' = [issue EXCEPT !.readiness = issue.revision]
  /\ UNCHANGED pull

Relabel(label) ==
  /\ issue.state # label
  /\ issue.revision < MaxRevision
  /\ issue' = [issue EXCEPT !.state = label, !.revision = @ + 1, !.event = @ + 1]

HumanRelabels ==
  /\ Change
  /\ \E label \in {PrOpen, Review} : Relabel(label)
  /\ UNCHANGED pull

-----------------------------------------------------------------------------
(* The handshake, which a publication does without: phase one reads the    *)
(* facts under a fence, then the label moves.  A handshake that begins in  *)
(* review repeats the one that led there.                                  *)

BeginHandshake ==
  LET fence == IF issue.state = Review THEN transition.fence ELSE phaseOne.fence + 1
      facts == [head |-> pull.head, inputs |-> Observation, clear |-> pull.review = "clear",
                source |-> issue.state, fence |-> fence] IN
  /\ Lane(pull) # "publication"
  /\ \E field \in DOMAIN facts \ {"fence"} : phaseOne[field] # facts[field]
  /\ phaseOne' = facts
  /\ UNCHANGED <<diff, pull, issue, transition, prior, runs, recoveries, handoff, spent>>

Move ==
  /\ phaseOne.source = PrOpen /\ phaseOne.clear /\ issue.state = PrOpen
  /\ Relabel(Review)
  /\ transition' = [head |-> phaseOne.head, fence |-> phaseOne.fence,
                     sourceRevision |-> phaseOne.inputs.revision,
                     resultRevision |-> issue.revision + 1, event |-> issue.event + 1]
  /\ UNCHANGED <<diff, pull, phaseOne, prior, runs, recoveries, handoff, spent>>

-----------------------------------------------------------------------------
(* Wake-ups.  Each reads the repository, keeps the generation that         *)
(* Coalesce returns and starts the runs of a new one.                      *)

StartPlans(generation) ==
  {[id |-> <<Cardinality(runs), context>>, generation |-> generation.request] :
     context \in Contexts(generation.request.binding.lane)}

Wake(request, completion) ==
  LET kept  == Coalesce(request, completion)
      fresh == kept.request # prior.request IN
  /\ kept # prior
  /\ prior' = kept
  /\ runs' = IF fresh THEN runs \cup StartPlans(kept) ELSE runs
  /\ Cardinality(runs') <= MaxRuns
  /\ UNCHANGED <<diff, pull, issue, phaseOne, transition, recoveries, handoff, spent>>

Refresh == Wake(CurrentRequest, NoCompletion)

(* A run reports at any time and any number of times, and a success of its *)
(* own context may be taken for another.  Its output is the lane it saw.   *)
(* A report that finds other facts than the generation's is lost, and what *)
(* its wake-up then does is Refresh.                                       *)
Report ==
  LET seen == Binding(pull) IN
  /\ HasPrior /\ CurrentRequest = prior.request
  /\ \E run \in runs, context \in Contexts("publication"),
        conclusion \in {"pending", "success", "failure", "abandoned"} :
       /\ context # run.id[2] => conclusion = "success"
       /\ \E output \in {run.generation.binding, seen} :
            Wake(prior.request,
                 [context |-> context, generation |-> run.generation, run |-> run.id,
                  conclusion |-> conclusion, output |-> output])

AuthorizeRecovery ==
  LET recovery == [authorized |-> TRUE, generation |-> prior.request,
                   head |-> prior.request.binding.head] IN
  /\ Terminal(prior)
  /\ prior.request.attempt < MaxAttempt
  /\ recovery \notin recoveries
  /\ recoveries' = recoveries \cup {recovery}
  /\ UNCHANGED <<diff, pull, issue, phaseOne, transition, prior, runs, handoff, spent>>

Recover ==
  /\ HasPrior
  /\ \E recovery \in recoveries :
       Wake(Request(prior.request.attempt + 1, recovery), NoCompletion)

(* A success is published with the facts it was decided on; a refusal may  *)
(* put the label back.                                                     *)
PublishHandoff ==
  LET decided == [lane |-> Lane(pull), transition |-> transition, generation |-> prior.request,
                  results |-> prior.results, pull |-> pull, issue |-> issue,
                  inputs |-> Observation] IN
  /\ NormalHandoff \/ PublicationHandoff
  /\ handoff # decided
  /\ handoff' = decided
  /\ UNCHANGED <<diff, pull, issue, phaseOne, transition, prior, runs, recoveries, spent>>

Downgrade ==
  /\ HasPrior /\ ~NormalHandoff /\ Downgrades
  /\ issue.state = Review
  /\ Relabel(PrOpen)
  /\ UNCHANGED <<diff, pull, phaseOne, transition, prior, runs, recoveries, handoff, spent>>

HandoffNext ==
  \/ Push \/ Authorize \/ ReviewChanges \/ Edit \/ AcceptReadiness \/ HumanRelabels
  \/ BeginHandshake \/ Move
  \/ Refresh \/ Report \/ AuthorizeRecovery \/ Recover
  \/ PublishHandoff \/ Downgrade

HandoffSpec == HandoffInit /\ [][HandoffNext]_handoffVars

-----------------------------------------------------------------------------
(* A published handoff stands for the facts of the moment it was decided   *)
(* at, whatever order reports, edits, label changes and recoveries came    *)
(* in: every context was reported by a run of its own that was started for *)
(* these very facts and saw this lane, and outside a publication the       *)
(* readiness was current, nothing was open in review, and the last label   *)
(* change was the one the handshake of this head made                      *)
(* (lifecycle-handoff.mjs, lifecycle-handoff-publication.mjs).             *)
HeadsAreCertified ==
  LET contexts == Contexts(handoff.lane)
      started(c) == {run \in runs : run.id = handoff.results[c].run} IN
  handoff # NoHandoff =>
    /\ \A c \in contexts : \E run \in started(c) :
         /\ run.generation.inputs = handoff.inputs
         /\ run.generation.binding.head = handoff.pull.head
         /\ run.generation.binding.lane = handoff.lane
         /\ handoff.results[c].conclusion = "success"
         /\ handoff.results[c].output.head = handoff.pull.head
    /\ \A c, d \in contexts : handoff.results[c].run = handoff.results[d].run => c = d
    /\ handoff.pull.authority.head = handoff.pull.head
    /\ handoff.lane = "normal" =>
         /\ handoff.issue.state = Review /\ handoff.issue.readiness # 0
         /\ handoff.pull.review = "clear"
         /\ handoff.transition.event = handoff.issue.event
         /\ handoff.transition.head = handoff.pull.head
    /\ handoff.lane = "publication" =>
         handoff.pull.receipt = [state |-> handoff.issue.state, readiness |-> handoff.issue.readiness]
=============================================================================
