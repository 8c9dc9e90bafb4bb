--------------------------- MODULE IssueLifecycle ---------------------------
(***************************************************************************)
(* One governed issue, the people and the pull requests that act on it,    *)
(* and the workflow runs that keep its status label true:                  *)
(*   - the lifecycle action (quality/issue-lifecycle-action.mjs), which    *)
(*     owns the labels once the activation is "enabled";                   *)
(*   - the readiness action (quality/issue-readiness-action.mjs), which    *)
(*     owns them until then;                                               *)
(*   - the contract check of each pull request                             *)
(*     (quality/pr-contract-action.mjs), which judges a head and publishes *)
(*     the statuses the other two ask for or take back.                    *)
(* Every provider call of a run is a step of its own: people edit the      *)
(* issue between two calls of a run, and a run may die after any of them.  *)
(* Runs of one issue are serialised (the concurrency group                 *)
(* issue-lifecycle-<n>), so there is at most one at a time; the checks of  *)
(* a pull request are serialised too, in a group of their own              *)
(* (pr-contract-<n>), so they run beside it.                               *)
(*                                                                         *)
(* Abstracted: a body is its semantic fingerprint; a readiness comment is  *)
(* its status and fingerprint; an observation comment is the request it    *)
(* binds; updated_at is a logical clock; the pages of a listing are read   *)
(* at once; every pull request cites the issue, as both #<n> readers       *)
(* understand it, and is of this repository; a status is whether the       *)
(* latest one of its context is a success.                                 *)
(***************************************************************************)
EXTENDS Naturals, FiniteSets, Sequences, SequencesExt

CONSTANTS
  Bodies,        \* contract bodies, by their fingerprint
  Malformed,     \* the bodies validateIssueContract rejects
  Actors,        \* the people
  Writers,       \* write, maintain or admin permission
  Planners,      \* at least triage permission
  Maintainers,   \* the people devHumanMergers names
  Foreign,       \* labels that are not status labels
  Gestures,      \* the status labels people add by hand
  PRs,           \* delivery pull requests linked to the issue
  Heads,         \* the commits that may be their heads
  Dispatches,    \* authenticated lifecycle requests
  InitStates,    \* status labels the issue may start with, per mode
  Activations,   \* the activation modes considered
  MaxEdits,      \* bound: steps people take and checks that
                 \* start, per activation mode
  MaxFaults      \* bound: calls that fail and runs that die

ASSUME IssueAssumption ==
  /\ Malformed \subseteq Bodies
  /\ Writers \subseteq Planners /\ Planners \subseteq Actors
  /\ Activations \subseteq {"enabled", "disabled"}
  /\ \A a \in Activations : MaxEdits[a] \in Nat
  /\ MaxFaults \in Nat

VARIABLES
  issue,      \* the issue at the provider
  comments,   \* its governance comments, oldest first
  inventory,  \* whether the repository's label inventory is canonical
  prs,        \* the pull requests at the provider
  statuses,   \* the contexts that succeeded on each commit
  checks,     \* the contract check under way for each pull request
  queued,     \* the check that waits behind it
  pending,    \* the events whose run has not started
  run,        \* the workflow run in progress, if any
  clock,      \* the provider's clock
  activation, \* KEIKO_ISSUE_LIFECYCLE_ACTIVATION
  edits,      \* steps people took and checks that started
  faults,     \* faults so far
  held,       \* observation: the run's inputs held together at one instant
  applied,    \* observation: how often each request was applied
  unrecorded, \* observation: how often its observation comment was lost
  refused,    \* observation: whether any run ended with an error, and whether
              \* the last event was dismissed or its run ended with an error
  late,       \* observation: the checks that read the comments before a run
              \* listed the pull requests to invalidate
  missed      \* observation: the heads a late check judged, or a lost one

vars == <<issue, comments, inventory, prs, statuses, checks, queued, pending, run,
          clock, activation, edits, faults, held, applied, unrecorded, refused,
          late, missed>>

-----------------------------------------------------------------------------
(* The lifecycle contract of quality/issue-lifecycle.mjs. *)

States == {"new", "triaged", "ready", "inProgress", "prOpen", "review",
           "blocked", "waiting", "done"}
Paused == {"blocked", "waiting"}
Tracked == {"prOpen", "review"}
CurrentReadiness == {"ready", "inProgress"} \cup Tracked \cup Paused

Edges ==
  LET Row(s, ts) == {s} \X ts IN
  (UNION { Row("new", {"triaged"} \cup Paused),
           Row("triaged", {"ready", "new"} \cup Paused),
           Row("ready", {"inProgress", "new"} \cup Paused),
           Row("inProgress", {"ready", "prOpen", "new"} \cup Paused),
           Row("prOpen", {"ready", "inProgress", "review", "new"} \cup Paused),
           Row("review", {"prOpen", "inProgress", "new", "done"} \cup Paused),
           Row("done", {"new"}) })
  \cup {<<"blocked", "waiting">>, <<"waiting", "blocked">>}
  \cup (Paused \X {"new", "triaged", "ready", "inProgress", "prOpen"})

ValidEdge(s, t) == s = t \/ <<s, t>> \in Edges

PermittedRequests ==
  {<<"new", "triaged">>, <<"triaged", "ready">>}
  \cup (Paused \X {"ready"})
  \cup {e \in (States \ {"done"}) \X Paused : e[1] # e[2]}

RoleAllowed(s, t, role) ==
  IF t \in {"triaged", "ready"} /\ ~(s \in Paused /\ t = "ready")
  THEN role \in {"planner", "maintainer"}
  ELSE role \in {"implementer", "maintainer"}

\* defect: the pair of source and target is not looked up
AnyPair(cur, d, role) == cur = d.source /\ RoleAllowed(d.source, d.target, role)

\* validateTransitionRequest, with the reason already bound to a pause target
RequestAllowed(cur, d, role) ==
  /\ cur = d.source
  /\ <<d.source, d.target>> \in PermittedRequests
  /\ RoleAllowed(d.source, d.target, role)
  /\ d.target \in Paused => d.reason

\* parseLifecycleDispatchRequest: the fields a request must and must not carry
ParseOk(d) ==
  /\ d.source \in States \ {"done"}
  /\ d.target \in {"triaged", "ready"} \cup Paused
  /\ d.reason <=> d.target \in Paused
  /\ d.attested <=> d.target = "triaged"

\* dispatchActorRole
DispatchRole(d) ==
  IF d.actor \in Maintainers \cap Writers THEN "maintainer"
  ELSE IF d.target \in {"triaged", "ready"} /\ d.source \notin Paused
  THEN IF d.actor \in Planners THEN "planner" ELSE "none"
  ELSE IF d.actor \in Writers THEN "implementer" ELSE "none"

-----------------------------------------------------------------------------
(* Readiness and topology (quality/issue-lifecycle-readiness.mjs). *)

Readiness(cs) == {k \in DOMAIN cs : cs[k].kind = "readiness"}

LastRecord(cs) ==
  IF Readiness(cs) = {} THEN [accepted |-> FALSE, fp |-> "none", on |-> "none"]
  ELSE cs[Max(Readiness(cs))]

\* defect: an acceptance is not bound to the body
AnyRecord(cs, body) == LastRecord(cs).accepted

AcceptedFor(cs, body) == LastRecord(cs).accepted /\ LastRecord(cs).fp = body

\* eventInvalidation; GitHub's own events never carry an edit kind
Invalidates(ev) == ev.kind \in {"closed", "reopened"}

\* evaluateCurrentReadiness: the event may invalidate, the latest trusted
\* record must be accepted for this body, and a forged marker spoils it
Current(ev, i, cs) ==
  /\ ~Invalidates(ev)
  /\ AcceptedFor(cs, i.body)
  /\ ~\E k \in DOMAIN cs : cs[k].kind = "forged"

Fail == [do |-> "failed"]
Ignore == [do |-> "ignored"]
Nothing == [do |-> "nothing"]
Put(s) == [do |-> "set", to |-> s, close |-> FALSE]

EvaluateClaimPrecondition(cur, current, claimed) ==
  IF current /\ cur = "ready" /\ claimed THEN Put("inProgress") ELSE Fail

EvaluateResume(current) == IF current THEN Put("inProgress") ELSE Put("new")

EvaluateClaimRelease(cur, current, released, hasOpen) ==
  IF current /\ cur = "inProgress" /\ released /\ ~hasOpen
  THEN Put("ready") ELSE Fail

EvaluateMerged(cur, current, merged) ==
  IF cur \in {"review", "done"} /\ merged.completed
  THEN IF merged.validated THEN Put("done") ELSE Fail
  ELSE IF cur = "done" \/ ~current \/ ~merged.validated \/ cur \notin Tracked
  THEN Fail
  ELSE IF cur = "review"
  THEN [do |-> "set", to |-> "done", close |-> TRUE]
  ELSE Put("inProgress")

EvaluateOpened(cur, current) ==
  IF current /\ ValidEdge(cur, "prOpen") THEN Put("prOpen") ELSE Fail

EvaluateUnmerged(cur, current, otherOpen, claimed) ==
  LET target == IF otherOpen THEN "prOpen"
                ELSE IF claimed THEN "inProgress" ELSE "ready"
  IN IF current /\ cur \notin Paused /\ ValidEdge(cur, target)
     THEN Put(target) ELSE Fail

EvaluateClosure(reason, evidence) ==
  CASE reason = "completed" /\ evidence -> Put("done")
    [] reason = "not_planned" -> [do |-> "remove", labels |-> {}]
    [] OTHER -> Fail

-----------------------------------------------------------------------------
(* Evidence a run derives from the provider before it decides. *)

Sole(i, s) == i.statuses = {s}
CompletedIssue(i) ==
  ~i.open /\ i.reason = "completed" /\ (Sole(i, "review") \/ Sole(i, "done"))

\* both contract statuses of the head succeeded
Contexts == {"prContract", "issueContract"}
Green(p) == statuses[prs[p].head] = Contexts

\* firstValidatedLinkedOpenPullRequest, the pull requests of an event left out
OpenBeside(ps) == \E q \in PRs \ ps : prs[q].state = "open" /\ Green(q)

\* defect: any closed pull request is a delivery
AnyClosedPullRequest(i) ==
  /\ Sole(i, "review") \/ Sole(i, "done")
  /\ \E q \in PRs : prs[q].state \in {"merged", "closed"} /\ Green(q)

\* finalDeliveryEvidence: a merged pull request whose required statuses hold
FinalDelivery(i) ==
  /\ Sole(i, "review") \/ Sole(i, "done")
  /\ \E q \in PRs : prs[q].state = "merged" /\ Green(q)

\* currentMergedPullRequestEvidence: the payload is still the pull request,
\* and nothing touched the issue after the merge unless it is completed
MergedEvidence(ev, i) ==
  [completed |-> CompletedIssue(i),
   validated |-> /\ prs[ev.pr] = ev.snapshot
                 /\ prs[ev.pr].state = "merged"
                 /\ CompletedIssue(i) \/ prs[ev.pr].at > i.at
                 /\ Green(ev.pr)]

\* currentPullRequestEvidence
CurrentPullRequest(ev, i) ==
  /\ prs[ev.pr] = ev.snapshot
  /\ prs[ev.pr].state = "open"
  /\ prs[ev.pr].at > i.at

\* an assignment stands while the issue still names its assignee
Candidate(ev, i) == ev.assignee \in i.assignees
CanClaim(a) == a \in Writers

\* derivedAssignmentClaim, derivedAssignmentRelease
ClaimOf(ev, i) ==
  /\ Candidate(ev, i) /\ i.assignees = {ev.assignee}
  /\ CanClaim(ev.sender) /\ CanClaim(ev.assignee)
ReleaseOf(ev, i) == ~Candidate(ev, i) /\ CanClaim(ev.sender)

\* eventWithDerivedEvidence: what is read depends on the event alone
Evidence(ev, i) ==
  [claim     |-> \/ ev.kind = "assigned" /\ ClaimOf(ev, i)
                 \/ ev.kind = "prClosed" /\ i.assignees # {},
   release   |-> ev.kind = "unassigned" /\ ReleaseOf(ev, i),
   completed |-> ev.kind = "closed" /\ i.reason = "completed" /\ FinalDelivery(i),
   otherOpen |-> \/ ev.kind = "unassigned" /\ OpenBeside({})
                 \/ /\ ev.kind \in {"prClosed", "prSynchronize", "prDraft"}
                    /\ OpenBeside({ev.pr}),
   current   |-> ev.kind \in {"prSynchronize", "prDraft"} /\ CurrentPullRequest(ev, i),
   merged    |-> IF ev.kind = "prMerged" THEN MergedEvidence(ev, i)
                 ELSE [completed |-> FALSE, validated |-> FALSE]]

-----------------------------------------------------------------------------
(* The decision (desiredStateForEvent and the rules under it). *)

Enabled == activation = "enabled"

\* unauthorizedRawLabelResult
RawLabel(ev, i) ==
  LET priors == i.statuses \ {ev.label} IN
  IF ~Enabled THEN Ignore
  ELSE [do |-> "repair", labels |-> {ev.label},
        to |-> IF Cardinality(priors) = 1 THEN CHOOSE s \in priors : TRUE
               ELSE "new"]

LabelEvent(ev, i, cur, current) ==
  IF ev.kind = "dispatch"
  THEN IF /\ RequestAllowed(cur, ev.request, DispatchRole(ev.request))
          /\ ev.request.target = "ready" => current
       THEN Put(ev.request.target) ELSE Fail
  ELSE RawLabel(ev, i)

\* no claim at all fails only once enabled
ClaimEvent(ev, has, cur, current) ==
  LET result == IF ev.kind = "assigned"
                THEN IF cur \in Paused /\ has.claim THEN EvaluateResume(current)
                     ELSE EvaluateClaimPrecondition(cur, current, has.claim)
                ELSE EvaluateClaimRelease(cur, current, has.release, has.otherOpen)
  IN IF result = Fail /\ ~has.claim /\ ~has.release /\ ~Enabled
     THEN Nothing ELSE result

Closure(i, has) ==
  IF i.open THEN Fail ELSE EvaluateClosure(i.reason, has.completed)

\* desiredStateForPullRequestEvent with pullRequestContractSucceeded
PullRequestEvent(ev, has, cur, current) ==
  LET result ==
        CASE ev.kind = "prMerged" -> EvaluateMerged(cur, current, has.merged)
          [] ev.kind = "prClosed" ->
               EvaluateUnmerged(cur, current, has.otherOpen, has.claim)
          [] OTHER -> EvaluateOpened(cur, current)
      demotion == /\ cur = "review" /\ ev.kind \in {"prSynchronize", "prDraft"}
                  /\ result = Put("prOpen")
      contract ==
        CASE ev.kind = "prMerged" -> has.merged.validated /\ ev.contract
          [] ev.kind = "prClosed" /\ has.otherOpen -> TRUE
          [] OTHER -> ev.contract
      refusal == IF Enabled THEN Fail ELSE Ignore
  IN CASE result = Fail -> refusal
       [] demotion /\ (~has.current \/ has.otherOpen) -> refusal
       [] /\ ~demotion /\ result # Fail /\ ~contract
          /\ ev.kind = "prMerged" \/ result.to \in Tracked -> refusal
       [] OTHER -> result

IsPullRequest(ev) ==
  ev.kind \in {"prOpened", "prSynchronize", "prDraft", "prMerged", "prClosed"}

Desired(ev, i, cs, cur) ==
  LET current == Current(ev, i, cs)
      has == Evidence(ev, i) IN
  CASE IsPullRequest(ev) -> PullRequestEvent(ev, has, cur, current)
    [] ev.kind = "reopened" -> Put("new")
    [] ev.kind = "edited" /\ ~current -> Put("new")
    [] ev.kind = "dispatch" \/ (ev.kind = "labeled" /\ ev.label \in States) ->
         LabelEvent(ev, i, cur, current)
    [] ev.kind \in {"assigned", "unassigned"} -> ClaimEvent(ev, has, cur, current)
    [] ev.kind = "closed" -> Closure(i, has)
    [] OTHER -> Nothing

\* lifecycleObservation: what a request's comment binds
Observation(d, outcome) == [kind |-> "observation", request |-> d, outcome |-> outcome]

\* parsedLifecycleObservation: the comments the workflow wrote and can read back
Observed(cs) == {cs[k].request : k \in {j \in DOMAIN cs : cs[j].kind = "observation"}}

\* defect: a conflicting request under a used identity passes
ReplayedDigest(cs, d) == d \in Observed(cs)

\* lifecycleRequestReplay: the identity or the digest was observed before
Replayed(cs, d) == \E e \in Observed(cs) : e.id = d.id \/ e = d

\* dispatchAuthorityFailures; every issue has an exact type
Authorized(d, i) == DispatchRole(d) # "none" /\ i.statuses = {d.source}

\* pullRequestEventAuthorityFailures
PullRequestAuthorized(ev) == CanClaim(ev.sender)

\* what runIssueLifecycleAction decides between its first reads and its effects
Decision(ev, i, cs, inv, cur) ==
  CASE ~inv -> Fail
    [] ev.kind = "dispatch" /\ (Replayed(cs, ev.request) \/ ~Authorized(ev.request, i)) -> Fail
    [] IsPullRequest(ev) /\ Cardinality(i.statuses) # 1 -> Fail
    [] /\ IsPullRequest(ev) /\ Enabled /\ ~PullRequestAuthorized(ev)
       /\ Desired(ev, i, cs, cur) # Fail -> Fail
    [] OTHER -> Desired(ev, i, cs, cur)

-----------------------------------------------------------------------------
(* People and pull requests. Every gesture is delivered as an event that   *)
(* carries the issue as the gesture left it (the lifecycle action never    *)
(* looks at that payload) and names its sender where a run asks who sent   *)
(* it. A workflow's own writes deliver none. The readiness group keeps one *)
(* waiting run, which a newer one replaces; the lifecycle group keeps all. *)

NoRun == [pc |-> "idle"]

Deliver(ev) ==
  pending' = IF Enabled THEN Append(pending, ev)
             ELSE IF ev.kind \in {"closed", "edited", "labeled", "reopened", "unlabeled"}
             THEN <<ev>> ELSE pending

Spend == edits < MaxEdits[activation] /\ edits' = edits + 1
Tick == clock' = clock + 1
Stamped(i) == [i EXCEPT !.at = clock + 1]
History == <<activation, faults, applied, unrecorded, refused, statuses, checks, late, missed>>

\* an event with the issue it carries
Carrying(ev, i) == [f \in {"payload"} \cup DOMAIN ev |-> IF f = "payload" THEN i ELSE ev[f]]

Gesture(i, ev) ==
  /\ Spend /\ Tick
  /\ issue' = Stamped(i)
  /\ Deliver(IF Enabled THEN ev ELSE Carrying(ev, Stamped(i)))
  /\ UNCHANGED <<comments, inventory, prs, queued, run>> /\ UNCHANGED History

AddStatus == \E a \in Actors, s \in Gestures \ issue.statuses :
  Gesture([issue EXCEPT !.statuses = @ \cup {s}],
          [kind |-> "labeled", label |-> s, sender |-> a])
DropStatus == \E s \in issue.statuses :
  Gesture([issue EXCEPT !.statuses = @ \ {s}],
          [kind |-> "unlabeled", label |-> s])
AddForeign == \E l \in Foreign \ issue.foreign :
  Gesture([issue EXCEPT !.foreign = @ \cup {l}],
          [kind |-> "labeled", label |-> l])
EditBody == \E b \in Bodies \ {issue.body} :
  Gesture([issue EXCEPT !.body = b], [kind |-> "edited"])
Assign == \E a \in Actors, w \in Actors \ issue.assignees :
  Gesture([issue EXCEPT !.assignees = @ \cup {w}],
          [kind |-> "assigned", sender |-> a, assignee |-> w])
Unassign == \E a \in Actors, w \in issue.assignees :
  Gesture([issue EXCEPT !.assignees = @ \ {w}],
          [kind |-> "unassigned", sender |-> a, assignee |-> w])
CloseIssue == \E r \in {"completed", "not_planned"} :
  issue.open /\ Gesture([issue EXCEPT !.open = FALSE, !.reason = r],
                        [kind |-> "closed"])
Reopen ==
  ~issue.open /\ Gesture([issue EXCEPT !.open = TRUE, !.reason = "none"],
                         [kind |-> "reopened"])
\* an authenticated request; it touches nothing by itself
Dispatch == \E d \in Dispatches :
  /\ Enabled /\ Spend
  /\ Deliver([kind |-> "dispatch", request |-> d])
  /\ UNCHANGED <<issue, comments, inventory, prs, queued, run, clock>> /\ UNCHANGED History
\* an ordinary comment moves updated_at; one with the readiness marker forges
Comment == \E forged \in BOOLEAN :
  /\ Spend /\ Tick
  /\ issue' = Stamped(issue)
  /\ comments' = IF forged THEN Append(comments, [kind |-> "forged"]) ELSE comments
  /\ UNCHANGED <<inventory, prs, queued, pending, run>> /\ UNCHANGED History
\* a maintainer renames or restores a label of the repository
ChangeInventory ==
  /\ Spend /\ inventory' = ~inventory
  /\ UNCHANGED <<issue, comments, prs, queued, pending, run, clock>> /\ UNCHANGED History

\* Every event of a pull request asks for a check of its head, which replaces
\* the one that waits. (A terminal one, of the merge, remembers the event.)
NoCheck == [pc |-> "idle"]
AskCheck(p, q, terminal) ==
  queued' = [queued EXCEPT ![p] =
               [pc |-> "queued", head |-> q.head, terminal |-> terminal,
                at |-> IF terminal THEN q.at ELSE 0]]

\* the lifecycle action is told with the event what became of the check
PullRequestStep(p, new, kind) == \E a \in Actors, ok \in {FALSE, Enabled} :
  /\ Spend /\ Tick
  /\ LET q == [new EXCEPT !.at = clock + 1] IN
     /\ prs' = [prs EXCEPT ![p] = q]
     /\ AskCheck(p, q, kind = "prMerged")
     /\ Deliver([kind |-> kind, pr |-> p, snapshot |-> q, sender |-> a,
                 contract |-> ok])
  /\ UNCHANGED <<issue, comments, inventory, run>> /\ UNCHANGED History

\* opened, and reopened after it was closed
OpenPullRequest == \E p \in PRs, h \in Heads :
  /\ prs[p].state \in {"none", "closed"}
  /\ PullRequestStep(p, [state |-> "open", head |-> h, at |-> clock + 1], "prOpened")
\* a head may be left and come back to, with the statuses it had
PushHead == \E p \in PRs : \E h \in Heads \ {prs[p].head} :
  /\ prs[p].state = "open"
  /\ PullRequestStep(p, [prs[p] EXCEPT !.head = h], "prSynchronize")
ConvertToDraft == \E p \in PRs :
  prs[p].state = "open" /\ PullRequestStep(p, prs[p], "prDraft")
MergePullRequest == \E p \in PRs :
  /\ prs[p].state = "open"
  /\ PullRequestStep(p, [prs[p] EXCEPT !.state = "merged"], "prMerged")
ClosePullRequest == \E p \in PRs :
  /\ prs[p].state = "open"
  /\ PullRequestStep(p, [prs[p] EXCEPT !.state = "closed"], "prClosed")
\* an edit of its title or body is checked, and is no event of the lifecycle
EditPullRequest == \E p \in PRs :
  /\ prs[p].state # "none" /\ Spend /\ Tick
  /\ LET q == [prs[p] EXCEPT !.at = clock + 1] IN
     prs' = [prs EXCEPT ![p] = q] /\ AskCheck(p, q, FALSE)
  /\ UNCHANGED <<issue, comments, inventory, pending, run>> /\ UNCHANGED History

People ==
  \/ AddStatus \/ DropStatus \/ AddForeign \/ EditBody \/ Assign \/ Unassign
  \/ CloseIssue \/ Reopen \/ Dispatch \/ Comment \/ ChangeInventory
  \/ OpenPullRequest \/ PushHead \/ ConvertToDraft \/ MergePullRequest
  \/ ClosePullRequest \/ EditPullRequest

-----------------------------------------------------------------------------
(* The lifecycle action: read, decide, read again, write, read back.       *)

NoValue == [none |-> TRUE]
Step(pc) == run' = [run EXCEPT !.pc = pc]
Contract == <<statuses, checks, queued, late, missed>>
Provider == UNCHANGED <<inventory, prs, pending, activation, edits>> /\ UNCHANGED Contract
Reads == UNCHANGED <<issue, comments, clock, faults, applied, unrecorded>> /\ Provider

\* what a run reads in parallel, at first and once more before it writes
Inputs == {"issue", "comments", "inventory"}

\* a request whose fields are wrong is refused before anything is read
TakeEvent == \E k \in DOMAIN pending :
  /\ run = NoRun /\ Enabled
  /\ pending' = RemoveAt(pending, k)
  /\ run' = IF pending[k].kind = "dispatch" /\ ~ParseOk(pending[k].request) THEN NoRun
            ELSE [pc |-> "load", ev |-> pending[k], todo |-> Inputs,
                  issue |-> NoValue, comments |-> <<>>, inventory |-> TRUE]
  /\ UNCHANGED <<issue, comments, inventory, prs, queued, clock, edits>> /\ UNCHANGED History

\* the parallel reads of the issue, its comments and the label inventory
LoadIssue ==
  /\ run.pc = "load" /\ "issue" \in run.todo
  /\ run' = [run EXCEPT !.issue = issue, !.todo = @ \ {"issue"}]
  /\ Reads /\ UNCHANGED refused
LoadComments ==
  /\ run.pc = "load" /\ "comments" \in run.todo
  /\ run' = [run EXCEPT !.comments = comments, !.todo = @ \ {"comments"}]
  /\ Reads /\ UNCHANGED refused
LoadInventory ==
  /\ run.pc = "load" /\ "inventory" \in run.todo
  /\ run' = [run EXCEPT !.inventory = inventory, !.todo = @ \ {"inventory"}]
  /\ Reads /\ UNCHANGED refused

\* status labels have no order a run may count on; a request names its own
CurrentStates(ev, i) ==
  IF ev.kind = "dispatch" /\ ev.request.source \in i.statuses THEN {ev.request.source}
  ELSE IF i.statuses = {} THEN {"none"} ELSE i.statuses

Conclude(outcome) == run' = [run EXCEPT !.pc = "finalize", !.todo = {outcome}]

\* planLifecycleLabelRemoval: every status label the first read saw
PlanRemoval(d) == IF d.do = "remove" THEN [d EXCEPT !.labels = run.issue.statuses] ELSE d

\* reconcileDesiredStatus up to its writes: a decision that changes nothing,
\* or that may not be written, ends the run
Reconcile(d, cur) ==
  CASE d.do = "nothing" ->
         Conclude(IF Cardinality(run.issue.statuses) = 1 THEN "ignored" ELSE "failed")
    [] d.do # "nothing" /\ ~Enabled -> Conclude("planned")
    [] OTHER ->
         run' = [pc |-> "reread", ev |-> run.ev, todo |-> Inputs,
                 issue |-> run.issue, comments |-> run.comments,
                 inventory |-> run.inventory, from |-> cur, plan |-> PlanRemoval(d)]

Decide ==
  /\ run.pc = "load" /\ run.todo = {}
  /\ \E cur \in CurrentStates(run.ev, run.issue) :
       LET d == Decision(run.ev, run.issue, run.comments, run.inventory, cur) IN
       IF d.do \in {"failed", "ignored"} THEN Conclude(d.do) ELSE Reconcile(d, cur)
  /\ Reads /\ UNCHANGED refused

\* stableLifecycleInputs: every input is read once more and must be the same
Reread(what, same) ==
  /\ run.pc = "reread" /\ what \in run.todo
  /\ IF ~same THEN Conclude("failed")
     ELSE run' = [run EXCEPT !.todo = @ \ {what},
                             !.pc = IF run.todo = {what} THEN "write" ELSE @]
  /\ Reads /\ UNCHANGED refused
\* defect: the second read compares the labels alone
LabelsOnly == run.issue.statuses = issue.statuses /\ run.issue.foreign = issue.foreign

SameIssue == run.issue = issue
SameComments == run.comments = comments
SameInventory == run.inventory = inventory
RereadIssue == run.pc = "reread" /\ Reread("issue", SameIssue)
RereadComments == run.pc = "reread" /\ Reread("comments", SameComments)
RereadInventory == run.pc = "reread" /\ Reread("inventory", SameInventory)

\* a PATCH writes the whole label set: the labels of the first read with the
\* desired status
Replaced == [issue EXCEPT !.statuses = {run.plan.to}, !.foreign = run.issue.foreign]

Writes(i) ==
  /\ issue' = Stamped(i) /\ Tick
  /\ UNCHANGED <<comments, faults, applied, unrecorded, refused>> /\ Provider

ReplaceLabels ==
  /\ run.pc = "write" /\ run.plan.do = "set" /\ ~run.plan.close
  /\ Writes(Replaced) /\ Step("readback")

\* closeIssueAsCompleted: the closure and the label in one PATCH
CloseCompleted ==
  /\ run.pc = "write" /\ run.plan.do = "set" /\ run.plan.close
  /\ Writes([Replaced EXCEPT !.open = FALSE, !.reason = "completed"])
  /\ Step("readback")

\* a removal is one DELETE call for each label
Delete(do) ==
  /\ run.pc = "write" /\ run.plan.do = do
  /\ \E l \in run.plan.labels :
       /\ Writes([issue EXCEPT !.statuses = @ \ {l}])
       /\ run' = [run EXCEPT !.plan.labels = @ \ {l},
                             !.pc = IF run.plan.labels = {l} THEN "readback" ELSE @]
RemoveLabel == Delete("remove")
RepairGesture == Delete("repair")

\* nothing to remove: the issue is read back all the same
NothingToRemove ==
  /\ run.pc = "write" /\ run.plan.do = "remove" /\ run.plan.labels = {}
  /\ Step("readback") /\ Reads /\ UNCHANGED refused

\* replaceLifecycleLabels catches a failed PATCH and reads back all the same;
\* a failed restoration ends in a failure too
WriteFails ==
  /\ faults < MaxFaults /\ faults' = faults + 1
  /\ \/ run.pc = "write" /\ run.plan.do = "set" /\ ~run.plan.close /\ Step("readback")
     \/ run.pc = "restore" /\ Conclude("failed")
  /\ UNCHANGED <<issue, comments, clock, applied, unrecorded, refused>> /\ Provider

\* verifyStatusLabelReadback, verifyLifecycleLabelRemoval
StatusVerified == issue.statuses = {run.plan.to}
RemovalVerified == issue.statuses = {}
Verified ==
  IF run.plan.do = "remove" THEN RemovalVerified
  ELSE /\ StatusVerified
       /\ run.plan.do = "set" /\ run.plan.close =>
            ~issue.open /\ issue.reason = "completed"

\* an unverified replacement puts back the labels of the first read, unless
\* the issue is still what the first read saw
ReadBack ==
  /\ run.pc = "readback"
  /\ IF Verified
     THEN Conclude(IF run.plan.do = "repair" THEN "failed" ELSE "applied")
     ELSE IF run.plan.do = "set" /\ ~run.plan.close /\ issue # run.issue
     THEN Step("restore")
     ELSE Conclude("failed")
  /\ applied' = IF Verified /\ run.ev.kind = "dispatch"
                THEN [applied EXCEPT ![run.ev.request] = @ + 1] ELSE applied
  /\ UNCHANGED <<issue, comments, clock, faults, unrecorded, refused>> /\ Provider

Restore ==
  /\ run.pc = "restore"
  /\ issue' = Stamped([issue EXCEPT !.statuses = run.issue.statuses,
                                    !.foreign = run.issue.foreign])
  /\ Tick /\ Conclude("failed")
  /\ UNCHANGED <<comments, faults, applied, unrecorded, refused>> /\ Provider

\* finalizeLifecycleDispatch: a request's outcome is observed in a comment
Finalize ==
  /\ run.pc = "finalize"
  /\ IF run.ev.kind = "dispatch"
     THEN /\ comments' = Append(comments,
                                Observation(run.ev.request, run.todo))
          /\ issue' = Stamped(issue) /\ Tick
     ELSE UNCHANGED <<comments, issue, clock>>
  /\ run' = NoRun /\ UNCHANGED refused
  /\ UNCHANGED <<faults, applied, unrecorded>> /\ Provider

-----------------------------------------------------------------------------
(* The readiness action. Its facts are those of the event's own payload.   *)

\* readinessEventFacts
HasCurrent(i) == i.statuses \cap CurrentReadiness # {}
IsRequest(ev) == ev.kind = "labeled" /\ ev.label = "ready"
RemovesTracked(ev) == ev.kind = "unlabeled" /\ ev.label \in Tracked
\* defect: only gestures on the ready label are looked at
OnlyReadyLabels(ev, i) ==
  IsRequest(ev) \/ (ev.kind = "unlabeled" /\ ev.label \in {"ready"} \cup Tracked)

Relevant(ev, i) ==
  \/ IsRequest(ev) \/ RemovesTracked(ev)
  \/ ev.kind = "unlabeled" /\ ev.label = "ready"
  \/ HasCurrent(i)
PausesTracked(ev, i) ==
  ev.kind = "labeled" /\ ev.label \in Paused /\ i.statuses \cap Tracked # {}

\* validationWithLifecycleConflicts
Valid(ev, i) ==
  /\ i.body \notin Malformed
  /\ IsRequest(ev) => i.statuses \subseteq {"ready", "new", "triaged"}
  /\ ~IsRequest(ev) /\ "ready" \in i.statuses => i.statuses = {"ready"}

\* actorCanRequestReadiness
MayRequest(a) == a \in Planners

\* decideReadiness
DecideReadiness(ev, i, cs) ==
  LET current == HasCurrent(i) \/ RemovesTracked(ev) IN
  IF ev.kind = "closed" /\ current THEN "lifecycleOwned"
  ELSE IF ev.kind = "reopened" /\ current THEN "reject"
  ELSE IF ~IsRequest(ev) /\ ~(current /\ ev.kind # "closed")
          /\ ~(ev.kind = "unlabeled" /\ ev.label = "ready") THEN "ignore"
  ELSE IF \/ ev.kind = "unlabeled" /\ ev.label \in {"ready"} \cup Tracked
          \/ IsRequest(ev) /\ ~MayRequest(ev.sender)
          \/ ~Valid(ev, i) THEN "reject"
  ELSE IF IsRequest(ev) THEN "accept"
  ELSE IF AcceptedFor(cs, i.body) THEN "keep" ELSE "reject"

Drop(s) == [op |-> "remove", label |-> s]
Op(name) == [op |-> name]
Removals(ss) == SetToSeq({Drop(s) : s \in ss})

\* defect: pull requests are not told
NoInvalidation(decision, ev, i) ==
  CASE decision = "accept" -> <<Drop("new"), Drop("triaged"), Op("accepted")>>
    [] decision = "reject" -> Removals(i.statuses) \o <<Op("add"), Op("rejected")>>
    [] decision = "lifecycleOwned" -> <<Op("rejected")>>
    [] OTHER -> <<>>

\* applyReadinessDecision, as the calls it makes in order
Calls(decision, ev, i) ==
  IF decision = "accept" THEN <<Drop("new"), Drop("triaged"), Op("accepted")>>
  ELSE IF decision = "lifecycleOwned" THEN <<Op("rejected"), Op("invalidate")>>
  ELSE IF decision = "reject" /\ ev.kind = "reopened"
  THEN <<Op("unchanged"), Op("invalidate")>> \o Removals(i.statuses)
       \o <<Op("add"), Op("soleNew"), Op("rejected")>>
  ELSE IF decision = "reject"
  THEN Removals(i.statuses) \o <<Op("add"), Op("rejected"), Op("invalidate")>>
  ELSE IF decision = "keep" /\ PausesTracked(ev, i) THEN <<Op("invalidate")>>
  ELSE <<>>

Failure == [ever |-> TRUE, last |-> TRUE]

\* a reopened event is acted on only while its payload is the current issue
Dismissed(ev) == ev.kind = "reopened" /\ issue.open /\ issue.at # ev.payload.at

TakeReadinessEvent ==
  /\ run = NoRun /\ ~Enabled /\ pending # <<>>
  /\ pending' = Tail(pending)
  /\ LET ev == Head(pending) IN
     /\ run' = IF Dismissed(ev) \/ ~Relevant(ev, ev.payload) THEN NoRun
               ELSE [pc |-> "readiness", ev |-> ev, issue |-> ev.payload,
                     calls |-> <<>>, heads |-> {}]
     /\ refused' = IF ev.kind = "reopened" /\ ~issue.open THEN Failure
                   ELSE [refused EXCEPT !.last = Dismissed(ev)]
  /\ UNCHANGED <<issue, comments, inventory, prs, clock, activation, edits, faults,
                 applied, unrecorded>> /\ UNCHANGED Contract

ReadRecords ==
  /\ run.pc = "readiness"
  /\ run' = [run EXCEPT !.pc = "call",
       !.calls = Calls(DecideReadiness(run.ev, run.issue, comments), run.ev, run.issue)]
  /\ Reads /\ UNCHANGED refused

Finished == run' = IF Len(run.calls) = 1 THEN NoRun
                   ELSE [run EXCEPT !.pc = "call", !.calls = Tail(@)]
Record(status) == comments' = Append(comments,
  [kind |-> "readiness", accepted |-> status, fp |-> run.issue.body,
   on |-> run.ev.kind])

ReadinessDone ==
  /\ run.pc = "call" /\ run.calls = <<>>
  /\ run' = NoRun /\ UNCHANGED refused /\ Reads

\* the two checks a reopened issue goes through end the run when they fail
ReadinessCheck ==
  /\ run.pc = "call" /\ run.calls # <<>>
  /\ LET op == Head(run.calls).op
         good == IF op = "unchanged" THEN issue.open /\ issue.at = run.issue.at
                 ELSE issue.open /\ issue.statuses = {"new"} IN
     /\ op \in {"unchanged", "soleNew"}
     /\ IF good THEN Finished /\ UNCHANGED refused ELSE run' = NoRun /\ refused' = Failure
  /\ Reads

ReadinessWrite ==
  /\ run.pc = "call" /\ run.calls # <<>> /\ Head(run.calls).op \in {"remove", "add"}
  /\ LET c == Head(run.calls) IN
     issue' = Stamped([issue EXCEPT !.statuses =
                         IF c.op = "add" THEN @ \cup {"new"} ELSE @ \ {c.label}])
  /\ Tick /\ Finished /\ UNCHANGED refused
  /\ UNCHANGED <<comments, faults, applied, unrecorded>> /\ Provider

ReadinessRecord ==
  /\ run.pc = "call" /\ run.calls # <<>> /\ Head(run.calls).op \in {"accepted", "rejected"}
  /\ Record(Head(run.calls).op = "accepted")
  /\ issue' = Stamped(issue) /\ Tick /\ Finished /\ UNCHANGED refused
  /\ UNCHANGED <<faults, applied, unrecorded>> /\ Provider

\* invalidateLinkedPullRequestContracts: the heads of the open pull requests
\* are listed first, and then told one by one
OpenHeads == {prs[p].head : p \in {q \in PRs : prs[q].state = "open"}}
CheckHasRead(p) == checks[p] # NoCheck /\ "comments" \notin checks[p].todo
ListPullRequests ==
  /\ run.pc = "call" /\ run.calls # <<>> /\ Head(run.calls).op = "invalidate"
  /\ run' = [run EXCEPT !.pc = "tell", !.heads = OpenHeads]
  /\ late' = late \cup {p \in PRs : CheckHasRead(p)}
  /\ UNCHANGED <<issue, comments, inventory, prs, pending, clock, activation, edits,
                 faults, applied, unrecorded, refused, statuses, checks, queued, missed>>
TellPullRequest ==
  /\ run.pc = "tell"
  /\ \E h \in run.heads :
       /\ statuses' = [statuses EXCEPT ![h] = @ \ {"issueContract"}]
       /\ missed' = missed \ {h}
       /\ run' = [run EXCEPT !.heads = @ \ {h}]
  /\ UNCHANGED <<issue, comments, inventory, prs, pending, clock, activation, edits,
                 faults, applied, unrecorded, refused, checks, queued, late>>
AllTold ==
  /\ run.pc = "tell" /\ run.heads = {}
  /\ Finished /\ Reads /\ UNCHANGED refused

-----------------------------------------------------------------------------
(* The contract check of a pull request. It reads the issue and its        *)
(* comments apart (and, for the merge, the pull request), judges, and      *)
(* publishes on the head its event named. What it asks of the pull request *)
(* itself - sections, evidence, the record it cites - may always fail.     *)

Beside == UNCHANGED <<issue, comments, inventory, prs, pending, run, clock, activation,
                      applied, unrecorded, refused>>

\* acceptedIssueFailures: the bodies it asks a record for, none if it fails
Eligible(terminal, i) ==
  IF terminal /\ ~i.open /\ i.reason = "completed"
  THEN {IF Enabled THEN "review" ELSE "ready", "done"}
  ELSE IF ~i.open THEN {}
  ELSE IF Enabled THEN {"inProgress"} \cup Tracked ELSE {"ready"}
Asked(terminal, i) ==
  IF i.body \notin Malformed /\ \E s \in Eligible(terminal, i) : Sole(i, s)
  THEN {i.body} ELSE {}

\* readinessFailures: the bodies the records accept. The delivery of a merged
\* pull request outlives the rejection that closed its issue.
Granted(terminal, cs) ==
  LET last == LastRecord(cs) IN
  IF last.accepted THEN {last.fp}
  ELSE {b \in Bodies : /\ terminal /\ last.on = "closed" /\ last.fp = b
                       /\ \E k \in Readiness(cs) : cs[k].accepted /\ cs[k].fp = b}

TakeCheck == \E p \in PRs :
  /\ checks[p] = NoCheck /\ queued[p] # NoCheck
  /\ checks' = [checks EXCEPT ![p] =
       [pc |-> "read", head |-> queued[p].head, terminal |-> queued[p].terminal,
        at |-> queued[p].at, asked |-> {}, granted |-> {}, same |-> TRUE,
        todo |-> {"issue", "comments"} \cup (IF queued[p].terminal THEN {"pull"} ELSE {})]]
  /\ queued' = [queued EXCEPT ![p] = NoCheck] /\ Spend
  /\ Beside /\ UNCHANGED <<statuses, faults, late, missed>>

CheckReads(p, what, c) ==
  /\ checks[p].pc = "read" /\ what \in checks[p].todo
  /\ checks' = [checks EXCEPT ![p] = [c EXCEPT !.todo = @ \ {what}]]
  /\ Beside /\ UNCHANGED <<edits, statuses, queued, faults, late, missed>>
CheckReadsIssue == \E p \in PRs :
  CheckReads(p, "issue", [checks[p] EXCEPT !.asked = Asked(checks[p].terminal, issue)])
CheckReadsComments == \E p \in PRs :
  CheckReads(p, "comments", [checks[p] EXCEPT !.granted = Granted(checks[p].terminal, comments)])
\* terminalPullRequestSnapshotFailures
CheckReadsPullRequest == \E p \in PRs :
  CheckReads(p, "pull", [checks[p] EXCEPT !.same = (prs[p].at = checks[p].at)])

Publish(p, h, contexts) ==
  /\ statuses' = [statuses EXCEPT ![h] = contexts]
  /\ Beside /\ UNCHANGED <<edits, queued, faults>>
EndCheck(p) == checks' = [checks EXCEPT ![p] = NoCheck] /\ late' = late \ {p}

\* a success is published in two posts, a failure in one
PublishContract == \E p \in PRs : LET c == checks[p] IN
  /\ c.pc = "read" /\ c.todo = {} /\ c.same /\ c.asked \cap c.granted # {}
  /\ Publish(p, c.head, statuses[c.head] \cup {"prContract"})
  /\ checks' = [checks EXCEPT ![p].pc = "publish"] /\ UNCHANGED late
  /\ missed' = IF p \in late THEN missed \cup {c.head} ELSE missed
PublishIssueContract == \E p \in PRs : LET c == checks[p] IN
  /\ c.pc = "publish"
  /\ Publish(p, c.head, statuses[c.head] \cup {"issueContract"}) /\ EndCheck(p)
  /\ missed' = IF p \in late THEN missed \cup {c.head} ELSE missed
PublishFailure == \E p \in PRs : LET c == checks[p] IN
  /\ c.pc = "read" /\ c.todo = {}
  /\ Publish(p, c.head, statuses[c.head] \ {"prContract"}) /\ EndCheck(p)
  /\ missed' = missed \ {c.head}
\* a read that throws is published as an error, a lost check is not
CheckDies == \E p \in PRs : LET c == checks[p] IN
  /\ c # NoCheck /\ faults < MaxFaults /\ faults' = faults + 1
  /\ \E gone \in IF c.pc = "read" THEN {{}, {"prContract"}} ELSE {{}} :
       statuses' = [statuses EXCEPT ![c.head] = @ \ gone]
  /\ EndCheck(p) /\ missed' = missed \cup {c.head}
  /\ Beside /\ UNCHANGED <<edits, queued>>

ContractCheck ==
  \/ TakeCheck \/ CheckReadsIssue \/ CheckReadsComments \/ CheckReadsPullRequest
  \/ PublishContract \/ PublishIssueContract \/ PublishFailure

-----------------------------------------------------------------------------
\* a provider call that throws, or a runner that is lost, ends the run
RunDies ==
  /\ run # NoRun
  /\ faults < MaxFaults /\ faults' = faults + 1
  /\ run' = NoRun /\ refused' = Failure
  /\ unrecorded' = IF run.pc \notin {"readiness", "call", "tell"} /\ run.ev.kind = "dispatch"
                   THEN [unrecorded EXCEPT ![run.ev.request] = @ + 1] ELSE unrecorded
  /\ UNCHANGED <<issue, comments, clock, applied>> /\ Provider

Lifecycle ==
  \/ TakeEvent \/ LoadIssue \/ LoadComments \/ LoadInventory \/ Decide
  \/ RereadIssue \/ RereadComments \/ RereadInventory \/ ReplaceLabels \/ CloseCompleted \/ RemoveLabel
  \/ RepairGesture \/ NothingToRemove \/ ReadBack \/ Restore \/ Finalize
ReadinessRun ==
  \/ TakeReadinessEvent \/ ReadRecords \/ ReadinessDone \/ ReadinessCheck
  \/ ReadinessWrite \/ ReadinessRecord
  \/ ListPullRequests \/ TellPullRequest \/ AllTold
Faults == WriteFails \/ RunDies \/ CheckDies

\* did the pair the run decided on hold together at this instant? (The label
\* inventory has no version: renamed and restored between the two reads, it
\* looks unchanged.)
Consistent ==
  /\ run'.pc \in {"load", "reread", "write", "readback", "restore"}
  /\ \/ held
     \/ /\ run'.pc = "load" => run'.todo \cap {"issue", "comments"} = {}
        /\ run'.issue = issue' /\ run'.comments = comments'

NoPullRequest == [state |-> "none", head |-> "none", at |-> 0]

Init ==
  /\ activation \in Activations
  /\ \E s \in InitStates[activation], b \in Bodies \ Malformed :
       /\ issue = [statuses |-> {s}, foreign |-> {}, open |-> TRUE, reason |-> "none",
                   body |-> b, at |-> 0,
                   assignees |-> IF s \in {"inProgress"} \cup Tracked
                                 THEN {CHOOSE w \in Writers : TRUE} ELSE {}]
       /\ comments = IF s \in CurrentReadiness
                     THEN <<[kind |-> "readiness", accepted |-> TRUE, fp |-> b, on |-> "labeled"]>>
                     ELSE <<>>
       /\ \E p \in PRs, h \in Heads, opened \in BOOLEAN :
            /\ s \in Tracked => opened
            /\ opened => s \in Tracked \/ (s = "ready" /\ ~Enabled)
            /\ prs = [q \in PRs |-> IF opened /\ q = p
                                   THEN [state |-> "open", head |-> h, at |-> 0]
                                   ELSE NoPullRequest]
            /\ statuses = [g \in Heads |-> IF opened /\ g = h THEN Contexts ELSE {}]
  /\ checks = [p \in PRs |-> NoCheck] /\ queued = [p \in PRs |-> NoCheck]
  /\ late = {} /\ missed = {}
  /\ inventory = TRUE /\ pending = <<>> /\ run = NoRun /\ clock = 0
  /\ edits = 0 /\ faults = 0 /\ held = FALSE
  /\ refused = [ever |-> FALSE, last |-> FALSE]
  /\ applied = [d \in Dispatches |-> 0] /\ unrecorded = [d \in Dispatches |-> 0]

Next == (People \/ Lifecycle \/ ReadinessRun \/ ContractCheck \/ Faults) /\ held' = Consistent

\* a queued run is started, and a run makes its next call
Fairness == WF_vars((Lifecycle \/ ReadinessRun) /\ held' = Consistent)

Spec == Init /\ [][Next]_vars /\ Fairness

-----------------------------------------------------------------------------
(* What must hold. *)

TypeOK ==
  /\ issue.statuses \subseteq States /\ issue.foreign \subseteq Foreign
  /\ issue.body \in Bodies /\ issue.at <= clock
  /\ \A p \in PRs : prs[p].state \in {"none", "open", "closed", "merged"}
  /\ \A h \in Heads : statuses[h] \subseteq Contexts
  /\ ~Enabled => Len(pending) <= 1
  /\ run.pc \in {"idle", "load", "reread", "write", "readback", "restore",
                 "finalize", "readiness", "call", "tell"}

\* The rules for claims, closures, requests and pull requests, each written on
\* its own, agree with the edge table: a status is only replaced along an edge
\* of ALLOWED_LIFECYCLE_EDGES, or by new.
EdgesOnly ==
  run.pc = "write" /\ run.plan.do = "set" =>
    run.plan.to = "new" \/ ValidEdge(run.from, run.plan.to)

\* A run reads the issue and its comments apart and decides on the pair. When
\* it reaches its first write there was an instant, since its first read, at
\* which the whole pair it decided on was true (stableLifecycleInputs).
DecidedOnOneInstant == run.pc = "write" => held

\* A request is applied once, however often it is delivered and whatever
\* happened to the issue in between; only the loss of its observation comment
\* lets it be applied again, and two requests never share one identity.
AppliedOnce == \A d, e \in Dispatches :
  d.id = e.id =>
    applied[d] + (IF d = e THEN 0 ELSE applied[e])
      <= 1 + unrecorded[d] + (IF d = e THEN 0 ELSE unrecorded[e])

\* Done is written only for an issue one of whose pull requests was merged,
\* and the issue was not reopened or claimed again behind that evidence.
DoneIsEarned ==
  run.pc \in {"write", "readback"} /\ run.plan.do = "set" /\ run.plan.to = "done" =>
    (\E p \in PRs : prs[p].state = "merged") /\ run.from \in {"review", "done"}

WorkedOff == run = NoRun /\ pending = <<>> /\ ~refused.last

\* An accepted readiness does not outlive the body it accepted: once the events
\* are worked off, an issue in a state that needs readiness whose latest record
\* is an acceptance carries the accepted body, although an event may have replaced
\* another one in the queue and every run acts on the payload of its own event.
\* A run that failed and a reopening that was dismissed as stale are left out
\* until the next event.
AcceptanceFollowsBody ==
  ~Enabled /\ WorkedOff /\ LastRecord(comments).accepted /\ HasCurrent(issue)
  => LastRecord(comments).fp = issue.body

Rejected ==
  /\ Readiness(comments) # {}
  /\ ~LastRecord(comments).accepted /\ LastRecord(comments).on # "reopened"
Checking(p) == checks[p] # NoCheck \/ queued[p] # NoCheck
Delivered(h) == \E q \in PRs : prs[q].state = "merged" /\ prs[q].head = h

\* Once the run that recorded a rejection is over, an open pull request holds
\* both contract statuses only while a check of it is still to come, or because
\* the invalidation missed its head: a check that had read the old acceptance
\* published behind it (the two are in different concurrency groups), or a check
\* was lost. Pushes, returns to an older head and checks in any order make no
\* other exception. A reopening is left out: its run invalidates before it
\* records the rejection, so a head checked in between is judged by the old
\* acceptance; and so is a commit that another pull request delivered.
RejectionReachesPullRequests ==
  ~Enabled /\ run = NoRun /\ ~refused.ever /\ Rejected =>
    \A p \in PRs : prs[p].state = "open" /\ Green(p) =>
      Checking(p) \/ prs[p].head \in missed \/ Delivered(prs[p].head)

\* An open issue whose readiness was rejected is back at new, as the comment of
\* the rejection says, once the events are worked off.
RejectedIsNotReady ==
  ~Enabled /\ run = NoRun /\ pending = <<>> /\ ~refused.ever /\ issue.open /\ Readiness(comments) # {}
  /\ ~LastRecord(comments).accepted => "ready" \notin issue.statuses

\* A readiness that no longer fits the body is withdrawn in the end, unless the
\* run that would withdraw it fails or the event is a reopening dismissed as stale.
StaleReadinessIsWithdrawn ==
  (~Enabled /\ issue.open /\ "ready" \in issue.statuses /\ LastRecord(comments).accepted
     /\ LastRecord(comments).fp # issue.body)
  ~> (LastRecord(comments).fp = issue.body \/ ~LastRecord(comments).accepted
      \/ "ready" \notin issue.statuses \/ ~issue.open \/ refused.ever \/ refused.last)

=============================================================================
