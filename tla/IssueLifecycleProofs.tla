----------------------- MODULE IssueLifecycleProofs -----------------------
(***************************************************************************)
(* What a lifecycle run never does, for every number of people, requests   *)
(* and edits between its calls.  The argument: every rule of a decision,   *)
(* whatever its evidence, names a status the edge table allows; every      *)
(* write to the issue moves its updated_at and comments are only added, so *)
(* an input that reads the same twice was the same in between; a request   *)
(* is decided on comments that do not observe it, and only the run itself  *)
(* adds the comment that does.                                             *)
(***************************************************************************)
EXTENDS IssueLifecycle, SequenceTheorems, FiniteSetTheorems, TLAPS

(* The records of the provider and of a run. *)
IsSequence(s) == s = [k \in 1 .. Len(s) |-> s[k]] /\ Len(s) \in Nat

IssueRecord(i) ==
  /\ i = [statuses |-> i.statuses, foreign |-> i.foreign, open |-> i.open,
          reason |-> i.reason, body |-> i.body, at |-> i.at, assignees |-> i.assignees]
  /\ i.at \in Nat

PullRecord(q) == q = [state |-> q.state, head |-> q.head, at |-> q.at]

Plan(d) ==
  \/ d.do = "set" /\ d = [do |-> "set", to |-> d.to, close |-> d.close]
  \/ d.do = "remove" /\ d = [do |-> "remove", labels |-> d.labels]
  \/ d.do = "repair" /\ d = [do |-> "repair", labels |-> d.labels, to |-> d.to]

LoadRun(r) ==
  r = [pc |-> r.pc, ev |-> r.ev, todo |-> r.todo, issue |-> r.issue,
       comments |-> r.comments, inventory |-> r.inventory]
DecidedRun(r) ==
  r = [pc |-> r.pc, ev |-> r.ev, todo |-> r.todo, issue |-> r.issue,
       comments |-> r.comments, inventory |-> r.inventory,
       from |-> r.from, plan |-> r.plan]
ReadinessShape(r) ==
  r = [pc |-> r.pc, ev |-> r.ev, issue |-> r.issue, calls |-> r.calls, heads |-> r.heads]

KnownEvent(ev) ==
  /\ ev.kind = "dispatch" => ev.request \in Dispatches
  /\ IsPullRequest(ev) => ev.pr \in PRs

Decided == {"reread", "write", "readback", "restore"}
Working == {"load", "finalize"} \cup Decided
Calling == {"readiness", "call", "tell"}
Aside == {"idle"} \cup Calling

WorldInv ==
  /\ IssueRecord(issue) /\ clock \in Nat /\ issue.at <= clock
  /\ IsSequence(comments)
  /\ prs = [p \in PRs |-> prs[p]] /\ \A p \in PRs : PullRecord(prs[p])
  /\ activation \in {"enabled", "disabled"}
  /\ applied \in [Dispatches -> Nat] /\ unrecorded \in [Dispatches -> Nat]

QueueInv ==
  Enabled => IsSequence(pending) /\ \A k \in DOMAIN pending : KnownEvent(pending[k])

RunInv ==
  /\ run.pc \in Working \cup Aside
  /\ run.pc = "idle" => run = NoRun
  /\ run.pc \in Working => Enabled /\ KnownEvent(run.ev)
  /\ run.pc = "load" => LoadRun(run)
  /\ run.pc \in Decided => DecidedRun(run) /\ Plan(run.plan)
  /\ run.pc = "finalize" => LoadRun(run) \/ DecidedRun(run)
  /\ run.pc \in Calling => ReadinessShape(run)

(* An input a run has read is an earlier one, or it is still the same. *)
HasRead(what) == run.pc \in Decided \/ (run.pc = "load" /\ what \notin run.todo)
StaleIssue == run.issue.at < issue.at
StaleComments == Len(run.comments) < Len(comments)

SnapshotInv ==
  /\ HasRead("issue") =>
       /\ IssueRecord(run.issue)
       /\ run.issue = issue \/ StaleIssue
  /\ HasRead("comments") =>
       /\ IsSequence(run.comments)
       /\ run.comments = comments \/ StaleComments

(* The pair was true at one instant, or one half changed in between and    *)
(* reading that half again will tell.                                      *)
PairInv ==
  /\ run.pc = "load" /\ HasRead("issue") /\ HasRead("comments") =>
       held \/ StaleIssue \/ StaleComments
  /\ run.pc = "reread" =>
       \/ held
       \/ StaleIssue /\ "issue" \in run.todo
       \/ StaleComments /\ "comments" \in run.todo
  /\ run.pc = "write" => held

(* A plan is lawful: along an edge of the table, and done only when a pull *)
(* request was merged.                                                     *)
Merged == \E p \in PRs : prs[p].state = "merged"
Earned(d, cur) == d.to = "done" => Merged /\ cur \in {"review", "done"}
Lawful(d, cur) ==
  d.do = "set" => (d.to = "new" \/ ValidEdge(cur, d.to)) /\ Earned(d, cur)

LawInv == run.pc \in Decided => Lawful(run.plan, run.from)

(* A request under way was not observed when its run began, and nobody     *)
(* else observes it.                                                       *)
Unseen(d) == \A o \in Observed(comments) : o.id # d.id
FreshInv ==
  /\ HasRead("comments") => Observed(run.comments) = Observed(comments)
  /\ run.pc \in Decided /\ run.ev.kind = "dispatch" => Unseen(run.ev.request)

(* Only a request that is observed, or about to be, was applied once more  *)
(* than its observation was lost.                                          *)
Both(count, d, e) == count[d] + (IF d = e THEN 0 ELSE count[e])
Concluding(d) == run.pc = "finalize" /\ run.ev.kind = "dispatch" /\ run.ev.request = d
CountInv ==
  \A d, e \in Dispatches : d.id = e.id =>
    /\ Both(applied, d, e) <= 1 + Both(unrecorded, d, e)
    /\ Unseen(d) /\ ~Concluding(d) /\ ~Concluding(e) =>
         Both(applied, d, e) <= Both(unrecorded, d, e)

IssueInv ==
  WorldInv /\ QueueInv /\ RunInv /\ SnapshotInv /\ PairInv /\ LawInv /\ FreshInv /\ CountInv

-----------------------------------------------------------------------------
(* The rules and the edge table. *)

(* The edges the rules count on, in ALLOWED_LIFECYCLE_EDGES. *)
LEMMA TableHasEdges ==
  /\ <<"new", "triaged">> \in Edges /\ <<"triaged", "ready">> \in Edges
  /\ <<"ready", "inProgress">> \in Edges /\ <<"inProgress", "ready">> \in Edges
  /\ <<"review", "done">> \in Edges /\ <<"prOpen", "inProgress">> \in Edges
  /\ \A s \in Paused : <<s, "ready">> \in Edges /\ <<s, "inProgress">> \in Edges
  /\ \A s \in States \ {"done"}, t \in Paused : s # t => <<s, t>> \in Edges
<1> DEFINE Row(s, ts) == {s} \X ts
           Rows == { Row("new", {"triaged"} \cup Paused),
                     Row("triaged", {"ready", "new"} \cup Paused),
                     Row("ready", {"inProgress", "new"} \cup Paused),
                     Row("inProgress", {"ready", "prOpen", "new"} \cup Paused),
                     Row("prOpen", {"ready", "inProgress", "review", "new"} \cup Paused),
                     Row("review", {"prOpen", "inProgress", "new", "done"} \cup Paused),
                     Row("done", {"new"}) }
<1>1. \A row \in Rows : \A e \in row : e \in Edges
  BY Zenon DEF Edges
<1>2. /\ <<"blocked", "waiting">> \in Edges /\ <<"waiting", "blocked">> \in Edges
      /\ \A s \in Paused, t \in {"new", "triaged", "ready", "inProgress", "prOpen"} :
           <<s, t>> \in Edges
  <2> DEFINE FromRows == UNION Rows
             FromPaused == Paused \X {"new", "triaged", "ready", "inProgress", "prOpen"}
  <2>1. Edges = FromRows \cup {<<"blocked", "waiting">>, <<"waiting", "blocked">>}
                 \cup FromPaused
    BY Zenon DEF Edges
  <2>2. \A s \in Paused, t \in {"new", "triaged", "ready", "inProgress", "prOpen"} :
          <<s, t>> \in FromPaused
    OBVIOUS
  <2> HIDE DEF FromRows, FromPaused
  <2> QED BY <2>1, <2>2
<1>3. \A t \in {"triaged"} \cup Paused : <<"new", t>> \in Edges
  BY <1>1
<1>4. \A t \in {"ready", "new"} \cup Paused : <<"triaged", t>> \in Edges
  BY <1>1
<1>5. \A t \in {"inProgress", "new"} \cup Paused : <<"ready", t>> \in Edges
  BY <1>1
<1>6. \A t \in {"ready", "prOpen", "new"} \cup Paused : <<"inProgress", t>> \in Edges
  BY <1>1
<1>7. \A t \in {"ready", "inProgress", "review", "new"} \cup Paused :
        <<"prOpen", t>> \in Edges
  BY <1>1
<1>8. \A t \in {"prOpen", "inProgress", "new", "done"} \cup Paused :
        <<"review", t>> \in Edges
  BY <1>1
<1>9. \A s \in States \ {"done"}, t \in Paused : s # t => <<s, t>> \in Edges
  <2> HIDE DEF Row, Rows
  <2> QED BY <1>2, <1>3, <1>4, <1>5, <1>6, <1>7, <1>8 DEF States, Paused
<1> QED
  BY <1>2, <1>3, <1>4, <1>5, <1>6, <1>7, <1>8, <1>9 DEF Paused

(* What a rule may answer. *)
Answer(d, cur) == d \in {Fail, Ignore, Nothing} \/ (Plan(d) /\ Lawful(d, cur))

LEMMA PutAnswers ==
  ASSUME NEW cur, NEW s, s = "new" \/ ValidEdge(cur, s),
         s = "done" => Merged /\ cur \in {"review", "done"}
  PROVE  Answer(Put(s), cur)
BY DEF Answer, Put, Plan, Lawful, Earned

LEMMA RefusalsAnswer == \A cur : Answer(Fail, cur) /\ Answer(Ignore, cur) /\ Answer(Nothing, cur)
BY DEF Answer

(* validateTransitionRequest admits only requests along an edge. *)
LEMMA RequestsFollowEdges ==
  ASSUME NEW cur, NEW r, NEW role, RequestAllowed(cur, r, role)
  PROVE  Answer(Put(r.target), cur)
<1>1. cur = r.source /\ <<cur, r.target>> \in PermittedRequests
  BY DEF RequestAllowed
<1>2. <<cur, r.target>> \in Edges
  BY <1>1, TableHasEdges DEF PermittedRequests, Paused
<1>3. r.target # "done"
  BY <1>1 DEF PermittedRequests, Paused
<1> QED
  BY <1>2, <1>3, PutAnswers DEF ValidEdge

LEMMA ClaimsAnswer ==
  ASSUME NEW ev, NEW has, NEW cur, NEW current
  PROVE  Answer(ClaimEvent(ev, has, cur, current), cur)
<1>1. Answer(EvaluateResume(current), cur) \/ cur \notin Paused
  BY PutAnswers, TableHasEdges DEF EvaluateResume, ValidEdge
<1>2. Answer(EvaluateClaimPrecondition(cur, current, has.claim), cur)
  BY PutAnswers, RefusalsAnswer, TableHasEdges DEF EvaluateClaimPrecondition, ValidEdge
<1>3. Answer(EvaluateClaimRelease(cur, current, has.release, has.otherOpen), cur)
  BY PutAnswers, RefusalsAnswer, TableHasEdges DEF EvaluateClaimRelease, ValidEdge
<1> QED
  BY <1>1, <1>2, <1>3, RefusalsAnswer, Zenon DEF ClaimEvent

(* A completed closure names done only beside a final delivery. *)
LEMMA ClosuresAnswer ==
  ASSUME NEW i, NEW has, NEW cur,
         has.completed => Merged /\ cur \in {"review", "done"}
  PROVE  Answer(Closure(i, has), cur)
<1>1. i.reason = "completed" /\ has.completed => Answer(Put("done"), cur)
  BY PutAnswers, TableHasEdges DEF ValidEdge
<1>2. Answer([do |-> "remove", labels |-> {}], cur)
  BY DEF Answer, Plan, Lawful
<1> QED
  BY <1>1, <1>2, RefusalsAnswer, Zenon DEF Closure, EvaluateClosure

LEMMA PullRequestsAnswer ==
  ASSUME NEW ev, NEW has, NEW cur, NEW current,
         has.merged.validated => Merged
  PROVE  Answer(PullRequestEvent(ev, has, cur, current), cur)
<1>1. Answer(EvaluateMerged(cur, current, has.merged), cur)
  <2>1. has.merged.validated /\ cur \in {"review", "done"} => Answer(Put("done"), cur)
    BY PutAnswers, TableHasEdges DEF ValidEdge
  <2>2. has.merged.validated /\ cur = "review" =>
          Answer([do |-> "set", to |-> "done", close |-> TRUE], cur)
    BY TableHasEdges DEF Answer, Plan, Lawful, ValidEdge, Earned
  <2>3. cur \in Tracked /\ cur # "review" => Answer(Put("inProgress"), cur)
    BY PutAnswers, TableHasEdges DEF ValidEdge, Tracked
  <2> QED
    BY <2>1, <2>2, <2>3, RefusalsAnswer DEF EvaluateMerged
<1>2. Answer(EvaluateUnmerged(cur, current, has.otherOpen, has.claim), cur)
  BY PutAnswers, RefusalsAnswer DEF EvaluateUnmerged
<1>3. Answer(EvaluateOpened(cur, current), cur)
  BY PutAnswers, RefusalsAnswer DEF EvaluateOpened
<1>4. PICK result :
        /\ Answer(result, cur)
        /\ PullRequestEvent(ev, has, cur, current) \in {result, Fail, Ignore}
  <2> DEFINE result == CASE ev.kind = "prMerged" -> EvaluateMerged(cur, current, has.merged)
                         [] ev.kind = "prClosed" ->
                              EvaluateUnmerged(cur, current, has.otherOpen, has.claim)
                         [] OTHER -> EvaluateOpened(cur, current)
  <2>1. Answer(result, cur)
    BY <1>1, <1>2, <1>3, Zenon
  <2>2. PullRequestEvent(ev, has, cur, current) \in {result, Fail, Ignore}
    BY Zenon DEF PullRequestEvent
  <2> HIDE DEF result
  <2> QED BY <2>1, <2>2
<1> QED
  BY <1>4, RefusalsAnswer

LEMMA LabelsAnswer ==
  ASSUME NEW ev, NEW i, NEW cur, NEW current
  PROVE  Answer(LabelEvent(ev, i, cur, current), cur)
<1>1. Answer(RawLabel(ev, i), cur)
  <2> DEFINE to == IF Cardinality(i.statuses \ {ev.label}) = 1
                   THEN CHOOSE s \in i.statuses \ {ev.label} : TRUE ELSE "new"
  <2>1. RawLabel(ev, i) \in {Ignore, [do |-> "repair", labels |-> {ev.label}, to |-> to]}
    BY DEF RawLabel
  <2> HIDE DEF to
  <2>2. Answer([do |-> "repair", labels |-> {ev.label}, to |-> to], cur)
    BY DEF Answer, Plan, Lawful
  <2> QED BY <2>1, <2>2, RefusalsAnswer
<1> QED
  BY <1>1, RequestsFollowEdges, RefusalsAnswer DEF LabelEvent

(* What a run derives from the provider stands on a merged pull request.   *)
LEMMA EvidenceIsReal ==
  ASSUME NEW ev, KnownEvent(ev), NEW i, NEW cur \in CurrentStates(ev, i)
  PROVE  /\ IsPullRequest(ev) => (Evidence(ev, i).merged.validated => Merged)
         /\ ev.kind = "closed" =>
              (Evidence(ev, i).completed => Merged /\ cur \in {"review", "done"})
<1>1. ASSUME IsPullRequest(ev), Evidence(ev, i).merged.validated PROVE Merged
  <2>1. ev.kind = "prMerged"
    BY <1>1 DEF Evidence
  <2>2. prs[ev.pr].state = "merged"
    BY <1>1, <2>1 DEF Evidence, MergedEvidence
  <2> QED BY <1>1, <2>2 DEF Merged, KnownEvent
<1>2. ASSUME ev.kind = "closed", Evidence(ev, i).completed
      PROVE  Merged /\ cur \in {"review", "done"}
  <2>1. FinalDelivery(i)
    BY <1>2 DEF Evidence
  <2>2. i.statuses = {"review"} \/ i.statuses = {"done"}
    BY <2>1 DEF FinalDelivery, Sole
  <2>3. cur \in {"review", "done"}
    BY <1>2, <2>2 DEF CurrentStates
  <2> QED BY <2>1, <2>3 DEF FinalDelivery, Merged
<1> QED BY <1>1, <1>2

(* Every decision is lawful, and a request seen before is refused. *)
LEMMA DecisionsAnswer ==
  ASSUME NEW ev, KnownEvent(ev), NEW i, NEW cs, NEW inv, NEW cur \in CurrentStates(ev, i)
  PROVE  /\ Answer(Decision(ev, i, cs, inv, cur), cur)
         /\ ev.kind = "dispatch" /\ Replayed(cs, ev.request)
              => Decision(ev, i, cs, inv, cur) = Fail
<1>1. Answer(Desired(ev, i, cs, cur), cur)
  <2> DEFINE current == Current(ev, i, cs)
             has == Evidence(ev, i)
  <2>1. IsPullRequest(ev) => Answer(PullRequestEvent(ev, has, cur, current), cur)
    BY EvidenceIsReal, PullRequestsAnswer
  <2>2. ev.kind = "closed" => Answer(Closure(i, has), cur)
    BY EvidenceIsReal, ClosuresAnswer
  <2>3. Answer(ClaimEvent(ev, has, cur, current), cur)
    BY ClaimsAnswer
  <2>4. Answer(LabelEvent(ev, i, cur, current), cur)
    BY LabelsAnswer
  <2>5. Answer(Put("new"), cur)
    BY PutAnswers
  <2> HIDE DEF has, current
  <2> QED
    BY <2>1, <2>2, <2>3, <2>4, <2>5, RefusalsAnswer, Zenon DEF Desired, has, current
<1>2. Answer(Decision(ev, i, cs, inv, cur), cur)
  BY <1>1, RefusalsAnswer, Zenon DEF Decision
<1>3. ASSUME ev.kind = "dispatch", Replayed(cs, ev.request)
      PROVE  Decision(ev, i, cs, inv, cur) = Fail
  <2>1. ~IsPullRequest(ev)
    BY <1>3 DEF IsPullRequest
  <2> QED BY <1>3, <2>1, Zenon DEF Decision
<1> QED BY <1>2, <1>3

-----------------------------------------------------------------------------
(* Sequences of events and comments. *)

LEMMA SequenceGrows ==
  ASSUME NEW s, IsSequence(s), NEW x
  PROVE  /\ IsSequence(Append(s, x)) /\ Len(Append(s, x)) = Len(s) + 1
         /\ DOMAIN Append(s, x) = DOMAIN s \cup {Len(s) + 1}
         /\ Append(s, x)[Len(s) + 1] = x
         /\ \A k \in DOMAIN s : Append(s, x)[k] = s[k]
<1> DEFINE S == {s[k] : k \in 1 .. Len(s)} \cup {x}
           t == Append(s, x)
<1>1. s \in [1 .. Len(s) -> S] /\ Len(s) \in Nat /\ x \in S
  BY DEF IsSequence
<1> HIDE DEF S
<1>2. s \in Seq(S)
  BY <1>1
<1>3. /\ t \in Seq(S) /\ Len(t) = Len(s) + 1 /\ t[Len(s) + 1] = x
      /\ \A k \in 1 .. Len(s) : t[k] = s[k]
  BY <1>1, <1>2
<1> HIDE DEF t
<1>4. DOMAIN s = 1 .. Len(s) /\ DOMAIN t = 1 .. Len(t) /\ t = [k \in 1 .. Len(t) |-> t[k]]
  BY <1>1, <1>2, <1>3
<1> QED
  BY <1>1, <1>3, <1>4 DEF IsSequence, t

(* Taking an event out of the queue adds none. *)
LEMMA TakingKeeps ==
  ASSUME NEW s, IsSequence(s), NEW n \in DOMAIN s
  PROVE  /\ IsSequence(RemoveAt(s, n))
         /\ \A k \in DOMAIN RemoveAt(s, n) : \E j \in DOMAIN s : RemoveAt(s, n)[k] = s[j]
<1> DEFINE S == {s[k] : k \in 1 .. Len(s)}
           t == RemoveAt(s, n)
<1>1. s \in [1 .. Len(s) -> S] /\ Len(s) \in Nat /\ n \in 1 .. Len(s)
  BY DEF IsSequence
<1>a. \A x \in S : \E j \in DOMAIN s : x = s[j]
  BY <1>1
<1> HIDE DEF S
<1>2. s \in Seq(S)
  BY <1>1
<1>3. SubSeq(s, 1, n - 1) \in Seq(S) /\ SubSeq(s, n + 1, Len(s)) \in Seq(S)
  <2>1. \A k \in 1 .. (n - 1) : s[k] \in S
    BY <1>1
  <2>2. \A k \in (n + 1) .. Len(s) : s[k] \in S
    BY <1>1
  <2> QED BY <1>1, <1>2, <2>1, <2>2, SubSeqProperties
<1>4. t \in Seq(S)
  BY <1>3, ConcatProperties DEF RemoveAt
<1> HIDE DEF t
<1>5. DOMAIN t = 1 .. Len(t) /\ t = [k \in 1 .. Len(t) |-> t[k]] /\ Len(t) \in Nat
      /\ \A k \in DOMAIN t : t[k] \in S
  BY <1>4
<1> QED
  BY <1>5, <1>a DEF IsSequence, t

-----------------------------------------------------------------------------
(* What people do beside a run. *)

IssueMoves ==
  /\ IssueRecord(issue') /\ clock' \in Nat /\ issue'.at <= clock'
  /\ issue' = issue \/ issue.at < issue'.at
CommentsGrow ==
  \/ comments' = comments
  \/ \E c : comments' = Append(comments, c) /\ c.kind # "observation"
PullsMove ==
  /\ prs' = [p \in PRs |-> prs'[p]] /\ \A p \in PRs : PullRecord(prs'[p])
  /\ \A p \in PRs : prs[p].state = "merged" => prs'[p].state = "merged"
QueueGrows ==
  Enabled => \/ pending' = pending
             \/ \E ev : KnownEvent(ev) /\ pending' = Append(pending, ev)
Others ==
  /\ IssueMoves /\ CommentsGrow /\ PullsMove /\ QueueGrows
  /\ UNCHANGED <<activation, applied, unrecorded, run>>

LEMMA StampedMoves ==
  ASSUME NEW i, WorldInv, IssueRecord(i), issue' = Stamped(i), Tick
  PROVE  IssueMoves
<1>1. /\ i = [statuses |-> i.statuses, foreign |-> i.foreign, open |-> i.open,
              reason |-> i.reason, body |-> i.body, at |-> i.at, assignees |-> i.assignees]
      /\ clock \in Nat /\ clock' = clock + 1 /\ issue.at \in Nat /\ issue.at <= clock
  BY DEF WorldInv, IssueRecord, Tick
<1>2. issue' = [statuses |-> i.statuses, foreign |-> i.foreign, open |-> i.open,
                reason |-> i.reason, body |-> i.body, at |-> clock + 1,
                assignees |-> i.assignees]
  BY <1>1 DEF Stamped
<1>3. IssueRecord(issue')
  BY <1>1, <1>2 DEF IssueRecord
<1>4. issue'.at = clock + 1
  BY <1>2
<1> QED
  BY <1>1, <1>3, <1>4 DEF IssueMoves

LEMMA PullsStay == ASSUME WorldInv, UNCHANGED prs PROVE PullsMove
BY DEF WorldInv, PullsMove, PullRecord

LEMMA IssueStays == ASSUME WorldInv, UNCHANGED <<issue, clock>> PROVE IssueMoves
BY DEF WorldInv, IssueMoves, IssueRecord

LEMMA GestureMoves ==
  ASSUME WorldInv, NEW i, IssueRecord(i), NEW ev, KnownEvent(ev), Gesture(i, ev)
  PROVE  Others
<1>1. IssueMoves
  BY StampedMoves DEF Gesture
<1>2. QueueGrows
  BY DEF Gesture, Deliver, QueueGrows, Enabled
<1>3. PullsMove
  BY PullsStay DEF Gesture
<1> QED
  BY <1>1, <1>2, <1>3 DEF Gesture, History, Others, CommentsGrow

LEMMA GesturesMove ==
  ASSUME WorldInv,
         \/ AddStatus \/ DropStatus \/ AddForeign \/ EditBody
         \/ Assign \/ Unassign \/ CloseIssue \/ Reopen
  PROVE  Others
<1>1. /\ issue = [statuses |-> issue.statuses, foreign |-> issue.foreign,
                  open |-> issue.open, reason |-> issue.reason, body |-> issue.body,
                  at |-> issue.at, assignees |-> issue.assignees]
      /\ issue.at \in Nat
  BY DEF WorldInv, IssueRecord
<1>2. ASSUME NEW i, NEW ev, Gesture(i, ev),
             ev.kind \in {"labeled", "unlabeled", "edited", "assigned", "unassigned",
                          "closed", "reopened"},
             \E s, f, o, r, b, w :
               i = [statuses |-> s, foreign |-> f, open |-> o, reason |-> r, body |-> b,
                    at |-> issue.at, assignees |-> w]
      PROVE  Others
  <2>1. IssueRecord(i)
    BY <1>1, <1>2 DEF IssueRecord
  <2>2. KnownEvent(ev)
    BY <1>2 DEF KnownEvent, IsPullRequest
  <2> QED BY <1>2, <2>1, <2>2, GestureMoves
<1>a. CASE AddStatus
  <2>1. PICK a \in Actors, s \in Gestures \ issue.statuses :
          Gesture([issue EXCEPT !.statuses = @ \cup {s}],
                  [kind |-> "labeled", label |-> s, sender |-> a])
    BY <1>a DEF AddStatus
  <2>2. [issue EXCEPT !.statuses = @ \cup {s}] =
          [statuses |-> issue.statuses \cup {s}, foreign |-> issue.foreign,
           open |-> issue.open, reason |-> issue.reason, body |-> issue.body,
           at |-> issue.at, assignees |-> issue.assignees]
    BY <1>1
  <2> QED BY <1>2, <2>1, <2>2
<1>b. CASE DropStatus
  <2>1. PICK s \in issue.statuses :
          Gesture([issue EXCEPT !.statuses = @ \ {s}], [kind |-> "unlabeled", label |-> s])
    BY <1>b DEF DropStatus
  <2>2. [issue EXCEPT !.statuses = @ \ {s}] =
          [statuses |-> issue.statuses \ {s}, foreign |-> issue.foreign,
           open |-> issue.open, reason |-> issue.reason, body |-> issue.body,
           at |-> issue.at, assignees |-> issue.assignees]
    BY <1>1
  <2> QED BY <1>2, <2>1, <2>2
<1>c. CASE AddForeign
  <2>1. PICK l \in Foreign \ issue.foreign :
          Gesture([issue EXCEPT !.foreign = @ \cup {l}], [kind |-> "labeled", label |-> l])
    BY <1>c DEF AddForeign
  <2>2. [issue EXCEPT !.foreign = @ \cup {l}] =
          [statuses |-> issue.statuses, foreign |-> issue.foreign \cup {l},
           open |-> issue.open, reason |-> issue.reason, body |-> issue.body,
           at |-> issue.at, assignees |-> issue.assignees]
    BY <1>1
  <2> QED BY <1>2, <2>1, <2>2
<1>d. CASE EditBody
  <2>1. PICK b \in Bodies \ {issue.body} :
          Gesture([issue EXCEPT !.body = b], [kind |-> "edited"])
    BY <1>d DEF EditBody
  <2>2. [issue EXCEPT !.body = b] =
          [statuses |-> issue.statuses, foreign |-> issue.foreign,
           open |-> issue.open, reason |-> issue.reason, body |-> b,
           at |-> issue.at, assignees |-> issue.assignees]
    BY <1>1
  <2> QED BY <1>2, <2>1, <2>2
<1>e. CASE Assign
  <2>1. PICK a \in Actors, w \in Actors \ issue.assignees :
          Gesture([issue EXCEPT !.assignees = @ \cup {w}],
                  [kind |-> "assigned", sender |-> a, assignee |-> w])
    BY <1>e DEF Assign
  <2>2. [issue EXCEPT !.assignees = @ \cup {w}] =
          [statuses |-> issue.statuses, foreign |-> issue.foreign,
           open |-> issue.open, reason |-> issue.reason, body |-> issue.body,
           at |-> issue.at, assignees |-> issue.assignees \cup {w}]
    BY <1>1
  <2> QED BY <1>2, <2>1, <2>2
<1>f. CASE Unassign
  <2>1. PICK a \in Actors, w \in issue.assignees :
          Gesture([issue EXCEPT !.assignees = @ \ {w}],
                  [kind |-> "unassigned", sender |-> a, assignee |-> w])
    BY <1>f DEF Unassign
  <2>2. [issue EXCEPT !.assignees = @ \ {w}] =
          [statuses |-> issue.statuses, foreign |-> issue.foreign,
           open |-> issue.open, reason |-> issue.reason, body |-> issue.body,
           at |-> issue.at, assignees |-> issue.assignees \ {w}]
    BY <1>1
  <2> QED BY <1>2, <2>1, <2>2
<1>3. ASSUME NEW o, NEW r
      PROVE  [issue EXCEPT !.open = o, !.reason = r] =
               [statuses |-> issue.statuses, foreign |-> issue.foreign,
                open |-> o, reason |-> r, body |-> issue.body,
                at |-> issue.at, assignees |-> issue.assignees]
  <2> DEFINE j == [issue EXCEPT !.open = o]
  <2>1. j = [statuses |-> issue.statuses, foreign |-> issue.foreign,
             open |-> o, reason |-> issue.reason, body |-> issue.body,
             at |-> issue.at, assignees |-> issue.assignees]
    BY <1>1
  <2>2. [issue EXCEPT !.open = o, !.reason = r] = [j EXCEPT !.reason = r]
    OBVIOUS
  <2> HIDE DEF j
  <2> QED BY <2>1, <2>2
<1>g. CASE CloseIssue
  <2>1. PICK r \in {"completed", "not_planned"} :
          Gesture([issue EXCEPT !.open = FALSE, !.reason = r], [kind |-> "closed"])
    BY <1>g DEF CloseIssue
  <2>2. [issue EXCEPT !.open = FALSE, !.reason = r] =
          [statuses |-> issue.statuses, foreign |-> issue.foreign,
           open |-> FALSE, reason |-> r, body |-> issue.body,
           at |-> issue.at, assignees |-> issue.assignees]
    BY <1>3, Zenon
  <2> QED BY <1>2, <2>1, <2>2
<1>h. CASE Reopen
  <2>1. Gesture([issue EXCEPT !.open = TRUE, !.reason = "none"], [kind |-> "reopened"])
    BY <1>h DEF Reopen
  <2>2. [issue EXCEPT !.open = TRUE, !.reason = "none"] =
          [statuses |-> issue.statuses, foreign |-> issue.foreign,
           open |-> TRUE, reason |-> "none", body |-> issue.body,
           at |-> issue.at, assignees |-> issue.assignees]
    BY <1>3, Zenon
  <2> QED BY <1>2, <2>1, <2>2
<1> QED
  BY <1>a, <1>b, <1>c, <1>d, <1>e, <1>f, <1>g, <1>h

LEMMA PullRequestMoves ==
  ASSUME WorldInv, NEW p \in PRs, NEW new, PullRecord(new),
         prs[p].state = "merged" => new.state = "merged",
         prs' = [prs EXCEPT ![p] = [new EXCEPT !.at = clock + 1]]
  PROVE  PullsMove
<1> DEFINE q == [new EXCEPT !.at = clock + 1]
<1>1. PullRecord(q) /\ q.state = new.state
  BY DEF PullRecord
<1> HIDE DEF q
<1>2. prs' = [prs EXCEPT ![p] = q] /\ prs = [r \in PRs |-> prs[r]]
  BY DEF q, WorldInv
<1>3. \A r \in PRs : prs'[r] = IF r = p THEN q ELSE prs[r]
  BY <1>2
<1>4. prs' = [r \in PRs |-> prs'[r]]
  BY <1>2
<1> QED BY <1>1, <1>3, <1>4 DEF PullsMove, WorldInv

LEMMA PullRequestStepMoves ==
  ASSUME WorldInv, NEW p \in PRs, NEW new, PullRecord(new), prs[p].state # "merged",
         NEW kind \in {"prOpened", "prSynchronize", "prDraft", "prMerged", "prClosed"},
         PullRequestStep(p, new, kind)
  PROVE  Others
<1>1. PICK a \in Actors, ok \in {FALSE, Enabled} : LET q == [new EXCEPT !.at = clock + 1] IN
        /\ prs' = [prs EXCEPT ![p] = q]
        /\ Deliver([kind |-> kind, pr |-> p, snapshot |-> q, sender |-> a,
                    contract |-> ok])
  BY DEF PullRequestStep
<1> DEFINE q == [new EXCEPT !.at = clock + 1]
           ev == [kind |-> kind, pr |-> p, snapshot |-> q, sender |-> a, contract |-> ok]
<1>3. PullsMove
  BY <1>1, PullRequestMoves
<1>4. KnownEvent(ev)
  <2>1. ev.kind = kind /\ ev.pr = p OBVIOUS
  <2> HIDE DEF ev
  <2> QED BY <2>1 DEF KnownEvent
<1>5. QueueGrows
  <2>1. Deliver(ev)
    BY <1>1
  <2> HIDE DEF ev
  <2> QED BY <1>4, <2>1 DEF Deliver, QueueGrows, Enabled
<1>6. IssueMoves
  BY DEF WorldInv, IssueRecord, IssueMoves, PullRequestStep, Tick
<1> QED
  BY <1>3, <1>5, <1>6 DEF PullRequestStep, History, Others, CommentsGrow

(* What a step of a pull request makes of its record. *)
LEMMA PullRecords ==
  ASSUME WorldInv, NEW p \in PRs
  PROVE  /\ PullRecord(prs[p])
         /\ \A s : /\ PullRecord([prs[p] EXCEPT !.state = s])
                  /\ [prs[p] EXCEPT !.state = s].state = s
                  /\ [prs[p] EXCEPT !.state = s].head = prs[p].head
         /\ \A h : /\ PullRecord([prs[p] EXCEPT !.head = h])
                  /\ [prs[p] EXCEPT !.head = h].state = prs[p].state
                  /\ [prs[p] EXCEPT !.head = h].head = h
<1>1. PullRecord(prs[p])
  BY DEF WorldInv
<1>2. ASSUME NEW s
      PROVE  /\ PullRecord([prs[p] EXCEPT !.state = s])
             /\ [prs[p] EXCEPT !.state = s].state = s
             /\ [prs[p] EXCEPT !.state = s].head = prs[p].head
  BY <1>1 DEF PullRecord
<1>3. ASSUME NEW h
      PROVE  /\ PullRecord([prs[p] EXCEPT !.head = h])
             /\ [prs[p] EXCEPT !.head = h].state = prs[p].state
             /\ [prs[p] EXCEPT !.head = h].head = h
  BY <1>1 DEF PullRecord
<1> QED BY <1>1, <1>2, <1>3

LEMMA PullRequestsMove ==
  ASSUME WorldInv,
         \/ OpenPullRequest \/ PushHead \/ ConvertToDraft \/ MergePullRequest
         \/ ClosePullRequest \/ EditPullRequest
  PROVE  Others
<1>a. CASE OpenPullRequest
  <2>1. PICK p \in PRs, h \in Heads :
          /\ prs[p].state \in {"none", "closed"}
          /\ PullRequestStep(p, [state |-> "open", head |-> h, at |-> clock + 1], "prOpened")
    BY <1>a DEF OpenPullRequest
  <2> DEFINE new == [state |-> "open", head |-> h, at |-> clock + 1]
  <2>2. PullRecord(new)
    BY DEF PullRecord
  <2>3. PullRequestStep(p, new, "prOpened")
    BY <2>1
  <2> HIDE DEF new
  <2> QED BY <2>1, <2>2, <2>3, PullRequestStepMoves
<1>b. CASE PushHead
  <2>1. PICK p \in PRs : \E h \in Heads \ {prs[p].head} :
          /\ prs[p].state = "open"
          /\ PullRequestStep(p, [prs[p] EXCEPT !.head = h], "prSynchronize")
    BY <1>b DEF PushHead
  <2> QED BY <2>1, PullRecords, PullRequestStepMoves
<1>c. CASE ConvertToDraft
  BY <1>c, PullRecords, PullRequestStepMoves DEF ConvertToDraft
<1>d. CASE MergePullRequest
  <2>1. PICK p \in PRs :
          /\ prs[p].state = "open"
          /\ PullRequestStep(p, [prs[p] EXCEPT !.state = "merged"], "prMerged")
    BY <1>d DEF MergePullRequest
  <2> QED BY <2>1, PullRecords, PullRequestStepMoves
<1>e. CASE ClosePullRequest
  <2>1. PICK p \in PRs :
          /\ prs[p].state = "open"
          /\ PullRequestStep(p, [prs[p] EXCEPT !.state = "closed"], "prClosed")
    BY <1>e DEF ClosePullRequest
  <2> QED BY <2>1, PullRecords, PullRequestStepMoves
<1>f. CASE EditPullRequest
  <2>1. PICK p \in PRs : prs' = [prs EXCEPT ![p] = [prs[p] EXCEPT !.at = clock + 1]]
    BY <1>f DEF EditPullRequest
  <2>2. /\ Tick /\ UNCHANGED <<issue, comments, pending, run>>
        /\ UNCHANGED <<activation, applied, unrecorded>>
    BY <1>f DEF EditPullRequest, History
  <2>3. PullsMove
    BY <2>1, PullRecords, PullRequestMoves
  <2>4. IssueMoves
    BY <2>2 DEF WorldInv, IssueRecord, IssueMoves, Tick
  <2> QED BY <2>2, <2>3, <2>4 DEF Others, QueueGrows, CommentsGrow
<1> QED
  BY <1>a, <1>b, <1>c, <1>d, <1>e, <1>f

(* A contract check runs beside the runs of the issue. *)
LEMMA BesideMoves == ASSUME WorldInv, Beside PROVE Others
BY IssueStays, PullsStay DEF Beside, Others, QueueGrows, CommentsGrow

LEMMA ChecksMove == ASSUME WorldInv, ContractCheck \/ CheckDies PROVE Others
<1>1. Beside
  BY DEF ContractCheck, CheckDies, TakeCheck, CheckReadsIssue, CheckReadsComments,
     CheckReadsPullRequest, CheckReads, PublishContract, PublishIssueContract,
     PublishFailure, Publish
<1> QED BY <1>1, BesideMoves

LEMMA PeopleMove == ASSUME WorldInv, People PROVE Others
<1>a. CASE Dispatch
  <2>1. PICK d \in Dispatches : Enabled /\ Deliver([kind |-> "dispatch", request |-> d])
    BY <1>a DEF Dispatch
  <2>2. KnownEvent([kind |-> "dispatch", request |-> d])
    BY DEF KnownEvent, IsPullRequest
  <2>3. QueueGrows
    BY <2>1, <2>2 DEF QueueGrows, Deliver
  <2>4. /\ UNCHANGED <<issue, comments, inventory, prs, run, clock>>
        /\ UNCHANGED <<activation, applied, unrecorded>>
    BY <1>a DEF Dispatch, History
  <2>5. IssueMoves /\ PullsMove
    BY <2>4, IssueStays, PullsStay
  <2> QED BY <2>3, <2>4, <2>5 DEF Others, CommentsGrow
<1>b. CASE Comment
  <2>1. PICK forged \in BOOLEAN :
          comments' = IF forged THEN Append(comments, [kind |-> "forged"]) ELSE comments
    BY <1>b DEF Comment
  <2>2. CommentsGrow
    <3>1. [kind |-> "forged"].kind # "observation" OBVIOUS
    <3> QED BY <2>1, <3>1 DEF CommentsGrow
  <2>3. issue' = Stamped(issue) /\ Tick /\ UNCHANGED <<prs, pending, run>> /\ UNCHANGED History
    BY <1>b DEF Comment
  <2>4. IssueMoves
    BY <2>3, StampedMoves DEF WorldInv
  <2>5. PullsMove
    BY <2>3, PullsStay
  <2> QED BY <2>2, <2>3, <2>4, <2>5 DEF Others, QueueGrows, History
<1>c. CASE ChangeInventory
  <2>1. /\ UNCHANGED <<issue, comments, prs, pending, run, clock>>
        /\ UNCHANGED <<activation, applied, unrecorded>>
    BY <1>c DEF ChangeInventory, History
  <2>2. IssueMoves /\ PullsMove
    BY <2>1, IssueStays, PullsStay
  <2> QED BY <2>1, <2>2 DEF Others, QueueGrows, CommentsGrow
<1> QED
  BY <1>a, <1>b, <1>c, GesturesMove, PullRequestsMove DEF People

-----------------------------------------------------------------------------
(* What a step of anybody leaves true of what a run has read. *)

LEMMA ObservedGrows ==
  ASSUME NEW cs, IsSequence(cs), NEW c
  PROVE  Observed(Append(cs, c)) =
           Observed(cs) \cup (IF c.kind = "observation" THEN {c.request} ELSE {})
<1> DEFINE t == Append(cs, c)
<1>1. /\ DOMAIN t = DOMAIN cs \cup {Len(cs) + 1} /\ t[Len(cs) + 1] = c
      /\ \A k \in DOMAIN cs : t[k] = cs[k]
  BY SequenceGrows
<1> HIDE DEF t
<1>2. \A r : r \in Observed(t) <=>
        r \in Observed(cs) \/ (c.kind = "observation" /\ r = c.request)
  <2>1. \A r : r \in Observed(t) <=>
          \E k \in DOMAIN t : t[k].kind = "observation" /\ r = t[k].request
    BY DEF Observed
  <2>2. \A r : r \in Observed(cs) <=>
          \E k \in DOMAIN cs : cs[k].kind = "observation" /\ r = cs[k].request
    BY DEF Observed
  <2> QED BY <1>1, <2>1, <2>2
<1> QED
  BY <1>2 DEF t

LEMMA NothingMoreObserved ==
  ASSUME WorldInv, CommentsGrow
  PROVE  /\ Observed(comments') = Observed(comments)
         /\ IsSequence(comments')
         /\ comments' = comments \/ Len(comments) < Len(comments')
<1>1. IsSequence(comments)
  BY DEF WorldInv
<1>2. CASE comments' = comments
  BY <1>1, <1>2
<1>3. CASE \E c : comments' = Append(comments, c) /\ c.kind # "observation"
  <2>1. PICK c : comments' = Append(comments, c) /\ c.kind # "observation"
    BY <1>3
  <2>2. Observed(comments') = Observed(comments)
    BY <1>1, <2>1, ObservedGrows
  <2>3. IsSequence(comments') /\ Len(comments') = Len(comments) + 1
    BY <1>1, <2>1, SequenceGrows
  <2> QED BY <1>1, <2>2, <2>3 DEF IsSequence
<1> QED
  BY <1>2, <1>3 DEF CommentsGrow

LEMMA InputsAge ==
  ASSUME WorldInv, SnapshotInv, IssueMoves, CommentsGrow
  PROVE  /\ HasRead("issue") =>
              /\ IssueRecord(run.issue)
              /\ run.issue = issue' \/ run.issue.at < issue'.at
              /\ StaleIssue => run.issue.at < issue'.at
         /\ HasRead("comments") =>
              /\ IsSequence(run.comments)
              /\ run.comments = comments' \/ Len(run.comments) < Len(comments')
              /\ StaleComments => Len(run.comments) < Len(comments')
<1>1. ASSUME HasRead("issue")
      PROVE  /\ IssueRecord(run.issue)
             /\ run.issue = issue' \/ run.issue.at < issue'.at
             /\ StaleIssue => run.issue.at < issue'.at
  <2>1. IssueRecord(run.issue) /\ (run.issue = issue \/ run.issue.at < issue.at)
    BY <1>1 DEF SnapshotInv, StaleIssue
  <2>2. run.issue.at \in Nat /\ issue.at \in Nat /\ issue'.at \in Nat
    BY <2>1 DEF IssueRecord, WorldInv, IssueMoves
  <2>3. issue' = issue \/ issue.at < issue'.at
    BY DEF IssueMoves
  <2> QED BY <2>1, <2>2, <2>3 DEF StaleIssue
<1>2. ASSUME HasRead("comments")
      PROVE  /\ IsSequence(run.comments)
             /\ run.comments = comments' \/ Len(run.comments) < Len(comments')
             /\ StaleComments => Len(run.comments) < Len(comments')
  <2>1. IsSequence(run.comments) /\ (run.comments = comments \/ Len(run.comments) < Len(comments))
    BY <1>2 DEF SnapshotInv, StaleComments
  <2>2. IsSequence(comments') /\ (comments' = comments \/ Len(comments) < Len(comments'))
    BY NothingMoreObserved
  <2>3. Len(run.comments) \in Nat /\ Len(comments) \in Nat /\ Len(comments') \in Nat
    BY <2>1, <2>2 DEF IsSequence, WorldInv
  <2> QED BY <2>1, <2>2, <2>3 DEF StaleComments
<1> QED
  BY <1>1, <1>2

LEMMA WorldKeeps ==
  ASSUME WorldInv, IssueMoves, CommentsGrow, PullsMove,
         UNCHANGED activation,
         applied' \in [Dispatches -> Nat], unrecorded' \in [Dispatches -> Nat]
  PROVE  WorldInv'
<1>1. IsSequence(comments')
  BY NothingMoreObserved
<1>2. prs' = [p \in PRs |-> prs'[p]] /\ \A p \in PRs : PullRecord(prs'[p])
  BY DEF PullsMove
<1>3. IssueRecord(issue') /\ clock' \in Nat /\ issue'.at <= clock'
  BY DEF IssueMoves
<1> QED
  BY <1>1, <1>2, <1>3 DEF WorldInv

(* As long as no count changes and no run concludes, the counts stay even. *)
LEMMA CountsKeep ==
  ASSUME CountInv, UNCHANGED <<applied, unrecorded>>,
         Observed(comments) \subseteq Observed(comments'),
         run.pc # "finalize" \/ run' = run
  PROVE  CountInv'
<1>1. \A d : Unseen(d)' => Unseen(d)
  BY DEF Unseen
<1>2. \A d, e : /\ Both(applied, d, e)' = Both(applied, d, e)
                /\ Both(unrecorded, d, e)' = Both(unrecorded, d, e)
  BY DEF Both
<1>3. \A d : Concluding(d) => Concluding(d)'
  BY DEF Concluding
<1> SUFFICES ASSUME NEW d \in Dispatches, NEW e \in Dispatches, d.id = e.id
             PROVE  /\ Both(applied, d, e)' <= 1 + Both(unrecorded, d, e)'
                    /\ Unseen(d)' /\ ~Concluding(d)' /\ ~Concluding(e)' =>
                         Both(applied, d, e)' <= Both(unrecorded, d, e)'
  BY DEF CountInv
<1> QED
  BY <1>1, <1>2, <1>3 DEF CountInv

(* A run that has nothing to write says nothing of its inputs. *)
LEMMA NothingRead ==
  ASSUME run'.pc \in Aside \cup {"finalize"}
  PROVE  SnapshotInv' /\ PairInv' /\ LawInv' /\ FreshInv'
BY DEF Aside, Calling, SnapshotInv, PairInv, LawInv, FreshInv, HasRead, Decided

LEMMA OthersKeep ==
  ASSUME IssueInv, Others, held' = Consistent
  PROVE  IssueInv'
<1>0. /\ WorldInv /\ QueueInv /\ RunInv /\ SnapshotInv /\ PairInv
      /\ LawInv /\ FreshInv /\ CountInv
      /\ IssueMoves /\ CommentsGrow /\ PullsMove /\ QueueGrows
      /\ activation' = activation /\ run' = run /\ UNCHANGED <<applied, unrecorded>>
  BY DEF IssueInv, Others
<1>1. WorldInv'
  BY <1>0, WorldKeeps DEF WorldInv
<1>2. QueueInv'
  <2> SUFFICES ASSUME Enabled' PROVE IsSequence(pending') /\
                 \A k \in DOMAIN pending' : KnownEvent(pending'[k])
    BY DEF QueueInv
  <2>1. Enabled /\ IsSequence(pending) /\ \A k \in DOMAIN pending : KnownEvent(pending[k])
    BY <1>0 DEF Enabled, QueueInv
  <2>2. CASE pending' = pending
    BY <2>1, <2>2
  <2>3. CASE \E ev : KnownEvent(ev) /\ pending' = Append(pending, ev)
    BY <2>1, <2>3, SequenceGrows
  <2> QED BY <1>0, <2>1, <2>2, <2>3 DEF QueueGrows
<1>3. RunInv'
  BY <1>0 DEF RunInv, Enabled
<1>4. \A what : HasRead(what)' = HasRead(what)
  BY <1>0 DEF HasRead
<1>5. SnapshotInv'
  BY <1>0, <1>4, InputsAge DEF SnapshotInv, StaleIssue, StaleComments
<1>6. PairInv'
  <2>1. held /\ run.pc \in {"load", "reread", "write"} => held'
    BY <1>0 DEF Consistent
  <2>2. HasRead("issue") /\ StaleIssue => StaleIssue'
    BY <1>0, InputsAge DEF StaleIssue
  <2>3. HasRead("comments") /\ StaleComments => StaleComments'
    BY <1>0, InputsAge DEF StaleComments
  <2>4. run.pc = "reread" => HasRead("issue") /\ HasRead("comments")
    BY DEF HasRead, Decided
  <2> QED BY <1>0, <1>4, <2>1, <2>2, <2>3, <2>4 DEF PairInv
<1>7. LawInv'
  BY <1>0 DEF LawInv, Lawful, Earned, Merged, PullsMove
<1>8. FreshInv'
  BY <1>0, <1>4, NothingMoreObserved DEF FreshInv, Unseen
<1>9. CountInv'
  BY <1>0, CountsKeep, NothingMoreObserved
<1> QED
  BY <1>1, <1>2, <1>3, <1>5, <1>6, <1>7, <1>8, <1>9 DEF IssueInv

-----------------------------------------------------------------------------
(* The steps of a lifecycle run. *)

LEMMA ReadsMove ==
  ASSUME WorldInv, Reads
  PROVE  /\ IssueMoves /\ CommentsGrow /\ PullsMove
         /\ UNCHANGED <<issue, comments, prs, pending, activation, applied, unrecorded>>
BY IssueStays, PullsStay DEF Reads, Provider, CommentsGrow

LEMMA LoadUpdates ==
  ASSUME LoadRun(run), NEW t
  PROVE  /\ \A i : [run EXCEPT !.issue = i, !.todo = t] =
              [pc |-> run.pc, ev |-> run.ev, todo |-> t, issue |-> i,
               comments |-> run.comments, inventory |-> run.inventory]
         /\ \A c : [run EXCEPT !.comments = c, !.todo = t] =
              [pc |-> run.pc, ev |-> run.ev, todo |-> t, issue |-> run.issue,
               comments |-> c, inventory |-> run.inventory]
         /\ \A v : [run EXCEPT !.inventory = v, !.todo = t] =
              [pc |-> run.pc, ev |-> run.ev, todo |-> t, issue |-> run.issue,
               comments |-> run.comments, inventory |-> v]
<1>1. run = [pc |-> run.pc, ev |-> run.ev, todo |-> run.todo, issue |-> run.issue,
             comments |-> run.comments, inventory |-> run.inventory]
  BY DEF LoadRun
<1>2. ASSUME NEW i
      PROVE  [run EXCEPT !.issue = i, !.todo = t] =
               [pc |-> run.pc, ev |-> run.ev, todo |-> t, issue |-> i,
                comments |-> run.comments, inventory |-> run.inventory]
  <2> DEFINE j == [run EXCEPT !.issue = i]
  <2>1. j = [pc |-> run.pc, ev |-> run.ev, todo |-> run.todo, issue |-> i,
             comments |-> run.comments, inventory |-> run.inventory]
    BY <1>1
  <2>2. [run EXCEPT !.issue = i, !.todo = t] = [j EXCEPT !.todo = t]
    OBVIOUS
  <2> HIDE DEF j
  <2> QED BY <2>1, <2>2
<1>3. ASSUME NEW c
      PROVE  [run EXCEPT !.comments = c, !.todo = t] =
               [pc |-> run.pc, ev |-> run.ev, todo |-> t, issue |-> run.issue,
                comments |-> c, inventory |-> run.inventory]
  <2> DEFINE j == [run EXCEPT !.comments = c]
  <2>1. j = [pc |-> run.pc, ev |-> run.ev, todo |-> run.todo, issue |-> run.issue,
             comments |-> c, inventory |-> run.inventory]
    BY <1>1
  <2>2. [run EXCEPT !.comments = c, !.todo = t] = [j EXCEPT !.todo = t]
    OBVIOUS
  <2> HIDE DEF j
  <2> QED BY <2>1, <2>2
<1>4. ASSUME NEW v
      PROVE  [run EXCEPT !.inventory = v, !.todo = t] =
               [pc |-> run.pc, ev |-> run.ev, todo |-> t, issue |-> run.issue,
                comments |-> run.comments, inventory |-> v]
  <2> DEFINE j == [run EXCEPT !.inventory = v]
  <2>1. j = [pc |-> run.pc, ev |-> run.ev, todo |-> run.todo, issue |-> run.issue,
             comments |-> run.comments, inventory |-> v]
    BY <1>1
  <2>2. [run EXCEPT !.inventory = v, !.todo = t] = [j EXCEPT !.todo = t]
    OBVIOUS
  <2> HIDE DEF j
  <2> QED BY <2>1, <2>2
<1> QED
  BY <1>2, <1>3, <1>4

LEMMA DecidedUpdates ==
  ASSUME DecidedRun(run)
  PROVE  /\ \A c : [run EXCEPT !.pc = c] =
              [pc |-> c, ev |-> run.ev, todo |-> run.todo, issue |-> run.issue,
               comments |-> run.comments, inventory |-> run.inventory,
               from |-> run.from, plan |-> run.plan]
         /\ \A t, c : [run EXCEPT !.todo = t, !.pc = c] =
              [pc |-> c, ev |-> run.ev, todo |-> t, issue |-> run.issue,
               comments |-> run.comments, inventory |-> run.inventory,
               from |-> run.from, plan |-> run.plan]
<1>1. run = [pc |-> run.pc, ev |-> run.ev, todo |-> run.todo, issue |-> run.issue,
             comments |-> run.comments, inventory |-> run.inventory,
             from |-> run.from, plan |-> run.plan]
  BY DEF DecidedRun
<1>2. ASSUME NEW t, NEW c
      PROVE  [run EXCEPT !.todo = t, !.pc = c] =
               [pc |-> c, ev |-> run.ev, todo |-> t, issue |-> run.issue,
                comments |-> run.comments, inventory |-> run.inventory,
                from |-> run.from, plan |-> run.plan]
  <2> DEFINE j == [run EXCEPT !.todo = t]
  <2>1. j = [pc |-> run.pc, ev |-> run.ev, todo |-> t, issue |-> run.issue,
             comments |-> run.comments, inventory |-> run.inventory,
             from |-> run.from, plan |-> run.plan]
    BY <1>1
  <2>2. [run EXCEPT !.todo = t, !.pc = c] = [j EXCEPT !.pc = c]
    OBVIOUS
  <2> HIDE DEF j
  <2> QED BY <2>1, <2>2
<1>3. ASSUME NEW c
      PROVE  [run EXCEPT !.pc = c] =
               [pc |-> c, ev |-> run.ev, todo |-> run.todo, issue |-> run.issue,
                comments |-> run.comments, inventory |-> run.inventory,
                from |-> run.from, plan |-> run.plan]
  BY <1>1
<1> QED
  BY <1>2, <1>3

(* A run concludes with the event it took. *)
LEMMA Concludes ==
  ASSUME LoadRun(run) \/ DecidedRun(run), NEW outcome, Conclude(outcome)
  PROVE  /\ run'.pc = "finalize" /\ run'.ev = run.ev
         /\ LoadRun(run') \/ DecidedRun(run')
<1> DEFINE j == [run EXCEPT !.pc = "finalize"]
<1>1. run' = [j EXCEPT !.todo = {outcome}]
  BY DEF Conclude
<1>2. CASE LoadRun(run)
  <2>1. j = [pc |-> "finalize", ev |-> run.ev, todo |-> run.todo, issue |-> run.issue,
             comments |-> run.comments, inventory |-> run.inventory]
    BY <1>2 DEF LoadRun
  <2> HIDE DEF j
  <2>2. run' = [pc |-> "finalize", ev |-> run.ev, todo |-> {outcome}, issue |-> run.issue,
                comments |-> run.comments, inventory |-> run.inventory]
    BY <1>1, <2>1
  <2> QED BY <2>2 DEF LoadRun
<1>3. CASE DecidedRun(run)
  <2>1. j = [pc |-> "finalize", ev |-> run.ev, todo |-> run.todo, issue |-> run.issue,
             comments |-> run.comments, inventory |-> run.inventory,
             from |-> run.from, plan |-> run.plan]
    BY <1>3 DEF DecidedRun
  <2> HIDE DEF j
  <2>2. run' = [pc |-> "finalize", ev |-> run.ev, todo |-> {outcome}, issue |-> run.issue,
                comments |-> run.comments, inventory |-> run.inventory,
                from |-> run.from, plan |-> run.plan]
    BY <1>1, <2>1
  <2> QED BY <2>2 DEF DecidedRun
<1> QED
  BY <1>2, <1>3

(* Concluding leaves every part of the invariant but the counts. *)
LEMMA ConcludingKeeps ==
  ASSUME IssueInv, run.pc \in Working \ {"finalize"}, NEW outcome, Conclude(outcome),
         IssueMoves, CommentsGrow, PullsMove, UNCHANGED <<pending, activation>>,
         applied' \in [Dispatches -> Nat], unrecorded' \in [Dispatches -> Nat],
         CountInv'
  PROVE  IssueInv'
<1>0. WorldInv /\ QueueInv /\ RunInv
  BY DEF IssueInv
<1>1. LoadRun(run) \/ DecidedRun(run)
  BY <1>0 DEF RunInv, Working
<1>2. run'.pc = "finalize" /\ run'.ev = run.ev /\ (LoadRun(run') \/ DecidedRun(run'))
  BY <1>1, Concludes
<1>3. Enabled' /\ KnownEvent(run'.ev)
  BY <1>0, <1>2 DEF RunInv, Enabled
<1>4. RunInv'
  <2>1. run'.pc \in Working /\ run'.pc # "load" /\ run'.pc \notin Decided
        /\ run'.pc \notin Aside
    BY <1>2 DEF Working, Decided, Aside, Calling
  <2> QED BY <1>2, <1>3, <2>1 DEF RunInv, Aside, Calling
<1>5. WorldInv'
  BY <1>0, WorldKeeps
<1>6. QueueInv'
  BY <1>0 DEF QueueInv, Enabled
<1>7. SnapshotInv' /\ PairInv' /\ LawInv' /\ FreshInv'
  BY <1>2, NothingRead
<1> QED
  BY <1>4, <1>5, <1>6, <1>7 DEF IssueInv

LEMMA TakeEventKeeps == ASSUME IssueInv, TakeEvent PROVE IssueInv'
<1>0. WorldInv /\ QueueInv /\ RunInv /\ CountInv
  BY DEF IssueInv
<1>1. PICK k \in DOMAIN pending :
        /\ run = NoRun /\ Enabled
        /\ pending' = RemoveAt(pending, k)
        /\ run' = IF pending[k].kind = "dispatch" /\ ~ParseOk(pending[k].request) THEN NoRun
                  ELSE [pc |-> "load", ev |-> pending[k], todo |-> Inputs,
                        issue |-> NoValue, comments |-> <<>>, inventory |-> TRUE]
        /\ UNCHANGED <<issue, comments, inventory, prs, clock, edits>> /\ UNCHANGED History
  BY DEF TakeEvent
<1>2. run.pc = "idle"
  BY <1>1 DEF NoRun
<1>3. IsSequence(pending) /\ \A j \in DOMAIN pending : KnownEvent(pending[j])
  BY <1>0, <1>1 DEF QueueInv
<1>4. QueueInv'
  BY <1>1, <1>3, TakingKeeps DEF QueueInv
<1>5. WorldInv'
  <2>1. IssueMoves /\ PullsMove /\ CommentsGrow
    BY <1>0, <1>1, IssueStays, PullsStay DEF CommentsGrow
  <2> QED BY <1>0, <1>1, <2>1, WorldKeeps DEF History, WorldInv
<1>6. CountInv'
  BY <1>0, <1>1, <1>2, CountsKeep DEF History
<1>7. Enabled'
  BY <1>1 DEF Enabled, History
<1>8. CASE run' = NoRun
  <2>1. run'.pc = "idle"
    BY <1>8 DEF NoRun
  <2>2. RunInv'
    BY <1>8, <2>1 DEF RunInv, Working, Decided, Aside, Calling
  <2> QED BY <1>4, <1>5, <1>6, <2>1, <2>2, NothingRead DEF IssueInv, Aside, Calling
<1>9. CASE run' = [pc |-> "load", ev |-> pending[k], todo |-> Inputs,
                   issue |-> NoValue, comments |-> <<>>, inventory |-> TRUE]
  <2>1. run'.pc = "load" /\ run'.ev = pending[k] /\ run'.todo = Inputs /\ LoadRun(run')
    BY <1>9 DEF LoadRun
  <2>2. RunInv'
    BY <1>3, <1>7, <2>1 DEF RunInv, Working, Decided, Aside, Calling
  <2>3. ~HasRead("issue")' /\ ~HasRead("comments")' /\ run'.pc \notin Decided
    BY <2>1 DEF HasRead, Decided, Inputs
  <2>4. SnapshotInv' /\ PairInv' /\ LawInv' /\ FreshInv'
    BY <2>1, <2>3 DEF SnapshotInv, PairInv, LawInv, FreshInv
  <2> QED BY <1>4, <1>5, <1>6, <2>2, <2>4 DEF IssueInv
<1> QED
  BY <1>1, <1>8, <1>9

(* A read leaves the run loading. *)
LEMMA LoadingKeeps ==
  ASSUME IssueInv, run.pc = "load", Reads,
         run'.pc = "load", run'.ev = run.ev, LoadRun(run'),
         SnapshotInv', PairInv', FreshInv'
  PROVE  IssueInv'
<1>0. WorldInv /\ QueueInv /\ RunInv /\ CountInv
  BY DEF IssueInv
<1>1. /\ IssueMoves /\ CommentsGrow /\ PullsMove
      /\ UNCHANGED <<issue, comments, prs, pending, activation, applied, unrecorded>>
  BY <1>0, ReadsMove
<1>2. WorldInv'
  BY <1>0, <1>1, WorldKeeps DEF WorldInv
<1>3. QueueInv'
  BY <1>0, <1>1 DEF QueueInv, Enabled
<1>4. RunInv'
  BY <1>0, <1>1 DEF RunInv, Enabled, Working, Decided, Aside, Calling
<1>5. LawInv'
  BY DEF LawInv, Decided
<1>6. CountInv'
  BY <1>0, <1>1, CountsKeep
<1> QED
  BY <1>2, <1>3, <1>4, <1>5, <1>6 DEF IssueInv

LEMMA LoadIssueKeeps == ASSUME IssueInv, LoadIssue, held' = Consistent PROVE IssueInv'
<1>0. WorldInv /\ RunInv /\ SnapshotInv /\ FreshInv
  BY DEF IssueInv
<1>1. run.pc = "load" /\ "issue" \in run.todo /\ Reads
  BY DEF LoadIssue
<1>2. /\ issue' = issue /\ comments' = comments
  BY <1>0, <1>1, ReadsMove
<1>3. run' = [pc |-> run.pc, ev |-> run.ev, todo |-> run.todo \ {"issue"}, issue |-> issue,
              comments |-> run.comments, inventory |-> run.inventory]
  <2>1. LoadRun(run)
    BY <1>0, <1>1 DEF RunInv
  <2> QED BY <2>1, LoadUpdates DEF LoadIssue
<1>4. /\ run'.pc = "load" /\ run'.ev = run.ev /\ run'.todo = run.todo \ {"issue"}
      /\ run'.issue = issue' /\ run'.comments = run.comments /\ LoadRun(run')
  BY <1>1, <1>2, <1>3 DEF LoadRun
<1>5. HasRead("issue")' /\ (HasRead("comments")' <=> HasRead("comments"))
  BY <1>1, <1>4 DEF HasRead, Decided
<1>6. SnapshotInv'
  BY <1>0, <1>2, <1>4, <1>5 DEF SnapshotInv, WorldInv, StaleComments
<1>7. PairInv'
  <2>1. ASSUME HasRead("comments")' PROVE held' \/ StaleComments'
    <3>1. run.comments = comments \/ StaleComments
      BY <1>0, <1>5, <2>1 DEF SnapshotInv
    <3>2. run'.todo \cap {"issue", "comments"} = {}
      BY <1>4, <2>1 DEF HasRead, Decided
    <3>3. run'.comments = comments' => Consistent
      BY <1>4, <3>2 DEF Consistent
    <3> QED BY <1>2, <1>4, <3>1, <3>3 DEF StaleComments
  <2> QED BY <1>4, <2>1 DEF PairInv
<1>8. FreshInv'
  BY <1>0, <1>2, <1>4, <1>5 DEF FreshInv, Decided
<1> QED
  BY <1>1, <1>4, <1>6, <1>7, <1>8, LoadingKeeps

LEMMA LoadCommentsKeeps == ASSUME IssueInv, LoadComments, held' = Consistent PROVE IssueInv'
<1>0. WorldInv /\ RunInv /\ SnapshotInv /\ FreshInv
  BY DEF IssueInv
<1>1. run.pc = "load" /\ "comments" \in run.todo /\ Reads
  BY DEF LoadComments
<1>2. /\ issue' = issue /\ comments' = comments
  BY <1>0, <1>1, ReadsMove
<1>3. run' = [pc |-> run.pc, ev |-> run.ev, todo |-> run.todo \ {"comments"},
              issue |-> run.issue, comments |-> comments, inventory |-> run.inventory]
  <2>1. LoadRun(run)
    BY <1>0, <1>1 DEF RunInv
  <2> QED BY <2>1, LoadUpdates DEF LoadComments
<1>4. /\ run'.pc = "load" /\ run'.ev = run.ev /\ run'.todo = run.todo \ {"comments"}
      /\ run'.issue = run.issue /\ run'.comments = comments' /\ LoadRun(run')
  BY <1>1, <1>2, <1>3 DEF LoadRun
<1>5. HasRead("comments")' /\ (HasRead("issue")' <=> HasRead("issue"))
  BY <1>1, <1>4 DEF HasRead, Decided
<1>6. SnapshotInv'
  BY <1>0, <1>2, <1>4, <1>5 DEF SnapshotInv, WorldInv, StaleIssue
<1>7. PairInv'
  <2>1. ASSUME HasRead("issue")' PROVE held' \/ StaleIssue'
    <3>1. run.issue = issue \/ StaleIssue
      BY <1>0, <1>5, <2>1 DEF SnapshotInv
    <3>2. run'.todo \cap {"issue", "comments"} = {}
      BY <1>4, <2>1 DEF HasRead, Decided
    <3>3. run'.issue = issue' => Consistent
      BY <1>4, <3>2 DEF Consistent
    <3> QED BY <1>2, <1>4, <3>1, <3>3 DEF StaleIssue
  <2> QED BY <1>4, <2>1 DEF PairInv
<1>8. FreshInv'
  BY <1>0, <1>2, <1>4, <1>5 DEF FreshInv, Decided
<1> QED
  BY <1>1, <1>4, <1>6, <1>7, <1>8, LoadingKeeps

LEMMA LoadInventoryKeeps == ASSUME IssueInv, LoadInventory, held' = Consistent PROVE IssueInv'
<1>0. WorldInv /\ RunInv /\ SnapshotInv /\ PairInv /\ FreshInv
  BY DEF IssueInv
<1>1. run.pc = "load" /\ "inventory" \in run.todo /\ Reads
  BY DEF LoadInventory
<1>2. /\ issue' = issue /\ comments' = comments
  BY <1>0, <1>1, ReadsMove
<1>3. run' = [pc |-> run.pc, ev |-> run.ev, todo |-> run.todo \ {"inventory"},
              issue |-> run.issue, comments |-> run.comments, inventory |-> inventory]
  <2>1. LoadRun(run)
    BY <1>0, <1>1 DEF RunInv
  <2> QED BY <2>1, LoadUpdates DEF LoadInventory
<1>4. /\ run'.pc = "load" /\ run'.ev = run.ev /\ run'.todo = run.todo \ {"inventory"}
      /\ run'.issue = run.issue /\ run'.comments = run.comments /\ LoadRun(run')
  BY <1>1, <1>3 DEF LoadRun
<1>5. (HasRead("comments")' <=> HasRead("comments")) /\ (HasRead("issue")' <=> HasRead("issue"))
  BY <1>1, <1>4 DEF HasRead, Decided
<1>6. SnapshotInv'
  BY <1>0, <1>2, <1>4, <1>5 DEF SnapshotInv, StaleIssue, StaleComments
<1>7. PairInv'
  <2>1. held => held'
    BY <1>4 DEF Consistent
  <2> QED BY <1>0, <1>1, <1>2, <1>4, <1>5, <2>1 DEF PairInv, StaleIssue, StaleComments
<1>8. FreshInv'
  BY <1>0, <1>2, <1>4, <1>5 DEF FreshInv, Decided
<1> QED
  BY <1>1, <1>4, <1>6, <1>7, <1>8, LoadingKeeps

LEMMA DecideKeeps == ASSUME IssueInv, Decide, held' = Consistent PROVE IssueInv'
<1>0. WorldInv /\ QueueInv /\ RunInv /\ SnapshotInv /\ PairInv /\ FreshInv /\ CountInv
  BY DEF IssueInv
<1>1. run.pc = "load" /\ run.todo = {} /\ Reads
  BY DEF Decide
<1>2. /\ IssueMoves /\ CommentsGrow /\ PullsMove
      /\ UNCHANGED <<issue, comments, prs, pending, activation, applied, unrecorded>>
  BY <1>0, <1>1, ReadsMove
<1>3. LoadRun(run) /\ Enabled /\ KnownEvent(run.ev)
  BY <1>0, <1>1 DEF RunInv, Working
<1>4. CountInv'
  BY <1>0, <1>1, <1>2, CountsKeep
<1>5. ASSUME NEW outcome, Conclude(outcome) PROVE IssueInv'
  <2>1. run.pc \in Working \ {"finalize"}
    BY <1>1 DEF Working
  <2> QED BY <1>0, <1>2, <1>4, <1>5, <2>1, ConcludingKeeps DEF WorldInv
<1>6. PICK cur \in CurrentStates(run.ev, run.issue) :
        LET d == Decision(run.ev, run.issue, run.comments, run.inventory, cur) IN
        IF d.do \in {"failed", "ignored"} THEN Conclude(d.do) ELSE Reconcile(d, cur)
  BY DEF Decide
<1> DEFINE d == Decision(run.ev, run.issue, run.comments, run.inventory, cur)
<1>7. /\ Answer(d, cur)
      /\ run.ev.kind = "dispatch" /\ Replayed(run.comments, run.ev.request) => d = Fail
  BY <1>3, DecisionsAnswer
<1>8. IF d.do \in {"failed", "ignored"} THEN Conclude(d.do) ELSE Reconcile(d, cur)
  BY <1>6
<1> HIDE DEF d
<1>9. ASSUME d.do \notin {"failed", "ignored", "nothing"},
             run' = [pc |-> "reread", ev |-> run.ev, todo |-> Inputs,
                     issue |-> run.issue, comments |-> run.comments,
                     inventory |-> run.inventory, from |-> cur, plan |-> PlanRemoval(d)]
      PROVE  IssueInv'
  <2>1. Plan(d) /\ Lawful(d, cur)
    BY <1>7, <1>9 DEF Answer, Fail, Ignore, Nothing
  <2>2. Plan(PlanRemoval(d)) /\ (PlanRemoval(d) = d \/ PlanRemoval(d).do = "remove")
    <3>1. CASE d.do = "remove"
      <4>1. d = [do |-> "remove", labels |-> d.labels]
        BY <2>1, <3>1 DEF Plan
      <4>2. PlanRemoval(d) = [do |-> "remove", labels |-> run.issue.statuses]
        BY <3>1, <4>1 DEF PlanRemoval
      <4> QED BY <4>2 DEF Plan
    <3>2. CASE d.do # "remove"
      BY <2>1, <3>2 DEF PlanRemoval
    <3> QED BY <3>1, <3>2
  <2>3. /\ run'.pc = "reread" /\ run'.ev = run.ev /\ run'.todo = Inputs
        /\ run'.issue = run.issue /\ run'.comments = run.comments
        /\ run'.from = cur /\ run'.plan = PlanRemoval(d) /\ DecidedRun(run')
    BY <1>9 DEF DecidedRun
  <2>4. HasRead("issue") /\ HasRead("comments") /\ HasRead("issue")' /\ HasRead("comments")'
    BY <1>1, <2>3 DEF HasRead, Decided
  <2>5. WorldInv'
    BY <1>0, <1>2, WorldKeeps DEF WorldInv
  <2>6. QueueInv'
    BY <1>0, <1>2 DEF QueueInv, Enabled
  <2>7. RunInv'
    BY <1>2, <1>3, <2>2, <2>3 DEF RunInv, Enabled, Working, Decided, Aside, Calling
  <2>8. SnapshotInv'
    BY <1>0, <1>2, <2>3, <2>4 DEF SnapshotInv, StaleIssue, StaleComments
  <2>9. PairInv'
    <3>1. held \/ StaleIssue \/ StaleComments
      BY <1>0, <1>1, <2>4 DEF PairInv
    <3>2. held => held'
      BY <2>3 DEF Consistent
    <3> QED
      BY <1>2, <2>3, <3>1, <3>2 DEF PairInv, StaleIssue, StaleComments, Inputs
  <2>10. LawInv'
    <3>1. Lawful(PlanRemoval(d), cur)
      BY <2>1, <2>2 DEF Lawful
    <3> QED BY <1>2, <2>3, <3>1 DEF LawInv, Lawful, Earned, Merged
  <2>11. FreshInv'
    <3>1. Observed(run.comments) = Observed(comments)
      BY <1>0, <2>4 DEF FreshInv
    <3>2. run.ev.kind = "dispatch" => Unseen(run.ev.request)
      <4>1. d # Fail
        BY <1>9 DEF Fail
      <4> QED BY <1>7, <3>1, <4>1 DEF Replayed, Unseen
    <3> QED BY <1>2, <2>3, <3>1, <3>2 DEF FreshInv, Unseen
  <2> QED BY <1>4, <2>5, <2>6, <2>7, <2>8, <2>9, <2>10, <2>11 DEF IssueInv
<1> QED
  BY <1>5, <1>8, <1>9 DEF Reconcile

(* A step within the decided phases that keeps the plan, or only drops     *)
(* labels of it.                                                           *)
LEMMA DecidedKeeps ==
  ASSUME IssueInv, run.pc \in Decided, run'.pc \in Decided, DecidedRun(run'),
         run'.ev = run.ev, run'.issue = run.issue, run'.comments = run.comments,
         run'.from = run.from, Plan(run'.plan),
         run'.plan = run.plan \/ run'.plan.do # "set",
         IssueMoves, CommentsGrow, PullsMove,
         UNCHANGED <<pending, activation, applied, unrecorded>>, PairInv'
  PROVE  IssueInv'
<1>0. WorldInv /\ QueueInv /\ RunInv /\ SnapshotInv /\ LawInv /\ FreshInv /\ CountInv
  BY DEF IssueInv
<1>1. HasRead("issue") /\ HasRead("comments") /\ HasRead("issue")' /\ HasRead("comments")'
  BY DEF HasRead
<1>2. WorldInv'
  BY <1>0, WorldKeeps DEF WorldInv
<1>3. QueueInv'
  BY <1>0 DEF QueueInv, Enabled
<1>4. RunInv'
  BY <1>0 DEF RunInv, Enabled, Working, Decided, Aside, Calling
<1>5. SnapshotInv'
  BY <1>0, <1>1, InputsAge DEF SnapshotInv, StaleIssue, StaleComments
<1>6. LawInv'
  BY <1>0 DEF LawInv, Lawful, Earned, Merged, PullsMove
<1>7. FreshInv'
  BY <1>0, <1>1, NothingMoreObserved DEF FreshInv, Unseen
<1>8. CountInv'
  <2>1. run.pc # "finalize"
    BY DEF Decided
  <2> QED BY <1>0, <2>1, CountsKeep, NothingMoreObserved
<1> QED
  BY <1>2, <1>3, <1>4, <1>5, <1>6, <1>7, <1>8 DEF IssueInv

(* The second read: what reads the same was the same all along.            *)
LEMMA RereadKeeps ==
  ASSUME IssueInv, NEW what \in Inputs, NEW same, Reread(what, same), held' = Consistent,
         what = "issue" /\ same => run.issue = issue,
         what = "comments" /\ same => run.comments = comments
  PROVE  IssueInv'
<1>0. WorldInv /\ RunInv /\ PairInv /\ CountInv
  BY DEF IssueInv
<1>1. run.pc = "reread" /\ what \in run.todo /\ Reads
  BY DEF Reread
<1>2. /\ IssueMoves /\ CommentsGrow /\ PullsMove
      /\ UNCHANGED <<issue, comments, prs, pending, activation, applied, unrecorded>>
  BY <1>0, <1>1, ReadsMove
<1>3. DecidedRun(run) /\ Plan(run.plan)
  BY <1>0, <1>1 DEF RunInv, Decided
<1>4. CASE ~same
  <2>1. Conclude("failed")
    BY <1>4 DEF Reread
  <2>2. CountInv'
    BY <1>0, <1>1, <1>2, CountsKeep
  <2>3. run.pc \in Working \ {"finalize"}
    BY <1>1 DEF Working, Decided
  <2> QED BY <1>0, <1>2, <2>1, <2>2, <2>3, ConcludingKeeps DEF WorldInv
<1>5. CASE same
  <2> DEFINE next == IF run.todo = {what} THEN "write" ELSE "reread"
  <2>1. run' = [run EXCEPT !.todo = run.todo \ {what}, !.pc = next]
    BY <1>1, <1>5 DEF Reread
  <2>2. next \in {"write", "reread"} /\ (next = "write" => run.todo = {what})
    OBVIOUS
  <2> HIDE DEF next
  <2>3. run' = [pc |-> next, ev |-> run.ev, todo |-> run.todo \ {what}, issue |-> run.issue,
                comments |-> run.comments, inventory |-> run.inventory,
                from |-> run.from, plan |-> run.plan]
    BY <1>3, <2>1, DecidedUpdates
  <2>4. /\ run'.pc = next /\ run'.ev = run.ev /\ run'.todo = run.todo \ {what}
        /\ run'.issue = run.issue /\ run'.comments = run.comments
        /\ run'.from = run.from /\ run'.plan = run.plan /\ DecidedRun(run')
    BY <2>3 DEF DecidedRun
  <2>5. PairInv'
    <3>1. \/ held
          \/ StaleIssue /\ "issue" \in run.todo
          \/ StaleComments /\ "comments" \in run.todo
      BY <1>0, <1>1 DEF PairInv
    <3>2. held => held'
      BY <2>2, <2>4 DEF Consistent
    <3>3. what = "issue" => ~StaleIssue
      BY <1>0, <1>5 DEF StaleIssue, WorldInv, IssueRecord
    <3>4. what = "comments" => ~StaleComments
      BY <1>0, <1>5 DEF StaleComments, WorldInv, IsSequence
    <3>5. \/ held'
          \/ StaleIssue' /\ "issue" \in run'.todo
          \/ StaleComments' /\ "comments" \in run'.todo
      BY <1>2, <2>4, <3>1, <3>2, <3>3, <3>4 DEF StaleIssue, StaleComments
    <3>6. next = "write" => run'.todo = {}
      BY <2>2, <2>4
    <3> QED BY <2>2, <2>4, <3>5, <3>6 DEF PairInv
  <2>6. run.pc \in Decided /\ run'.pc \in Decided
    BY <1>1, <2>2, <2>4 DEF Decided
  <2> QED BY <1>2, <1>3, <2>4, <2>5, <2>6, DecidedKeeps
<1> QED
  BY <1>4, <1>5

LEMMA RereadsKeep ==
  ASSUME IssueInv, RereadIssue \/ RereadComments \/ RereadInventory, held' = Consistent
  PROVE  IssueInv'
<1>1. CASE RereadIssue
  BY <1>1, RereadKeeps DEF RereadIssue, SameIssue, Inputs
<1>2. CASE RereadComments
  BY <1>2, RereadKeeps DEF RereadComments, SameComments, Inputs
<1>3. CASE RereadInventory
  BY <1>3, RereadKeeps DEF RereadInventory, Inputs
<1> QED
  BY <1>1, <1>2, <1>3

LEMMA EditedRecords ==
  ASSUME NEW i, IssueRecord(i)
  PROVE  /\ \A s : IssueRecord([i EXCEPT !.statuses = s])
         /\ \A s, f : IssueRecord([i EXCEPT !.statuses = s, !.foreign = f])
         /\ \A o, r : IssueRecord([i EXCEPT !.open = o, !.reason = r])
<1>1. ASSUME NEW j, IssueRecord(j)
      PROVE  /\ \A s : IssueRecord([j EXCEPT !.statuses = s])
             /\ \A f : IssueRecord([j EXCEPT !.foreign = f])
             /\ \A o : IssueRecord([j EXCEPT !.open = o])
             /\ \A r : IssueRecord([j EXCEPT !.reason = r])
  BY <1>1 DEF IssueRecord
<1>2. \A s : IssueRecord([i EXCEPT !.statuses = s])
  BY <1>1
<1>3. ASSUME NEW s, NEW f PROVE IssueRecord([i EXCEPT !.statuses = s, !.foreign = f])
  <2> DEFINE j == [i EXCEPT !.statuses = s]
  <2>1. [i EXCEPT !.statuses = s, !.foreign = f] = [j EXCEPT !.foreign = f]
    OBVIOUS
  <2>2. IssueRecord([j EXCEPT !.foreign = f])
    <3>1. IssueRecord(j) BY <1>2
    <3> QED BY <1>1, <3>1
  <2> QED BY <2>1, <2>2, Zenon
<1>4. ASSUME NEW o, NEW r PROVE IssueRecord([i EXCEPT !.open = o, !.reason = r])
  <2> DEFINE j == [i EXCEPT !.open = o]
  <2>1. [i EXCEPT !.open = o, !.reason = r] = [j EXCEPT !.reason = r]
    OBVIOUS
  <2>2. IssueRecord([j EXCEPT !.reason = r])
    <3>1. IssueRecord(j) BY <1>1
    <3> QED BY <1>1, <3>1
  <2> QED BY <2>1, <2>2, Zenon
<1> QED
  BY <1>2, <1>3, <1>4

LEMMA WritesMove ==
  ASSUME IssueInv, NEW i, IssueRecord(i), Writes(i)
  PROVE  /\ IssueMoves /\ CommentsGrow /\ PullsMove
         /\ UNCHANGED <<pending, activation, applied, unrecorded>>
<1>1. WorldInv
  BY DEF IssueInv
<1> QED
  BY <1>1, StampedMoves, PullsStay DEF Writes, Provider, CommentsGrow

LEMMA StepKeepsRun ==
  ASSUME IssueInv, run.pc \in Decided, NEW c \in {"readback", "restore"}, Step(c)
  PROVE  /\ run'.pc \in Decided /\ DecidedRun(run') /\ run'.ev = run.ev
         /\ run'.issue = run.issue /\ run'.comments = run.comments
         /\ run'.from = run.from /\ run'.plan = run.plan /\ Plan(run'.plan)
         /\ PairInv'
<1>1. DecidedRun(run) /\ Plan(run.plan)
  BY DEF IssueInv, RunInv
<1>2. run' = [pc |-> c, ev |-> run.ev, todo |-> run.todo, issue |-> run.issue,
              comments |-> run.comments, inventory |-> run.inventory,
              from |-> run.from, plan |-> run.plan]
  BY <1>1, DecidedUpdates DEF Step
<1>3. run'.pc = c
  BY <1>2
<1> QED
  BY <1>1, <1>2, <1>3 DEF DecidedRun, Decided, PairInv

LEMMA ReplaceKeeps == ASSUME IssueInv, ReplaceLabels \/ CloseCompleted PROVE IssueInv'
<1>1. IssueRecord(issue)
  BY DEF IssueInv, WorldInv
<1>2. IssueRecord(Replaced)
  BY <1>1, EditedRecords DEF Replaced
<1>3. run.pc = "write" /\ Step("readback")
  BY DEF ReplaceLabels, CloseCompleted
<1>4. PICK i : IssueRecord(i) /\ Writes(i)
  <2>1. CASE ReplaceLabels
    BY <1>2, <2>1 DEF ReplaceLabels
  <2>2. CASE CloseCompleted
    <3>1. IssueRecord([Replaced EXCEPT !.open = FALSE, !.reason = "completed"])
      BY <1>2, EditedRecords, Zenon
    <3> QED BY <2>2, <3>1, Zenon DEF CloseCompleted
  <2> QED BY <2>1, <2>2
<1>5. run.pc \in Decided
  BY <1>3 DEF Decided
<1> QED
  BY <1>3, <1>4, <1>5, WritesMove, StepKeepsRun, DecidedKeeps

LEMMA DeleteKeeps ==
  ASSUME IssueInv, NEW do \in {"remove", "repair"}, Delete(do), held' = Consistent
  PROVE  IssueInv'
<1>0. WorldInv /\ RunInv /\ PairInv
  BY DEF IssueInv
<1>1. PICK l \in run.plan.labels :
        /\ Writes([issue EXCEPT !.statuses = @ \ {l}])
        /\ run' = [run EXCEPT !.plan.labels = @ \ {l},
                              !.pc = IF run.plan.labels = {l} THEN "readback" ELSE @]
  BY DEF Delete
<1>2. run.pc = "write" /\ run.plan.do = do
  BY DEF Delete
<1>3. run.pc \in Decided /\ DecidedRun(run) /\ Plan(run.plan)
  BY <1>0, <1>2 DEF RunInv, Decided
<1> DEFINE p == [run.plan EXCEPT !.labels = run.plan.labels \ {l}]
           c == IF run.plan.labels = {l} THEN "readback" ELSE "write"
           j == [run EXCEPT !.plan = p]
<1>4. Plan(p) /\ p.do # "set"
  <2>1. \/ run.plan = [do |-> "remove", labels |-> run.plan.labels]
        \/ run.plan = [do |-> "repair", labels |-> run.plan.labels, to |-> run.plan.to]
    BY <1>2, <1>3 DEF Plan
  <2>2. \/ p = [do |-> "remove", labels |-> run.plan.labels \ {l}]
        \/ p = [do |-> "repair", labels |-> run.plan.labels \ {l}, to |-> run.plan.to]
    BY <2>1
  <2> HIDE DEF p
  <2> QED BY <2>2 DEF Plan
<1>5. run' = [j EXCEPT !.pc = c]
  BY <1>1, <1>2
<1>6. c \in {"readback", "write"}
  OBVIOUS
<1> HIDE DEF p, c
<1>7. j = [pc |-> run.pc, ev |-> run.ev, todo |-> run.todo, issue |-> run.issue,
           comments |-> run.comments, inventory |-> run.inventory,
           from |-> run.from, plan |-> p]
  BY <1>3 DEF DecidedRun
<1> HIDE DEF j
<1>8. run' = [pc |-> c, ev |-> run.ev, todo |-> run.todo, issue |-> run.issue,
              comments |-> run.comments, inventory |-> run.inventory,
              from |-> run.from, plan |-> p]
  BY <1>5, <1>7
<1>9. /\ run'.pc = c /\ run'.ev = run.ev /\ run'.issue = run.issue
      /\ run'.comments = run.comments /\ run'.from = run.from /\ run'.plan = p
      /\ DecidedRun(run') /\ run'.pc \in Decided
  BY <1>6, <1>8 DEF DecidedRun, Decided
<1>10. PairInv'
  <2>1. held
    BY <1>0, <1>2 DEF PairInv
  <2>2. held'
    BY <1>6, <1>9, <2>1 DEF Consistent
  <2> QED BY <1>6, <1>9, <2>2 DEF PairInv
<1>11. IssueRecord([issue EXCEPT !.statuses = @ \ {l}])
  BY <1>0, EditedRecords DEF WorldInv
<1> QED
  BY <1>1, <1>3, <1>4, <1>9, <1>10, <1>11, WritesMove, DecidedKeeps

LEMMA DeletesKeep ==
  ASSUME IssueInv, RemoveLabel \/ RepairGesture, held' = Consistent PROVE IssueInv'
BY DeleteKeeps DEF RemoveLabel, RepairGesture

LEMMA NothingToRemoveKeeps == ASSUME IssueInv, NothingToRemove PROVE IssueInv'
<1>1. run.pc = "write" /\ Step("readback") /\ Reads /\ WorldInv
  BY DEF NothingToRemove, IssueInv
<1>2. run.pc \in Decided
  BY <1>1 DEF Decided
<1> QED
  BY <1>1, <1>2, ReadsMove, StepKeepsRun, DecidedKeeps

LEMMA FailedWriteMoves ==
  ASSUME WorldInv, UNCHANGED <<issue, comments, clock>>, Provider
  PROVE  IssueMoves /\ CommentsGrow /\ PullsMove /\ UNCHANGED <<pending, activation>>
BY IssueStays, PullsStay DEF Provider, CommentsGrow

LEMMA WriteFailsKeeps == ASSUME IssueInv, WriteFails PROVE IssueInv'
<1>0. WorldInv /\ CountInv
  BY DEF IssueInv
<1>1. /\ IssueMoves /\ CommentsGrow /\ PullsMove
      /\ UNCHANGED <<pending, activation, applied, unrecorded, comments>>
  BY <1>0, FailedWriteMoves DEF WriteFails
<1>2. CASE run.pc = "write" /\ Step("readback")
  <2>1. run.pc \in Decided
    BY <1>2 DEF Decided
  <2> QED BY <1>1, <1>2, <2>1, StepKeepsRun, DecidedKeeps
<1>3. CASE run.pc = "restore" /\ Conclude("failed")
  <2>1. run.pc \in Working \ {"finalize"}
    BY <1>3 DEF Working, Decided
  <2>2. CountInv'
    BY <1>0, <1>1, <1>3, CountsKeep
  <2> QED BY <1>0, <1>1, <1>3, <2>1, <2>2, ConcludingKeeps DEF WorldInv
<1> QED
  BY <1>2, <1>3 DEF WriteFails

LEMMA RestoreKeeps == ASSUME IssueInv, Restore PROVE IssueInv'
<1>0. WorldInv /\ CountInv
  BY DEF IssueInv
<1> DEFINE i == [issue EXCEPT !.statuses = run.issue.statuses, !.foreign = run.issue.foreign]
<1>1. run.pc = "restore" /\ issue' = Stamped(i) /\ Tick /\ Conclude("failed")
      /\ UNCHANGED <<comments, faults, applied, unrecorded, refused>> /\ Provider
  BY DEF Restore
<1>2. IssueRecord(i)
  BY <1>0, EditedRecords DEF WorldInv
<1> HIDE DEF i
<1>3. /\ IssueMoves /\ CommentsGrow /\ PullsMove /\ UNCHANGED <<pending, activation>>
  BY <1>0, <1>1, <1>2, StampedMoves, PullsStay DEF Provider, CommentsGrow
<1>4. CountInv'
  BY <1>0, <1>1, CountsKeep
<1>5. run.pc \in Working \ {"finalize"}
  BY <1>1 DEF Working, Decided
<1> QED
  BY <1>0, <1>1, <1>3, <1>4, <1>5, ConcludingKeeps DEF WorldInv

(* The one step that applies a request. *)
LEMMA ReadBackKeeps == ASSUME IssueInv, ReadBack PROVE IssueInv'
<1>0. WorldInv /\ RunInv /\ FreshInv /\ CountInv
  BY DEF IssueInv
<1>1. /\ run.pc = "readback" /\ UNCHANGED <<issue, comments, clock, unrecorded>> /\ Provider
      /\ applied' = IF Verified /\ run.ev.kind = "dispatch"
                    THEN [applied EXCEPT ![run.ev.request] = @ + 1] ELSE applied
  BY DEF ReadBack
<1>2. run.pc \in Decided /\ run.pc \in Working \ {"finalize"} /\ DecidedRun(run)
      /\ KnownEvent(run.ev)
  BY <1>0, <1>1 DEF RunInv, Decided, Working
<1>3. IssueMoves /\ CommentsGrow /\ PullsMove /\ UNCHANGED <<pending, activation>>
  BY <1>0, <1>1, FailedWriteMoves
<1>4. unrecorded' = unrecorded /\ unrecorded \in [Dispatches -> Nat]
      /\ applied \in [Dispatches -> Nat]
  BY <1>0, <1>1 DEF WorldInv
<1>5. ASSUME Verified, run.ev.kind = "dispatch" PROVE IssueInv'
  <2> DEFINE r == run.ev.request
  <2>1. r \in Dispatches /\ Unseen(r)
    BY <1>0, <1>2, <1>5 DEF KnownEvent, FreshInv
  <2>2. applied' = [applied EXCEPT ![r] = @ + 1]
    BY <1>1, <1>5
  <2>3. PICK outcome : Conclude(outcome)
    BY <1>5 DEF ReadBack
  <2>4. run'.pc = "finalize" /\ run'.ev = run.ev
    BY <1>2, <2>3, Concludes
  <2> HIDE DEF r
  <2>5. applied' \in [Dispatches -> Nat]
    BY <1>4, <2>1, <2>2
  <2>6. CountInv'
    <3> SUFFICES ASSUME NEW d \in Dispatches, NEW e \in Dispatches, d.id = e.id
                 PROVE  /\ Both(applied, d, e)' <= 1 + Both(unrecorded, d, e)'
                        /\ Unseen(d)' /\ ~Concluding(d)' /\ ~Concluding(e)' =>
                             Both(applied, d, e)' <= Both(unrecorded, d, e)'
      BY DEF CountInv
    <3>1. Both(unrecorded, d, e)' = Both(unrecorded, d, e) /\ Both(unrecorded, d, e) \in Nat
      BY <1>4 DEF Both
    <3>2. Unseen(d)' = Unseen(d) /\ ~Concluding(d) /\ ~Concluding(e)
      BY <1>1 DEF Unseen, Concluding
    <3>3. /\ Both(applied, d, e) \in Nat
          /\ Both(applied, d, e) <= 1 + Both(unrecorded, d, e)
          /\ Unseen(d) => Both(applied, d, e) <= Both(unrecorded, d, e)
      BY <1>0, <1>4, <3>2 DEF CountInv, Both
    <3>4. CASE r \in {d, e}
      <4>1. Unseen(d)
        BY <2>1, <3>4 DEF Unseen
      <4>2. Both(applied, d, e)' = Both(applied, d, e) + 1
        BY <1>4, <2>1, <2>2, <3>4 DEF Both
      <4>3. Concluding(d)' \/ Concluding(e)'
        BY <1>5, <2>4, <3>4 DEF Concluding, r
      <4> QED BY <3>1, <3>3, <4>1, <4>2, <4>3
    <3>5. CASE r \notin {d, e}
      <4>1. Both(applied, d, e)' = Both(applied, d, e)
        BY <1>4, <2>1, <2>2, <3>5 DEF Both
      <4> QED BY <3>1, <3>2, <3>3, <4>1
    <3> QED BY <3>4, <3>5
  <2> QED BY <1>2, <1>3, <1>4, <2>3, <2>5, <2>6, ConcludingKeeps
<1>6. ASSUME applied' = applied PROVE IssueInv'
  <2>1. CASE Step("restore")
    BY <1>2, <1>3, <1>4, <1>6, <2>1, StepKeepsRun, DecidedKeeps
  <2>2. ASSUME NEW outcome, Conclude(outcome) PROVE IssueInv'
    <3>1. CountInv'
      BY <1>0, <1>1, <1>6, CountsKeep
    <3> QED BY <1>2, <1>3, <1>4, <1>6, <2>2, <3>1, ConcludingKeeps
  <2> QED BY <2>1, <2>2 DEF ReadBack
<1> QED
  BY <1>1, <1>5, <1>6

(* A run that ends leaves nothing but the counts to prove. *)
LEMMA EndingKeeps ==
  ASSUME WorldInv', QueueInv, UNCHANGED <<pending, activation>>, run' = NoRun, CountInv'
  PROVE  IssueInv'
<1>1. run'.pc = "idle"
  BY DEF NoRun
<1>2. RunInv'
  BY <1>1 DEF RunInv, Working, Decided, Aside, Calling
<1>3. QueueInv'
  BY DEF QueueInv, Enabled
<1> QED
  BY <1>1, <1>2, <1>3, NothingRead DEF IssueInv, Aside, Calling

LEMMA FinalizeKeeps == ASSUME IssueInv, Finalize PROVE IssueInv'
<1>0. WorldInv /\ QueueInv /\ RunInv /\ CountInv
  BY DEF IssueInv
<1>1. /\ run.pc = "finalize" /\ run' = NoRun
      /\ UNCHANGED <<applied, unrecorded, prs, pending, activation>>
  BY DEF Finalize, Provider
<1>2. CASE run.ev.kind = "dispatch"
  <2> DEFINE r == run.ev.request
             c == Observation(r, run.todo)
  <2>1. comments' = Append(comments, c) /\ issue' = Stamped(issue) /\ Tick
    BY <1>2 DEF Finalize
  <2>2. c.kind = "observation" /\ c.request = r
    BY DEF Observation
  <2> HIDE DEF c
  <2>3. Observed(comments') = Observed(comments) \cup {r} /\ IsSequence(comments')
    BY <1>0, <2>1, <2>2, ObservedGrows, SequenceGrows DEF WorldInv
  <2>4. WorldInv'
    <3>1. IssueMoves /\ PullsMove
      BY <1>0, <1>1, <2>1, StampedMoves, PullsStay DEF WorldInv
    <3> QED BY <1>0, <1>1, <2>3, <3>1 DEF WorldInv, IssueMoves, PullsMove
  <2>5. CountInv'
    <3> SUFFICES ASSUME NEW d \in Dispatches, NEW e \in Dispatches, d.id = e.id
                 PROVE  /\ Both(applied, d, e)' <= 1 + Both(unrecorded, d, e)'
                        /\ Unseen(d)' => Both(applied, d, e)' <= Both(unrecorded, d, e)'
      BY DEF CountInv
    <3>1. /\ Both(applied, d, e)' = Both(applied, d, e)
          /\ Both(unrecorded, d, e)' = Both(unrecorded, d, e)
      BY <1>1 DEF Both
    <3>2. Unseen(d)' => Unseen(d) /\ r.id # d.id
      BY <2>3 DEF Unseen
    <3>3. r.id # d.id => ~Concluding(d) /\ ~Concluding(e)
      BY DEF Concluding
    <3> QED BY <1>0, <3>1, <3>2, <3>3 DEF CountInv
  <2> QED BY <1>0, <1>1, <2>4, <2>5, EndingKeeps
<1>3. CASE run.ev.kind # "dispatch"
  <2>1. UNCHANGED <<comments, issue, clock>>
    BY <1>3 DEF Finalize
  <2>2. WorldInv'
    BY <1>0, <1>1, <2>1, IssueStays, PullsStay, WorldKeeps DEF WorldInv, CommentsGrow
  <2>3. CountInv'
    <3>1. \A d : ~Concluding(d) /\ Unseen(d)' = Unseen(d)
      BY <1>3, <2>1 DEF Concluding, Unseen
    <3>2. \A d, e : /\ Both(applied, d, e)' = Both(applied, d, e)
                    /\ Both(unrecorded, d, e)' = Both(unrecorded, d, e)
      BY <1>1 DEF Both
    <3> QED BY <1>0, <3>1, <3>2 DEF CountInv
  <2> QED BY <1>0, <1>1, <2>2, <2>3, EndingKeeps
<1> QED
  BY <1>2, <1>3

LEMMA RunDiesKeeps == ASSUME IssueInv, RunDies PROVE IssueInv'
<1>0. WorldInv /\ QueueInv /\ RunInv /\ CountInv
  BY DEF IssueInv
<1>1. /\ run # NoRun /\ run' = NoRun
      /\ unrecorded' = IF run.pc \notin Calling /\ run.ev.kind = "dispatch"
                       THEN [unrecorded EXCEPT ![run.ev.request] = @ + 1] ELSE unrecorded
      /\ UNCHANGED <<issue, comments, clock, applied>> /\ Provider
  BY DEF RunDies, Calling
<1>2. IssueMoves /\ CommentsGrow /\ PullsMove /\ UNCHANGED <<pending, activation>>
  BY <1>0, <1>1, FailedWriteMoves
<1>3. applied \in [Dispatches -> Nat] /\ unrecorded \in [Dispatches -> Nat]
  BY <1>0 DEF WorldInv
<1>4. \A d : Unseen(d)' = Unseen(d)
  BY <1>1 DEF Unseen
<1>5. CASE run.pc \notin Calling /\ run.ev.kind = "dispatch"
  <2> DEFINE r == run.ev.request
  <2>1. r \in Dispatches
    BY <1>0, <1>1, <1>5 DEF RunInv, KnownEvent, Aside, Calling
  <2>2. unrecorded' = [unrecorded EXCEPT ![r] = @ + 1]
    BY <1>1, <1>5
  <2>3. \A d : Concluding(d) => d = r
    BY DEF Concluding
  <2> HIDE DEF r
  <2>4. unrecorded' \in [Dispatches -> Nat]
    BY <1>3, <2>1, <2>2
  <2>5. WorldInv'
    BY <1>0, <1>1, <1>2, <1>3, <2>4, WorldKeeps
  <2>6. CountInv'
    <3> SUFFICES ASSUME NEW d \in Dispatches, NEW e \in Dispatches, d.id = e.id
                 PROVE  /\ Both(applied, d, e)' <= 1 + Both(unrecorded, d, e)'
                        /\ Unseen(d)' => Both(applied, d, e)' <= Both(unrecorded, d, e)'
      BY DEF CountInv
    <3>1. Both(applied, d, e)' = Both(applied, d, e)
      BY <1>1 DEF Both
    <3>2. Both(applied, d, e) \in Nat /\ Both(unrecorded, d, e) \in Nat
      BY <1>3 DEF Both
    <3>3. /\ Both(applied, d, e) <= 1 + Both(unrecorded, d, e)
          /\ Unseen(d) /\ r \notin {d, e} => Both(applied, d, e) <= Both(unrecorded, d, e)
      BY <1>0, <2>3 DEF CountInv
    <3>4. Both(unrecorded, d, e)' = Both(unrecorded, d, e) + (IF r \in {d, e} THEN 1 ELSE 0)
      <4>1. CASE r \in {d, e}
        BY <1>3, <2>1, <2>2, <4>1 DEF Both
      <4>2. CASE r \notin {d, e}
        BY <1>3, <2>1, <2>2, <4>2 DEF Both
      <4> QED BY <4>1, <4>2
    <3> QED BY <1>4, <3>1, <3>2, <3>3, <3>4
  <2> QED BY <1>0, <1>1, <1>2, <2>5, <2>6, EndingKeeps
<1>6. CASE ~(run.pc \notin Calling /\ run.ev.kind = "dispatch")
  <2>1. unrecorded' = unrecorded
    BY <1>1, <1>6
  <2>2. WorldInv'
    BY <1>0, <1>1, <1>2, <1>3, <2>1, WorldKeeps
  <2>3. CountInv'
    <3>1. \A d : ~Concluding(d)
      BY <1>6 DEF Concluding, Calling
    <3>2. \A d, e : /\ Both(applied, d, e)' = Both(applied, d, e)
                    /\ Both(unrecorded, d, e)' = Both(unrecorded, d, e)
      BY <1>1, <2>1 DEF Both
    <3> QED BY <1>0, <1>4, <3>1, <3>2 DEF CountInv
  <2> QED BY <1>0, <1>1, <1>2, <2>2, <2>3, EndingKeeps
<1> QED
  BY <1>5, <1>6

-----------------------------------------------------------------------------
(* Readiness runs neither apply nor observe a request. *)

LEMMA AsideKeeps ==
  ASSUME IssueInv, run.pc \in Aside, run'.pc \in Aside,
         run' = NoRun \/ (run'.pc \in Calling /\ ReadinessShape(run')),
         IssueMoves, CommentsGrow, PullsMove,
         UNCHANGED <<activation, applied, unrecorded>>,
         UNCHANGED pending \/ ~Enabled
  PROVE  IssueInv'
<1>0. WorldInv /\ QueueInv /\ CountInv
  BY DEF IssueInv
<1>1. WorldInv'
  BY <1>0, WorldKeeps DEF WorldInv
<1>2. QueueInv'
  BY <1>0 DEF QueueInv, Enabled
<1>3. RunInv'
  BY DEF RunInv, Working, Decided, Aside, Calling, NoRun
<1>4. CountInv'
  <2>1. run.pc # "finalize"
    BY DEF Aside, Calling
  <2> QED BY <1>0, <2>1, CountsKeep, NothingMoreObserved
<1> QED
  BY <1>1, <1>2, <1>3, <1>4, NothingRead DEF IssueInv

LEMMA FinishedShape ==
  ASSUME IssueInv, run.pc \in {"call", "tell"}, Finished \/ run' = NoRun
  PROVE  /\ run.pc \in Aside /\ run'.pc \in Aside
         /\ run' = NoRun \/ (run'.pc \in Calling /\ ReadinessShape(run'))
<1>1. run = [pc |-> run.pc, ev |-> run.ev, issue |-> run.issue, calls |-> run.calls,
             heads |-> run.heads]
  BY DEF IssueInv, RunInv, ReadinessShape, Calling
<1>2. CASE run' = NoRun
  <2>1. run'.pc = "idle"
    BY <1>2 DEF NoRun
  <2> QED BY <1>2, <2>1 DEF Aside, Calling
<1>3. CASE run' = [run EXCEPT !.pc = "call", !.calls = Tail(run.calls)]
  <2> DEFINE j == [run EXCEPT !.pc = "call"]
  <2>1. run' = [j EXCEPT !.calls = Tail(run.calls)]
    BY <1>3
  <2>2. j = [pc |-> "call", ev |-> run.ev, issue |-> run.issue, calls |-> run.calls,
             heads |-> run.heads]
    BY <1>1
  <2> HIDE DEF j
  <2>3. run' = [pc |-> "call", ev |-> run.ev, issue |-> run.issue, calls |-> Tail(run.calls),
                heads |-> run.heads]
    BY <2>1, <2>2
  <2>4. run'.pc = "call"
    BY <2>3
  <2> QED BY <2>3, <2>4 DEF ReadinessShape, Aside, Calling
<1> QED
  BY <1>2, <1>3 DEF Finished

LEMMA ReadinessKeeps == ASSUME IssueInv, ReadinessRun PROVE IssueInv'
<1>0. WorldInv /\ RunInv
  BY DEF IssueInv
<1>1. CASE TakeReadinessEvent
  <2>1. /\ run = NoRun /\ ~Enabled
        /\ UNCHANGED <<issue, comments, prs, clock, activation, applied, unrecorded>>
    BY <1>1 DEF TakeReadinessEvent
  <2>2. IssueMoves /\ CommentsGrow /\ PullsMove
    BY <1>0, <2>1, IssueStays, PullsStay DEF CommentsGrow
  <2>3. \/ run' = NoRun
        \/ run' = [pc |-> "readiness", ev |-> Head(pending),
                   issue |-> Head(pending).payload, calls |-> <<>>, heads |-> {}]
    BY <1>1 DEF TakeReadinessEvent
  <2>4. \/ run' = NoRun /\ run'.pc = "idle"
        \/ run'.pc = "readiness" /\ ReadinessShape(run')
    BY <2>3 DEF NoRun, ReadinessShape
  <2>5. run.pc \in Aside /\ run'.pc \in Aside
    BY <2>1, <2>4 DEF NoRun, Aside, Calling
  <2> QED BY <2>1, <2>2, <2>4, <2>5, AsideKeeps DEF Calling
<1>2. CASE ReadRecords
  <2> DEFINE calls == Calls(DecideReadiness(run.ev, run.issue, comments), run.ev, run.issue)
             j == [run EXCEPT !.pc = "call"]
  <2>1. run.pc = "readiness" /\ run' = [j EXCEPT !.calls = calls] /\ Reads
    BY <1>2 DEF ReadRecords
  <2> HIDE DEF calls
  <2>2. j = [pc |-> "call", ev |-> run.ev, issue |-> run.issue, calls |-> run.calls,
             heads |-> run.heads]
    BY <1>0, <2>1 DEF RunInv, ReadinessShape, Calling
  <2> HIDE DEF j
  <2>3. run' = [pc |-> "call", ev |-> run.ev, issue |-> run.issue, calls |-> calls,
                heads |-> run.heads]
    BY <2>1, <2>2
  <2>4. run'.pc = "call" /\ ReadinessShape(run')
    BY <2>3 DEF ReadinessShape
  <2>5. run.pc \in Aside /\ run'.pc \in Aside
    BY <2>1, <2>4 DEF Aside, Calling
  <2> QED BY <1>0, <2>1, <2>4, <2>5, ReadsMove, AsideKeeps DEF Calling
<1>3. CASE ReadinessDone \/ ReadinessCheck \/ AllTold
  <2>1. run.pc \in {"call", "tell"} /\ (Finished \/ run' = NoRun) /\ Reads
    BY <1>3 DEF ReadinessDone, ReadinessCheck, AllTold
  <2> QED BY <1>0, <2>1, FinishedShape, ReadsMove, AsideKeeps
<1>4. CASE ReadinessWrite
  <2>1. PICK s : issue' = Stamped([issue EXCEPT !.statuses = s])
    BY <1>4 DEF ReadinessWrite
  <2>2. /\ run.pc = "call" /\ Tick /\ Finished
        /\ UNCHANGED <<comments, applied, unrecorded>> /\ Provider
    BY <1>4 DEF ReadinessWrite
  <2>3. IssueMoves /\ CommentsGrow /\ PullsMove
    BY <1>0, <2>1, <2>2, EditedRecords, StampedMoves, PullsStay
       DEF Provider, CommentsGrow, WorldInv
  <2> QED BY <2>2, <2>3, FinishedShape, AsideKeeps DEF Provider
<1>5. CASE ReadinessRecord
  <2>1. PICK status : Record(status)
    BY <1>5 DEF ReadinessRecord
  <2>2. /\ run.pc = "call" /\ issue' = Stamped(issue) /\ Tick /\ Finished
        /\ UNCHANGED <<applied, unrecorded>> /\ Provider
    BY <1>5 DEF ReadinessRecord
  <2>3. CommentsGrow
    <3> DEFINE c == [kind |-> "readiness", accepted |-> status, fp |-> run.issue.body,
                     on |-> run.ev.kind]
    <3>1. comments' = Append(comments, c) /\ c.kind # "observation"
      BY <2>1 DEF Record
    <3> HIDE DEF c
    <3> QED BY <3>1 DEF CommentsGrow
  <2>4. IssueMoves /\ PullsMove
    BY <1>0, <2>2, StampedMoves, PullsStay DEF Provider, WorldInv
  <2> QED BY <2>2, <2>3, <2>4, FinishedShape, AsideKeeps DEF Provider
<1>6. CASE ListPullRequests \/ TellPullRequest
  <2>1. /\ run.pc \in {"call", "tell"}
        /\ UNCHANGED <<issue, comments, prs, pending, clock, activation, applied, unrecorded>>
    BY <1>6 DEF ListPullRequests, TellPullRequest
  <2>2. run = [pc |-> run.pc, ev |-> run.ev, issue |-> run.issue, calls |-> run.calls,
               heads |-> run.heads]
    BY <1>0, <2>1 DEF RunInv, ReadinessShape, Calling
  <2>3. run'.pc = "tell" /\ ReadinessShape(run')
    <3>1. CASE ListPullRequests
      <4> DEFINE j == [run EXCEPT !.pc = "tell"]
      <4>1. run' = [j EXCEPT !.heads = OpenHeads]
        BY <3>1 DEF ListPullRequests
      <4>2. j = [pc |-> "tell", ev |-> run.ev, issue |-> run.issue, calls |-> run.calls,
                 heads |-> run.heads]
        BY <2>2
      <4> HIDE DEF j
      <4>3. run' = [pc |-> "tell", ev |-> run.ev, issue |-> run.issue, calls |-> run.calls,
                    heads |-> OpenHeads]
        BY <4>1, <4>2
      <4> QED BY <4>3 DEF ReadinessShape
    <3>2. CASE TellPullRequest
      <4>1. PICK h : run' = [run EXCEPT !.heads = run.heads \ {h}]
        BY <3>2 DEF TellPullRequest
      <4>2. run' = [pc |-> run.pc, ev |-> run.ev, issue |-> run.issue, calls |-> run.calls,
                    heads |-> run.heads \ {h}]
        BY <2>2, <4>1
      <4>3. run.pc = "tell"
        BY <3>2 DEF TellPullRequest
      <4> QED BY <4>2, <4>3 DEF ReadinessShape
    <3> QED BY <1>6, <3>1, <3>2
  <2>4. IssueMoves /\ CommentsGrow /\ PullsMove
    BY <1>0, <2>1, IssueStays, PullsStay DEF CommentsGrow
  <2>5. run.pc \in Aside /\ run'.pc \in Calling /\ run'.pc \in Aside
    BY <2>1, <2>3 DEF Aside, Calling
  <2> QED BY <2>1, <2>3, <2>4, <2>5, AsideKeeps
<1> QED
  BY <1>1, <1>2, <1>3, <1>4, <1>5, <1>6 DEF ReadinessRun

-----------------------------------------------------------------------------
(* The invariant. *)

LEMMA IssueInitEstablishes == Init => IssueInv
<1> SUFFICES ASSUME Init PROVE IssueInv
  OBVIOUS
<1>1. run = NoRun /\ run.pc = "idle" /\ pending = <<>> /\ clock = 0
      /\ applied = [d \in Dispatches |-> 0] /\ unrecorded = [d \in Dispatches |-> 0]
      /\ activation \in Activations
  BY DEF Init, NoRun
<1>2. PICK s, b, c :
        /\ issue = [statuses |-> {s}, foreign |-> {}, open |-> TRUE, reason |-> "none",
                    body |-> b, at |-> 0,
                    assignees |-> IF s \in {"inProgress"} \cup Tracked
                                  THEN {CHOOSE w \in Writers : TRUE} ELSE {}]
        /\ comments = <<>> \/ comments = <<c>>
  BY DEF Init
<1>3. IssueRecord(issue) /\ issue.at = 0
  BY <1>2 DEF IssueRecord
<1>4. IsSequence(comments)
  <2>1. IsSequence(<<>>)
    BY DEF IsSequence
  <2>2. IsSequence(<<c>>)
    BY DEF IsSequence
  <2> QED BY <1>2, <2>1, <2>2
<1>5. prs = [p \in PRs |-> prs[p]] /\ \A p \in PRs : PullRecord(prs[p])
  <2>1. PICK p \in PRs, h \in Heads, opened \in BOOLEAN :
          /\ prs = [q \in PRs |-> IF opened /\ q = p
                                  THEN [state |-> "open", head |-> h, at |-> 0]
                                  ELSE NoPullRequest]
          /\ statuses = [g \in Heads |-> IF opened /\ g = h THEN Contexts ELSE {}]
    BY DEF Init
  <2> QED BY <2>1 DEF PullRecord, NoPullRequest
<1>6. WorldInv
  BY <1>1, <1>3, <1>4, <1>5, IssueAssumption DEF WorldInv
<1>7. QueueInv
  <2>1. IsSequence(<<>>) /\ DOMAIN <<>> = {}
    BY DEF IsSequence
  <2> QED BY <1>1, <2>1 DEF QueueInv
<1>8. RunInv
  BY <1>1 DEF RunInv, Working, Decided, Aside, Calling
<1>9. SnapshotInv /\ PairInv /\ LawInv /\ FreshInv
  BY <1>1 DEF SnapshotInv, PairInv, LawInv, FreshInv, HasRead, Decided
<1>10. CountInv
  BY <1>1 DEF CountInv, Both
<1> QED
  BY <1>6, <1>7, <1>8, <1>9, <1>10 DEF IssueInv

LEMMA IssueNextKeeps == IssueInv /\ [Next]_vars => IssueInv'
<1> SUFFICES ASSUME IssueInv, [Next]_vars PROVE IssueInv'
  OBVIOUS
<1>1. CASE People /\ held' = Consistent
  BY <1>1, PeopleMove, OthersKeep DEF IssueInv
<1>2. CASE Lifecycle /\ held' = Consistent
  BY <1>2, TakeEventKeeps, LoadIssueKeeps, LoadCommentsKeeps, LoadInventoryKeeps,
     DecideKeeps, RereadsKeep, ReplaceKeeps, DeletesKeep, NothingToRemoveKeeps,
     ReadBackKeeps, RestoreKeeps, FinalizeKeeps, Zenon DEF Lifecycle
<1>3. CASE ReadinessRun
  BY <1>3, ReadinessKeeps
<1>4. CASE (ContractCheck \/ CheckDies) /\ held' = Consistent
  BY <1>4, ChecksMove, OthersKeep DEF IssueInv
<1>5. CASE WriteFails \/ RunDies
  BY <1>5, WriteFailsKeeps, RunDiesKeeps
<1>6. CASE UNCHANGED vars
  BY <1>6 DEF vars, IssueInv, WorldInv, QueueInv, RunInv, SnapshotInv, PairInv, LawInv,
     FreshInv, CountInv, Enabled, HasRead, StaleIssue, StaleComments, Lawful, Earned,
     Merged, Unseen, Both, Concluding
<1> QED
  BY <1>1, <1>2, <1>3, <1>4, <1>5, <1>6 DEF Next, Faults

LEMMA IssueInvariant == Spec => []IssueInv
BY IssueInitEstablishes, IssueNextKeeps, PTL DEF Spec

(* A status is only replaced along an edge of the contract's table, or by  *)
(* new, whichever rule of quality/issue-lifecycle-readiness.mjs chose it.  *)
THEOREM ReplacementsFollowEdges == Spec => []EdgesOnly
<1>1. IssueInv => EdgesOnly
  BY DEF IssueInv, LawInv, Lawful, EdgesOnly, Decided
<1> QED
  BY <1>1, IssueInvariant, PTL

(* However people edit and comment between its reads, a run that reaches   *)
(* its first write decided on an issue and comments that were true at one  *)
(* instant (stableLifecycleInputs).                                        *)
THEOREM WritesRestOnOneInstant == Spec => []DecidedOnOneInstant
<1>1. IssueInv => DecidedOnOneInstant
  BY DEF IssueInv, PairInv, DecidedOnOneInstant
<1> QED
  BY <1>1, IssueInvariant, PTL

(* A request is applied once more often than its observation comment was   *)
(* lost, at most, and so are two requests of one identity together         *)
(* (lifecycleRequestReplay).                                               *)
THEOREM RequestsAreAppliedOnce == Spec => []AppliedOnce
<1>1. IssueInv => AppliedOnce
  <2> SUFFICES ASSUME IssueInv, NEW d \in Dispatches, NEW e \in Dispatches, d.id = e.id
               PROVE  applied[d] + (IF d = e THEN 0 ELSE applied[e])
                        <= 1 + unrecorded[d] + (IF d = e THEN 0 ELSE unrecorded[e])
    BY DEF AppliedOnce
  <2>1. Both(applied, d, e) <= 1 + Both(unrecorded, d, e)
    BY DEF IssueInv, CountInv
  <2>2. applied \in [Dispatches -> Nat] /\ unrecorded \in [Dispatches -> Nat]
    BY DEF IssueInv, WorldInv
  <2> QED BY <2>1, <2>2 DEF Both
<1> QED
  BY <1>1, IssueInvariant, PTL

(* Done is written only beside a merged pull request, and only over review *)
(* or done (finalDeliveryEvidence, currentMergedPullRequestEvidence).      *)
THEOREM DoneIsAlwaysEarned == Spec => []DoneIsEarned
<1>1. IssueInv => DoneIsEarned
  BY DEF IssueInv, LawInv, Lawful, Earned, Merged, DoneIsEarned, Decided
<1> QED
  BY <1>1, IssueInvariant, PTL

-----------------------------------------------------------------------------
(* The readiness action (while the activation is not "enabled").           *)

(* Which calls a run still has to make.                                    *)
Recording == {"accepted", "rejected"}
Has(calls, ops) == \E k \in DOMAIN calls : calls[k].op \in ops
Warned(calls) ==
  \A k \in DOMAIN calls : calls[k].op = "rejected" =>
    \E j \in DOMAIN calls : k < j /\ calls[j].op = "invalidate"

(* What an event carries shows the body of the issue, and all its labels   *)
(* but a new that a run has added.                                         *)
Shows(i) == i.body = issue.body /\ issue.statuses \subseteq i.statuses \cup {"new"}

ShownInv ==
  /\ pending # <<>> =>
       /\ pending = <<Head(pending)>> /\ Shows(Head(pending).payload)
       /\ IsFiniteSet(Head(pending).payload.statuses)
  /\ run.pc \in Calling =>
       /\ IsFiniteSet(run.issue.statuses)
       /\ pending = <<>> => Shows(run.issue)

CallsInv ==
  run.pc \in {"call", "tell"} =>
    /\ IsSequence(run.calls)
    /\ run.ev.kind # "reopened" => Warned(run.calls)
    /\ run.pc = "tell" => run.calls # <<>> /\ Head(run.calls).op = "invalidate"

(* The last record fits the issue, or the run will record another.         *)
Fit == LastRecord(comments).accepted /\ HasCurrent(issue) => LastRecord(comments).fp = issue.body
FitInv ==
  ~refused.last /\ pending = <<>> =>
    \/ run.pc = "readiness"
    \/ run.pc \in {"call", "tell"} /\ Has(run.calls, Recording)
    \/ Fit

(* A check that found the issue accepted read before the pull requests     *)
(* were listed; what it publishes behind the rejection is accounted for.   *)
OnTime(p) ==
  /\ checks[p] # NoCheck /\ "comments" \notin checks[p].todo /\ checks[p].granted # {}
  /\ ~checks[p].terminal /\ p \notin late
Excused(p) ==
  \/ Checking(p) \/ prs[p].head \in missed \/ Delivered(prs[p].head)
  \/ run.pc = "tell" /\ prs[p].head \in run.heads

(* A rejection has reached the pull requests, or the run will tell them.   *)
Warning == run.pc = "call" /\ Has(run.calls, {"invalidate"})
Told ==
  \A p \in PRs : ~OnTime(p) /\ (prs[p].state = "open" /\ Green(p) => Excused(p))
ToldInv == ~refused.ever /\ Rejected => Warning \/ Told

(* The check under way, or the one that waits behind it, is of the head of *)
(* its pull request, and a terminal one is of a merged pull request.       *)
CheckRecord(c) ==
  c = [pc |-> c.pc, head |-> c.head, terminal |-> c.terminal, at |-> c.at,
       asked |-> c.asked, granted |-> c.granted, same |-> c.same, todo |-> c.todo]
ChecksInv ==
  /\ statuses = [h \in Heads |-> statuses[h]]
  /\ checks = [p \in PRs |-> checks[p]] /\ queued = [p \in PRs |-> queued[p]]
  /\ \A p \in PRs :
       /\ prs[p].state # "none" => prs[p].head \in Heads
       /\ queued[p] # NoCheck => queued[p].head = prs[p].head
       /\ queued[p] # NoCheck /\ queued[p].terminal => prs[p].state = "merged"
       /\ checks[p] # NoCheck =>
            /\ CheckRecord(checks[p]) /\ checks[p].pc \in {"read", "publish"}
            /\ queued[p] = NoCheck => checks[p].head = prs[p].head
            /\ checks[p].terminal => Delivered(checks[p].head)
            /\ checks[p].pc = "publish" =>
                 "comments" \notin checks[p].todo /\ checks[p].granted # {}

(* There is a last record.                                                 *)
LastExists(cs) ==
  Readiness(cs) = {} \/ \E k \in Readiness(cs) : \A j \in Readiness(cs) : k >= j

ReadinessInv ==
  ~Enabled =>
    /\ LastExists(comments) /\ IsFiniteSet(issue.statuses)
    /\ refused = [ever |-> refused.ever, last |-> refused.last]
    /\ ShownInv /\ CallsInv /\ FitInv /\ ToldInv /\ ChecksInv

IssueSafe == IssueInv /\ ReadinessInv

(* Comments are added, and the last record is the last one added.          *)
LEMMA LastOfAppended ==
  ASSUME NEW cs, IsSequence(cs), LastExists(cs), NEW c
  PROVE  LET t == Append(cs, c) IN
         /\ LastExists(t)
         /\ c.kind = "readiness" => Readiness(t) # {} /\ LastRecord(t) = c
         /\ c.kind # "readiness" => Readiness(t) = Readiness(cs) /\ LastRecord(t) = LastRecord(cs)
<1> DEFINE t == Append(cs, c)
           n == Len(cs) + 1
<1>1. /\ DOMAIN t = DOMAIN cs \cup {n} /\ t[n] = c /\ n \in Nat
      /\ \A k \in DOMAIN cs : t[k] = cs[k] /\ k \in Nat /\ k < n
  BY SequenceGrows DEF IsSequence
<1> HIDE DEF t, n
<1>2. CASE c.kind = "readiness"
  <2>1. Readiness(t) = Readiness(cs) \cup {n}
    BY <1>1, <1>2 DEF Readiness
  <2>2. n \in Readiness(t) /\ \A j \in Readiness(t) : n >= j /\ j \in Nat
    BY <1>1, <2>1 DEF Readiness
  <2>3. ASSUME NEW x \in Readiness(t), \A y \in Readiness(t) : x >= y PROVE x = n
    <3>1. x \in Nat /\ n >= x /\ x >= n
      BY <2>2, <2>3
    <3> QED
      BY <1>1, <3>1
  <2>4. Max(Readiness(t)) = n
    BY <2>2, <2>3 DEF Max
  <2>5. LastExists(t) /\ Readiness(t) # {} /\ LastRecord(t) = c
    BY <1>1, <2>2, <2>4 DEF LastExists, LastRecord
  <2> QED
    BY <1>2, <2>5 DEF t
<1>3. CASE c.kind # "readiness"
  <2>1. Readiness(t) = Readiness(cs)
    BY <1>1, <1>3 DEF Readiness
  <2>2. Readiness(cs) # {} => Max(Readiness(cs)) \in DOMAIN cs
    BY DEF LastExists, Max, Readiness
  <2>3. LastExists(t) /\ LastRecord(t) = LastRecord(cs)
    BY <1>1, <2>1, <2>2 DEF LastExists, LastRecord
  <2> QED
    BY <1>3, <2>1, <2>3 DEF t
<1> QED
  BY <1>2, <1>3

(* What is left of a sequence after its first entry.                       *)
LEMMA TailIs ==
  ASSUME NEW s, IsSequence(s), s # <<>>
  PROVE  /\ IsSequence(Tail(s)) /\ Len(Tail(s)) = Len(s) - 1 /\ 1 \in DOMAIN s
         /\ Head(s) = s[1]
         /\ \A k \in DOMAIN Tail(s) : k + 1 \in DOMAIN s /\ Tail(s)[k] = s[k + 1]
         /\ \A k \in DOMAIN s : k = 1 \/ (k - 1 \in DOMAIN Tail(s) /\ Tail(s)[k - 1] = s[k])
<1> DEFINE S == {s[k] : k \in 1 .. Len(s)}
           t == Tail(s)
<1>1. s \in [1 .. Len(s) -> S] /\ Len(s) \in Nat
  BY DEF IsSequence
<1> HIDE DEF S
<1>2. s \in Seq(S)
  BY <1>1
<1>3. Len(s) # 0
  BY <1>2
<1>4. /\ t \in Seq(S) /\ Len(t) = Len(s) - 1 /\ Head(s) = s[1]
      /\ \A k \in 1 .. Len(t) : t[k] = s[k + 1]
  BY <1>1, <1>2, <1>3
<1> HIDE DEF t
<1>5. DOMAIN s = 1 .. Len(s) /\ DOMAIN t = 1 .. Len(t) /\ t = [k \in 1 .. Len(t) |-> t[k]]
  BY <1>1, <1>2, <1>4
<1>6. \A k \in DOMAIN s : k = 1 \/ (k - 1 \in DOMAIN t /\ t[k - 1] = s[k])
  BY <1>1, <1>3, <1>4, <1>5
<1>7. \A k \in DOMAIN t : k + 1 \in DOMAIN s /\ t[k] = s[k + 1]
  BY <1>1, <1>3, <1>4, <1>5
<1> QED
  BY <1>1, <1>3, <1>4, <1>5, <1>6, <1>7 DEF IsSequence, t

(* The removal of each label, in some order.                               *)
LEMMA RemovalsAre ==
  ASSUME NEW ss, IsFiniteSet(ss)
  PROVE  Removals(ss) \in Seq({Drop(s) : s \in ss})
<1> DEFINE S == {Drop(s) : s \in ss}
<1>1. IsFiniteSet(S)
  <2> DEFINE f == [s \in ss |-> Drop(s)]
  <2>1. f \in Surjection(ss, S)
    BY DEF Surjection
  <2> QED
    BY <2>1, FS_Surjection
<1> HIDE DEF S
<1>2. PICK n \in Nat : ExistsBijection(1 .. n, S)
  BY <1>1, FS_NatBijection
<1>3. Cardinality(S) = n
  BY <1>2, FS_CountingElements
<1>4. \E f \in [1 .. Cardinality(S) -> S] : IsInjective(f)
  BY <1>2, <1>3 DEF ExistsBijection, Bijection, Injection, IsInjective
<1>5. SetToSeq(S) \in [1 .. Cardinality(S) -> S]
  BY <1>4 DEF SetToSeq
<1>6. SetToSeq(S) \in Seq(S)
  BY <1>3, <1>5
<1> QED
  BY <1>6 DEF Removals, S

(* One sequence after another.                                             *)
LEMMA Joined ==
  ASSUME NEW S, NEW a \in Seq(S), NEW b \in Seq(S)
  PROVE  /\ a \o b \in Seq(S) /\ DOMAIN (a \o b) = 1 .. Len(a) + Len(b)
         /\ \A k \in DOMAIN a : (a \o b)[k] = a[k]
         /\ \A k \in DOMAIN b : Len(a) + k \in DOMAIN (a \o b) /\ (a \o b)[Len(a) + k] = b[k]
         /\ \A k \in DOMAIN (a \o b) : k \in DOMAIN a \/ k - Len(a) \in DOMAIN b
<1>1. /\ a \o b \in Seq(S) /\ Len(a \o b) = Len(a) + Len(b)
      /\ \A k \in 1 .. Len(a) + Len(b) : (a \o b)[k] = IF k <= Len(a) THEN a[k] ELSE b[k - Len(a)]
  BY ConcatProperties
<1>2. Len(a) \in Nat /\ Len(b) \in Nat /\ DOMAIN a = 1 .. Len(a) /\ DOMAIN b = 1 .. Len(b)
      /\ DOMAIN (a \o b) = 1 .. Len(a \o b)
  BY <1>1
<1> DEFINE t == a \o b
<1> HIDE DEF t
<1> QED
  BY <1>1, <1>2 DEF t

(* A rejection that ends a gesture names every removal, its record, and    *)
(* then the pull requests; a reopening ends with its record.               *)
LEMMA CallsAre ==
  ASSUME NEW decision, NEW ev, NEW i, IsFiniteSet(i.statuses)
  PROVE  LET calls == Calls(decision, ev, i) IN
         /\ IsSequence(calls)
         /\ decision \in {"accept", "reject", "lifecycleOwned"} => Has(calls, Recording)
         /\ ev.kind # "reopened" => Warned(calls)
<1> DEFINE calls == Calls(decision, ev, i)
           Names == {"accepted", "rejected", "invalidate", "unchanged", "add", "soleNew"}
           D == {Drop(s) : s \in i.statuses}
           S == D \cup {Drop("new"), Drop("triaged")} \cup {Op(x) : x \in Names}
           drops == Removals(i.statuses)
<1>1. drops \in Seq(D)
  BY RemovalsAre
<1>2. /\ \A x \in D : x.op = "remove"
      /\ \A x : Op(x).op = x
      /\ \A x : Drop(x).op = "remove"
  BY DEF Drop, Op
<1>3. drops \in Seq(S) /\ (\A k \in DOMAIN drops : drops[k].op = "remove")
  <2>1. D \subseteq S
    OBVIOUS
  <2> HIDE DEF D, S, drops
  <2> QED
    BY <1>1, <1>2, <2>1
<1>4. \A x \in Names : Op(x) \in S
  OBVIOUS
<1>5. Drop("new") \in S /\ Drop("triaged") \in S
  OBVIOUS
<1>6. \A s \in Seq(S) : IsSequence(s)
  BY DEF IsSequence
<1> HIDE DEF D, S, drops
<1>7. CASE decision = "accept"
  <2> DEFINE d1 == Drop("new")
             d2 == Drop("triaged")
             a == Op("accepted")
  <2>1. calls = <<d1, d2, a>>
    BY <1>7 DEF Calls
  <2>2. d1.op = "remove" /\ d2.op = "remove" /\ a.op = "accepted"
    BY <1>2
  <2> HIDE DEF d1, d2, a
  <2>3. DOMAIN calls = {1, 2, 3} /\ calls[1] = d1 /\ calls[2] = d2 /\ calls[3] = a
    BY <2>1
  <2>4. IsSequence(calls)
    BY <2>1 DEF IsSequence
  <2> HIDE DEF calls
  <2>5. Has(calls, Recording) /\ Warned(calls)
    BY <2>2, <2>3 DEF Has, Recording, Warned
  <2> QED
    BY <2>4, <2>5 DEF calls
<1>8. CASE decision = "lifecycleOwned"
  <2> DEFINE r == Op("rejected")
             n == Op("invalidate")
  <2>1. calls = <<r, n>>
    BY <1>8 DEF Calls
  <2>2. r.op = "rejected" /\ n.op = "invalidate"
    BY <1>2
  <2> HIDE DEF r, n
  <2>3. DOMAIN calls = {1, 2} /\ calls[1] = r /\ calls[2] = n
    BY <2>1
  <2>4. IsSequence(calls)
    BY <2>1 DEF IsSequence
  <2> HIDE DEF calls
  <2>5. Has(calls, Recording) /\ Warned(calls)
    BY <2>2, <2>3 DEF Has, Recording, Warned
  <2> QED
    BY <2>4, <2>5 DEF calls
<1>9. CASE decision = "reject" /\ ev.kind = "reopened"
  <2> DEFINE x == Op("rejected")
             first == <<Op("unchanged"), Op("invalidate")>>
             last == <<Op("add"), Op("soleNew"), x>>
             a == first \o drops
  <2>1. calls = a \o last
    BY <1>9 DEF Calls, drops
  <2>2. first \in Seq(S) /\ last \in Seq(S) /\ 3 \in DOMAIN last /\ last[3] = x /\ x.op = "rejected"
    BY <1>2, <1>4
  <2> HIDE DEF first, last, x
  <2>3. a \in Seq(S)
    BY <1>3, <2>2, Joined
  <2> HIDE DEF a, calls
  <2>4. calls \in Seq(S) /\ Len(a) + 3 \in DOMAIN calls /\ calls[Len(a) + 3] = x
    BY <2>1, <2>2, <2>3, Joined
  <2>5. Has(calls, Recording)
    BY <2>2, <2>4 DEF Has, Recording
  <2> QED
    BY <1>6, <1>9, <2>4, <2>5 DEF calls
<1>10. CASE decision = "reject" /\ ev.kind # "reopened"
  <2> DEFINE x == Op("add")
             y == Op("rejected")
             z == Op("invalidate")
             last == <<x, y, z>>
  <2>1. calls = drops \o last
    BY <1>10 DEF Calls, drops
  <2>2. last \in Seq(S)
    BY <1>4
  <2>3. x.op = "add" /\ y.op = "rejected" /\ z.op = "invalidate"
    BY <1>2
  <2> HIDE DEF x, y, z
  <2>4. DOMAIN last = {1, 2, 3} /\ last[1] = x /\ last[2] = y /\ last[3] = z
    OBVIOUS
  <2> HIDE DEF last, calls
  <2>5. /\ calls \in Seq(S)
        /\ \A k \in DOMAIN drops : calls[k] = drops[k]
        /\ \A k \in DOMAIN last : Len(drops) + k \in DOMAIN calls /\ calls[Len(drops) + k] = last[k]
        /\ \A k \in DOMAIN calls : k \in DOMAIN drops \/ k - Len(drops) \in DOMAIN last
    BY <1>3, <2>1, <2>2, Joined
  <2>6. Has(calls, Recording)
    BY <2>3, <2>4, <2>5 DEF Has, Recording
  <2>7. Warned(calls)
    <3> SUFFICES ASSUME NEW k \in DOMAIN calls, calls[k].op = "rejected"
                 PROVE  \E j \in DOMAIN calls : k < j /\ calls[j].op = "invalidate"
      BY DEF Warned
    <3>1. k \notin DOMAIN drops
      BY <1>3, <2>5
    <3>2. PICK m \in {1, 2, 3} : k - Len(drops) = m
      BY <2>4, <2>5, <3>1
    <3>3. Len(drops) \in Nat /\ k \in Nat
      BY <1>3, <2>5
    <3>4. (k = Len(drops) + m /\ k < Len(drops) + 3) \/ m = 3
      BY <3>2, <3>3
    <3>5. m # 3
      <4>1. SUFFICES ASSUME m = 3 PROVE FALSE
        OBVIOUS
      <4>2. k = Len(drops) + 3
        BY <3>2, <3>3, <4>1
      <4> QED
        BY <2>3, <2>4, <2>5, <4>2
    <3>6. k < Len(drops) + 3 /\ Len(drops) + 3 \in DOMAIN calls /\ calls[Len(drops) + 3] = z
      BY <2>4, <2>5, <3>4, <3>5
    <3> QED
      BY <2>3, <3>6
  <2> QED
    BY <1>6, <2>5, <2>6, <2>7 DEF calls
<1>11. CASE decision \notin {"accept", "lifecycleOwned", "reject"}
  <2> DEFINE n == Op("invalidate")
  <2>1. calls = <<n>> \/ calls = <<>>
    BY <1>11 DEF Calls
  <2>2. n.op = "invalidate"
    BY <1>2
  <2> HIDE DEF n
  <2>3. \A k \in DOMAIN calls : calls[k] = n
    BY <2>1
  <2>4. IsSequence(calls)
    <3>1. IsSequence(<<>>)
      BY DEF IsSequence
    <3>2. IsSequence(<<n>>)
      BY DEF IsSequence
    <3> HIDE DEF calls
    <3> QED
      BY <2>1, <3>1, <3>2
  <2> HIDE DEF calls
  <2>5. Warned(calls)
    BY <2>2, <2>3 DEF Warned
  <2> QED
    BY <1>11, <2>4, <2>5 DEF calls
<1> QED
  BY <1>7, <1>8, <1>9, <1>10, <1>11

(* A step that leaves the pull requests and their checks alone.            *)
Pulls == <<prs, statuses, checks, queued, late, missed>>

LEMMA ToldStays ==
  ASSUME UNCHANGED Pulls, Told, run.pc # "tell" \/ run' = run \/ run.heads = {}
  PROVE  Told'
<1>1. \A p \in PRs : OnTime(p)' <=> OnTime(p)
  BY DEF OnTime, Pulls
<1>2. \A p \in PRs : Excused(p) => Excused(p)'
  BY DEF Excused, Checking, Delivered, Pulls
<1>3. \A p \in PRs : Green(p)' <=> Green(p)
  BY DEF Green, Pulls
<1> QED
  BY <1>1, <1>2, <1>3 DEF Told, Pulls

LEMMA ChecksStay == ASSUME UNCHANGED Pulls, ChecksInv PROVE ChecksInv'
<1>1. \A h : Delivered(h)' <=> Delivered(h)
  BY DEF Delivered, Pulls
<1> QED
  BY <1>1 DEF Pulls, ChecksInv

LEMMA ProviderStays == ASSUME Provider PROVE UNCHANGED Pulls /\ UNCHANGED <<activation, pending>>
BY DEF Provider, Contract, Pulls

(* A step that leaves the queue, the run and the last record alone.        *)
LEMMA BesideReadiness ==
  ASSUME ReadinessInv, ~Enabled, UNCHANGED <<activation, pending, run, refused>>,
         issue'.body = issue.body, issue'.statuses = issue.statuses,
         LastExists(comments'), (Readiness(comments') = {}) <=> (Readiness(comments) = {}),
         LastRecord(comments') = LastRecord(comments),
         ~refused.ever /\ Rejected /\ ~Warning /\ Told => Told', ChecksInv'
  PROVE  ReadinessInv'
<1>1. ShownInv'
  BY DEF ReadinessInv, ShownInv, Shows
<1>2. CallsInv'
  BY DEF ReadinessInv, CallsInv
<1>3. FitInv'
  BY DEF ReadinessInv, FitInv, Fit, HasCurrent
<1>4. ToldInv'
  <2>1. Rejected' <=> Rejected
    BY DEF Rejected
  <2>2. ToldInv
    BY DEF ReadinessInv
  <2>3. Warning' <=> Warning
    BY DEF Warning
  <2> QED
    BY <2>1, <2>2, <2>3 DEF ToldInv
<1>5. LastExists(comments)' /\ IsFiniteSet(issue.statuses)'
      /\ (refused = [ever |-> refused.ever, last |-> refused.last])'
  BY DEF ReadinessInv
<1> QED
  BY <1>1, <1>2, <1>3, <1>4, <1>5 DEF ReadinessInv

(* A gesture replaces the waiting event by one that shows the issue, or it *)
(* changes neither the body nor the labels.                                *)
LEMMA GestureKeepsReadiness ==
  ASSUME IssueInv, ReadinessInv, ~Enabled, NEW i, NEW ev, IssueRecord(i), Gesture(i, ev),
         IsFiniteSet(i.statuses), "kind" \in DOMAIN ev,
         \/ ev.kind \in {"closed", "edited", "labeled", "reopened", "unlabeled"}
         \/ ev.kind \in {"assigned", "unassigned"}
            /\ i.body = issue.body /\ i.statuses = issue.statuses
  PROVE  ReadinessInv'
<1>1. /\ UNCHANGED <<comments, run, activation, refused>> /\ issue' = Stamped(i)
      /\ UNCHANGED Pulls
      /\ Deliver(Carrying(ev, Stamped(i)))
  BY DEF Gesture, History, Pulls
<1>0. (Told => Told') /\ ChecksInv'
  BY <1>1, ToldStays, ChecksStay DEF ReadinessInv
<1>2. issue'.body = i.body /\ issue'.statuses = i.statuses
  <2>1. i = [statuses |-> i.statuses, foreign |-> i.foreign, open |-> i.open,
             reason |-> i.reason, body |-> i.body, at |-> i.at, assignees |-> i.assignees]
    BY DEF IssueRecord
  <2> QED
    BY <1>1, <2>1 DEF Stamped
<1> DEFINE e == Carrying(ev, Stamped(i))
<1>3. e.kind = ev.kind /\ e.payload = issue'
  BY <1>1 DEF Carrying
<1> HIDE DEF e
<1>4. pending' = IF ev.kind \in {"closed", "edited", "labeled", "reopened", "unlabeled"}
                 THEN <<e>> ELSE pending
  BY <1>1, <1>3 DEF Deliver, e
<1>5. CASE ev.kind \in {"closed", "edited", "labeled", "reopened", "unlabeled"}
  <2>1. pending' = <<e>> /\ Head(pending') = e /\ pending' # <<>>
    BY <1>4, <1>5
  <2>2. ShownInv'
    BY <1>1, <1>2, <1>3, <2>1 DEF ReadinessInv, ShownInv, Shows
  <2>3. CallsInv' /\ FitInv'
    BY <1>1, <2>1 DEF ReadinessInv, CallsInv, FitInv
  <2>4. ToldInv'
    BY <1>0, <1>1 DEF ReadinessInv, ToldInv, Rejected, Warning
  <2> QED
    BY <1>0, <1>1, <1>2, <2>2, <2>3, <2>4 DEF ReadinessInv
<1>6. CASE ev.kind \in {"assigned", "unassigned"}
  <2>1. pending' = pending
    BY <1>4, <1>6
  <2> QED
    BY <1>0, <1>1, <1>2, <1>6, <2>1, BesideReadiness DEF ReadinessInv
<1> QED
  BY <1>5, <1>6


(* What people do to the issue.                                            *)
LEMMA GesturesKeepReadiness ==
  ASSUME IssueInv, ReadinessInv, ~Enabled,
         \/ AddStatus \/ DropStatus \/ AddForeign \/ EditBody
         \/ Assign \/ Unassign \/ CloseIssue \/ Reopen
  PROVE  ReadinessInv'
<1>0. /\ issue = [statuses |-> issue.statuses, foreign |-> issue.foreign,
                  open |-> issue.open, reason |-> issue.reason, body |-> issue.body,
                  at |-> issue.at, assignees |-> issue.assignees]
      /\ issue.at \in Nat /\ IsFiniteSet(issue.statuses)
  BY DEF IssueInv, WorldInv, IssueRecord, ReadinessInv
<1>1. ASSUME NEW i, NEW ev, Gesture(i, ev), NEW s, NEW f, NEW o, NEW r, NEW b, NEW w,
             i = [statuses |-> s, foreign |-> f, open |-> o, reason |-> r, body |-> b,
                  at |-> issue.at, assignees |-> w],
             IsFiniteSet(s), "kind" \in DOMAIN ev,
             \/ ev.kind \in {"closed", "edited", "labeled", "reopened", "unlabeled"}
             \/ ev.kind \in {"assigned", "unassigned"} /\ b = issue.body /\ s = issue.statuses
      PROVE  ReadinessInv'
  <2>1. IssueRecord(i) /\ i.statuses = s /\ i.body = b
    BY <1>0, <1>1 DEF IssueRecord
  <2> QED
    BY <1>1, <2>1, GestureKeepsReadiness
<1>2. CASE AddStatus
  <2>1. PICK a \in Actors, s \in Gestures \ issue.statuses :
          Gesture([issue EXCEPT !.statuses = @ \cup {s}],
                  [kind |-> "labeled", label |-> s, sender |-> a])
    BY <1>2 DEF AddStatus
  <2>2. IsFiniteSet(issue.statuses \cup {s})
    BY <1>0, FS_AddElement
  <2>3. [issue EXCEPT !.statuses = @ \cup {s}] =
          [statuses |-> issue.statuses \cup {s}, foreign |-> issue.foreign,
           open |-> issue.open, reason |-> issue.reason, body |-> issue.body,
           at |-> issue.at, assignees |-> issue.assignees]
    BY <1>0
  <2> QED
    BY <1>1, <2>1, <2>2, <2>3
<1>3. CASE DropStatus
  <2>1. PICK s \in issue.statuses :
          Gesture([issue EXCEPT !.statuses = @ \ {s}], [kind |-> "unlabeled", label |-> s])
    BY <1>3 DEF DropStatus
  <2>2. IsFiniteSet(issue.statuses \ {s})
    BY <1>0, FS_RemoveElement
  <2>3. [issue EXCEPT !.statuses = @ \ {s}] =
          [statuses |-> issue.statuses \ {s}, foreign |-> issue.foreign,
           open |-> issue.open, reason |-> issue.reason, body |-> issue.body,
           at |-> issue.at, assignees |-> issue.assignees]
    BY <1>0
  <2> QED
    BY <1>1, <2>1, <2>2, <2>3
<1>4. CASE AddForeign
  <2>1. PICK l \in Foreign \ issue.foreign :
          Gesture([issue EXCEPT !.foreign = @ \cup {l}], [kind |-> "labeled", label |-> l])
    BY <1>4 DEF AddForeign
  <2>2. [issue EXCEPT !.foreign = @ \cup {l}] =
          [statuses |-> issue.statuses, foreign |-> issue.foreign \cup {l},
           open |-> issue.open, reason |-> issue.reason, body |-> issue.body,
           at |-> issue.at, assignees |-> issue.assignees]
    BY <1>0
  <2> QED
    BY <1>0, <1>1, <2>1, <2>2
<1>5. CASE EditBody
  <2>1. PICK b \in Bodies \ {issue.body} :
          Gesture([issue EXCEPT !.body = b], [kind |-> "edited"])
    BY <1>5 DEF EditBody
  <2>2. [issue EXCEPT !.body = b] =
          [statuses |-> issue.statuses, foreign |-> issue.foreign,
           open |-> issue.open, reason |-> issue.reason, body |-> b,
           at |-> issue.at, assignees |-> issue.assignees]
    BY <1>0
  <2> QED
    BY <1>0, <1>1, <2>1, <2>2
<1>6. CASE Assign
  <2>1. PICK a \in Actors, w \in Actors \ issue.assignees :
          Gesture([issue EXCEPT !.assignees = @ \cup {w}],
                  [kind |-> "assigned", sender |-> a, assignee |-> w])
    BY <1>6 DEF Assign
  <2>2. [issue EXCEPT !.assignees = @ \cup {w}] =
          [statuses |-> issue.statuses, foreign |-> issue.foreign,
           open |-> issue.open, reason |-> issue.reason, body |-> issue.body,
           at |-> issue.at, assignees |-> issue.assignees \cup {w}]
    BY <1>0
  <2> QED
    BY <1>0, <1>1, <2>1, <2>2
<1>7. CASE Unassign
  <2>1. PICK a \in Actors, w \in issue.assignees :
          Gesture([issue EXCEPT !.assignees = @ \ {w}],
                  [kind |-> "unassigned", sender |-> a, assignee |-> w])
    BY <1>7 DEF Unassign
  <2>2. [issue EXCEPT !.assignees = @ \ {w}] =
          [statuses |-> issue.statuses, foreign |-> issue.foreign,
           open |-> issue.open, reason |-> issue.reason, body |-> issue.body,
           at |-> issue.at, assignees |-> issue.assignees \ {w}]
    BY <1>0
  <2> QED
    BY <1>0, <1>1, <2>1, <2>2
<1>8. CASE CloseIssue \/ Reopen
  <2>1. PICK o, r, k :
          /\ k \in {"closed", "reopened"}
          /\ Gesture([issue EXCEPT !.open = o, !.reason = r], [kind |-> k])
    <3>1. CASE CloseIssue
      BY <3>1, Zenon DEF CloseIssue
    <3>2. CASE Reopen
      BY <3>2, Zenon DEF Reopen
    <3> QED
      BY <1>8, <3>1, <3>2
  <2> DEFINE j == [issue EXCEPT !.open = o]
  <2>2. j = [statuses |-> issue.statuses, foreign |-> issue.foreign,
             open |-> o, reason |-> issue.reason, body |-> issue.body,
             at |-> issue.at, assignees |-> issue.assignees]
    BY <1>0
  <2>3. [issue EXCEPT !.open = o, !.reason = r] = [j EXCEPT !.reason = r]
    OBVIOUS
  <2> HIDE DEF j
  <2>4. [issue EXCEPT !.open = o, !.reason = r] =
          [statuses |-> issue.statuses, foreign |-> issue.foreign,
           open |-> o, reason |-> r, body |-> issue.body,
           at |-> issue.at, assignees |-> issue.assignees]
    BY <2>2, <2>3
  <2> QED
    BY <1>0, <1>1, <2>1, <2>4
<1> QED
  BY <1>2, <1>3, <1>4, <1>5, <1>6, <1>7, <1>8

(* Whatever happens to a pull request, a check of its head is asked for.   *)
LEMMA AskedIsChecked ==
  ASSUME IssueInv, ReadinessInv, ~Enabled, NEW p \in PRs, NEW new, PullRecord(new),
         prs' = [prs EXCEPT ![p] = [new EXCEPT !.at = clock + 1]],
         new.state # "none", new.head \in Heads,
         prs[p].state = "merged" => new.state = "merged" /\ new.head = prs[p].head,
         NEW terminal, AskCheck(p, [new EXCEPT !.at = clock + 1], terminal),
         terminal => new.state = "merged",
         UNCHANGED <<statuses, checks, late, missed, run>>
  PROVE  (Told => Told') /\ ChecksInv'
<1> DEFINE q == [new EXCEPT !.at = clock + 1]
           c == [pc |-> "queued", head |-> q.head, terminal |-> terminal,
                 at |-> IF terminal THEN q.at ELSE 0]
<1>1. q.state = new.state /\ q.head = new.head
  BY DEF PullRecord
<1>2. queued' = [queued EXCEPT ![p] = c]
  BY DEF AskCheck
<1>3. c # NoCheck /\ c.head = q.head /\ c.terminal = terminal
  <2>1. c.pc = "queued" /\ c.head = q.head /\ c.terminal = terminal
    OBVIOUS
  <2> HIDE DEF c
  <2> QED
    BY <2>1 DEF NoCheck
<1> HIDE DEF c
<1>4. prs' = [prs EXCEPT ![p] = q] /\ prs = [r \in PRs |-> prs[r]]
  BY DEF IssueInv, WorldInv
<1> HIDE DEF q
<1>5. \A r \in PRs : prs'[r] = IF r = p THEN q ELSE prs[r]
  BY <1>4
<1>6. ChecksInv
  BY DEF ReadinessInv
<1>7. \A r \in PRs : queued'[r] = IF r = p THEN c ELSE queued[r]
  BY <1>2, <1>6 DEF ChecksInv
<1>8. \A h : Delivered(h) => Delivered(h)'
  BY <1>1, <1>5 DEF Delivered
<1>9. ASSUME Told PROVE Told'
  <2> SUFFICES ASSUME NEW r \in PRs
               PROVE  ~OnTime(r)' /\ (prs'[r].state = "open" /\ Green(r)' => Excused(r)')
    BY DEF Told
  <2>1. ~OnTime(r)'
    BY <1>9 DEF Told, OnTime
  <2>2. CASE r = p
    BY <1>3, <1>7, <2>1, <2>2 DEF Excused, Checking
  <2>3. CASE r # p
    <3>1. prs'[r] = prs[r] /\ queued'[r] = queued[r]
      BY <1>5, <1>7, <2>3
    <3>2. prs[r].state = "open" /\ Green(r) => Excused(r)
      BY <1>9 DEF Told
    <3>3. Green(r)' <=> Green(r)
      BY <3>1 DEF Green
    <3>4. Excused(r) => Excused(r)'
      <4>1. ASSUME NEW o \in PRs, prs[o].state = "merged", prs[o].head = prs[r].head
            PROVE  prs'[o].state = "merged" /\ prs'[o].head = prs'[r].head
        <5>1. CASE o = p
          BY <1>1, <1>5, <3>1, <4>1, <5>1
        <5>2. CASE o # p
          BY <1>5, <3>1, <4>1, <5>2
        <5> QED
          BY <5>1, <5>2
      <4>2. Delivered(prs[r].head) => Delivered(prs[r].head)'
        BY <4>1, Zenon DEF Delivered
      <4>3. Checking(r) => Checking(r)'
        BY <3>1 DEF Checking
      <4>4. UNCHANGED missed /\ UNCHANGED run
        OBVIOUS
      <4>5. prs[r].head \in missed => (prs[r].head \in missed)'
        BY <3>1, <4>4, Zenon
      <4>6. run.pc = "tell" /\ prs[r].head \in run.heads =>
              (run.pc = "tell" /\ prs[r].head \in run.heads)'
        BY <3>1, <4>4, Zenon
      <4> QED
        BY <4>2, <4>3, <4>5, <4>6 DEF Excused
    <3> QED
      BY <2>1, <3>1, <3>2, <3>3, <3>4
  <2> QED
    BY <2>2, <2>3
<1>10. queued' = [r \in PRs |-> queued'[r]]
  BY <1>2, <1>6 DEF ChecksInv
<1>11. ASSUME NEW r \in PRs
       PROVE  /\ prs'[r].state # "none" => prs'[r].head \in Heads
              /\ queued'[r] # NoCheck => queued'[r].head = prs'[r].head
              /\ queued'[r] # NoCheck /\ queued'[r].terminal => prs'[r].state = "merged"
              /\ queued'[r] = NoCheck /\ checks[r] # NoCheck => checks[r].head = prs'[r].head
  <2>1. CASE r = p
    BY <1>1, <1>3, <1>5, <1>7, <2>1
  <2>2. CASE r # p
    BY <1>5, <1>6, <1>7, <2>2 DEF ChecksInv
  <2> QED
    BY <2>1, <2>2
<1>12. ChecksInv'
  BY <1>6, <1>8, <1>10, <1>11 DEF ChecksInv
<1> QED
  BY <1>9, <1>12

LEMMA PullRequestsKeepReadiness ==
  ASSUME IssueInv, ReadinessInv, ~Enabled,
         \/ OpenPullRequest \/ PushHead \/ ConvertToDraft \/ MergePullRequest
         \/ ClosePullRequest \/ EditPullRequest
  PROVE  ReadinessInv'
<1>0. WorldInv /\ ChecksInv
  BY DEF IssueInv, ReadinessInv
<1>1. ASSUME NEW p \in PRs, NEW new, NEW terminal, PullRecord(new),
             prs' = [prs EXCEPT ![p] = [new EXCEPT !.at = clock + 1]],
             new.state # "none", new.head \in Heads,
             prs[p].state = "merged" => new.state = "merged" /\ new.head = prs[p].head,
             AskCheck(p, [new EXCEPT !.at = clock + 1], terminal),
             terminal => new.state = "merged",
             UNCHANGED <<issue, comments, run, pending>>, UNCHANGED History
      PROVE  ReadinessInv'
  <2>1. UNCHANGED <<statuses, checks, late, missed, activation, refused>>
    BY <1>1 DEF History
  <2>2. (Told => Told') /\ ChecksInv'
    BY <1>1, <2>1, AskedIsChecked
  <2> QED
    BY <1>1, <2>1, <2>2, BesideReadiness DEF ReadinessInv
<1>2. ASSUME NEW p \in PRs, NEW new, NEW kind, PullRequestStep(p, new, kind), PullRecord(new),
             kind \in {"prOpened", "prSynchronize", "prDraft", "prMerged", "prClosed"},
             new.state # "none", new.head \in Heads, prs[p].state # "merged",
             kind = "prMerged" => new.state = "merged"
      PROVE  ReadinessInv'
  <2> DEFINE q == [new EXCEPT !.at = clock + 1]
  <2>1. PICK a \in Actors, ok \in {FALSE, Enabled} :
          /\ prs' = [prs EXCEPT ![p] = q]
          /\ Deliver([kind |-> kind, pr |-> p, snapshot |-> q, sender |-> a, contract |-> ok])
    BY <1>2 DEF PullRequestStep
  <2> DEFINE ev == [kind |-> kind, pr |-> p, snapshot |-> q, sender |-> a, contract |-> ok]
  <2>2. ev.kind = kind /\ Deliver(ev)
    BY <2>1
  <2> HIDE DEF ev
  <2>3. pending' = pending
    BY <1>2, <2>2 DEF Deliver
  <2>4. AskCheck(p, q, kind = "prMerged")
    BY <1>2 DEF PullRequestStep
  <2>5. UNCHANGED <<issue, comments, run>> /\ UNCHANGED History
    BY <1>2 DEF PullRequestStep
  <2> QED
    BY <1>1, <1>2, <2>1, <2>3, <2>4, <2>5
<1>3. CASE OpenPullRequest
  <2>1. PICK p \in PRs, h \in Heads :
          /\ prs[p].state \in {"none", "closed"}
          /\ PullRequestStep(p, [state |-> "open", head |-> h, at |-> clock + 1], "prOpened")
    BY <1>3 DEF OpenPullRequest
  <2> DEFINE new == [state |-> "open", head |-> h, at |-> clock + 1]
  <2>2. PullRecord(new) /\ new.state = "open" /\ new.head = h
    BY DEF PullRecord
  <2>3. PullRequestStep(p, new, "prOpened")
    BY <2>1
  <2> HIDE DEF new
  <2> QED
    BY <1>2, <2>1, <2>2, <2>3
<1>4. CASE PushHead
  <2>1. PICK p \in PRs : \E h \in Heads \ {prs[p].head} :
          /\ prs[p].state = "open"
          /\ PullRequestStep(p, [prs[p] EXCEPT !.head = h], "prSynchronize")
    BY <1>4 DEF PushHead
  <2>2. PICK h \in Heads : PullRequestStep(p, [prs[p] EXCEPT !.head = h], "prSynchronize")
    BY <2>1
  <2> DEFINE new == [prs[p] EXCEPT !.head = h]
  <2>3. PullRecord(new) /\ new.state = "open" /\ new.head = h
    BY <1>0, <2>1, PullRecords
  <2>4. PullRequestStep(p, new, "prSynchronize")
    BY <2>2
  <2> HIDE DEF new
  <2> QED
    BY <1>2, <2>1, <2>3, <2>4
<1>5. CASE ConvertToDraft
  <2>1. PICK p \in PRs : prs[p].state = "open" /\ PullRequestStep(p, prs[p], "prDraft")
    BY <1>5 DEF ConvertToDraft
  <2>2. PullRecord(prs[p]) /\ prs[p].head \in Heads
    BY <1>0, <2>1, PullRecords DEF ChecksInv
  <2> QED
    BY <1>2, <2>1, <2>2
<1>6. CASE MergePullRequest \/ ClosePullRequest
  <2>1. PICK p \in PRs, s \in {"merged", "closed"}, kind \in {"prMerged", "prClosed"} :
          /\ prs[p].state = "open" /\ (kind = "prMerged" => s = "merged")
          /\ PullRequestStep(p, [prs[p] EXCEPT !.state = s], kind)
    BY <1>6 DEF MergePullRequest, ClosePullRequest
  <2> DEFINE new == [prs[p] EXCEPT !.state = s]
  <2>2. PullRecord(new) /\ new.state = s /\ new.head = prs[p].head
    BY <1>0, PullRecords
  <2>3. PullRequestStep(p, new, kind)
    BY <2>1
  <2>4. prs[p].head \in Heads
    BY <1>0, <2>1 DEF ChecksInv
  <2> HIDE DEF new
  <2> QED
    BY <1>2, <2>1, <2>2, <2>3, <2>4
<1>7. CASE EditPullRequest
  <2>1. PICK p \in PRs :
          /\ prs[p].state # "none"
          /\ prs' = [prs EXCEPT ![p] = [prs[p] EXCEPT !.at = clock + 1]]
          /\ AskCheck(p, [prs[p] EXCEPT !.at = clock + 1], FALSE)
    BY <1>7 DEF EditPullRequest
  <2>2. UNCHANGED <<issue, comments, run, pending>> /\ UNCHANGED History
    BY <1>7 DEF EditPullRequest
  <2>3. PullRecord(prs[p]) /\ prs[p].head \in Heads
    BY <1>0, <2>1, PullRecords DEF ChecksInv
  <2> QED
    BY <1>1, <2>1, <2>2, <2>3
<1> QED
  BY <1>3, <1>4, <1>5, <1>6, <1>7

LEMMA PeopleKeepReadiness == ASSUME IssueInv, ReadinessInv, ~Enabled, People PROVE ReadinessInv'
<1>1. CASE Comment
  <2>1. /\ issue' = Stamped(issue) /\ UNCHANGED <<pending, run, activation, refused>>
        /\ UNCHANGED Pulls
        /\ comments' = comments \/ comments' = Append(comments, [kind |-> "forged"])
    BY <1>1 DEF Comment, History, Pulls
  <2>2. issue'.body = issue.body /\ issue'.statuses = issue.statuses
    BY <2>1 DEF IssueInv, WorldInv, IssueRecord, Stamped
  <2>3. /\ LastExists(comments') /\ Readiness(comments') = Readiness(comments)
        /\ LastRecord(comments') = LastRecord(comments)
    <3>1. [kind |-> "forged"].kind # "readiness" /\ IsSequence(comments) /\ LastExists(comments)
      BY DEF IssueInv, WorldInv, ReadinessInv
    <3>2. CASE comments' = comments
      BY <3>1, <3>2
    <3>3. CASE comments' = Append(comments, [kind |-> "forged"])
      BY <3>1, <3>3, LastOfAppended
    <3> QED
      BY <2>1, <3>2, <3>3
  <2>4. (Told => Told') /\ ChecksInv'
    BY <2>1, ToldStays, ChecksStay DEF ReadinessInv
  <2> QED
    BY <2>1, <2>2, <2>3, <2>4, BesideReadiness
<1>2. CASE ChangeInventory
  <2>1. /\ UNCHANGED <<issue, comments, pending, run, activation, refused>>
        /\ UNCHANGED Pulls
    BY <1>2 DEF ChangeInventory, History, Pulls
  <2>2. (Told => Told') /\ ChecksInv'
    BY <2>1, ToldStays, ChecksStay DEF ReadinessInv
  <2> QED
    BY <2>1, <2>2, BesideReadiness DEF ReadinessInv
<1>3. ~Dispatch
  BY DEF Dispatch
<1> QED
  BY <1>1, <1>2, <1>3, GesturesKeepReadiness, PullRequestsKeepReadiness DEF People


(* A call that is made leaves the others to be made.                       *)
LEMMA FinishedLeaves ==
  ASSUME IssueInv, ReadinessInv, ~Enabled, run.pc \in {"call", "tell"}, run.calls # <<>>,
         Finished
  PROVE  /\ CallsInv'
         /\ run' = NoRun \/ (run'.pc = "call" /\ run'.issue = run.issue)
         /\ run' = NoRun => run'.pc = "idle"
         /\ \A ops : Has(run.calls, ops) /\ Head(run.calls).op \notin ops
              => run'.pc = "call" /\ Has(run'.calls, ops)
         /\ Head(run.calls).op = "rejected" /\ run.ev.kind # "reopened"
              => run'.pc = "call" /\ Has(run'.calls, {"invalidate"})
<1> DEFINE c == run.calls
           t == Tail(c)
           r == [run EXCEPT !.pc = "call"]
<1>1. /\ run = [pc |-> run.pc, ev |-> run.ev, issue |-> run.issue, calls |-> c, heads |-> run.heads]
      /\ IsSequence(c) /\ c # <<>> /\ (run.ev.kind # "reopened" => Warned(c))
  BY DEF IssueInv, RunInv, ReadinessShape, ReadinessInv, CallsInv, Calling
<1> HIDE DEF c
<1>2. /\ IsSequence(t) /\ Len(t) = Len(c) - 1 /\ 1 \in DOMAIN c /\ Head(c) = c[1]
      /\ \A k \in DOMAIN t : k + 1 \in DOMAIN c /\ t[k] = c[k + 1]
      /\ \A k \in DOMAIN c : k = 1 \/ (k - 1 \in DOMAIN t /\ t[k - 1] = c[k])
  BY <1>1, TailIs
<1>3. /\ DOMAIN c = 1 .. Len(c) /\ DOMAIN t = 1 .. Len(t) /\ Len(c) \in Nat /\ Len(t) \in Nat
  BY <1>1, <1>2 DEF IsSequence
<1>4. run' = IF Len(c) = 1 THEN NoRun ELSE [r EXCEPT !.calls = t]
  BY DEF Finished, c
<1> HIDE DEF t
<1>12. r = [pc |-> "call", ev |-> run.ev, issue |-> run.issue, calls |-> c, heads |-> run.heads]
  BY <1>1
<1> HIDE DEF r
<1>5. IF Len(c) = 1 THEN run' = NoRun
      ELSE run' = [pc |-> "call", ev |-> run.ev, issue |-> run.issue, calls |-> t,
                   heads |-> run.heads]
  BY <1>4, <1>12
<1>6. NoRun.pc = "idle"
  BY DEF NoRun
<1>7. ASSUME NEW k \in DOMAIN c, k # 1 PROVE Len(c) # 1
  BY <1>3, <1>7
<1>8. \A ops : Has(c, ops) /\ Head(c).op \notin ops => Len(c) # 1 /\ Has(t, ops)
  BY <1>2, <1>7 DEF Has
<1>9. ASSUME Warned(c) PROVE Warned(t)
  <2> SUFFICES ASSUME NEW k \in DOMAIN t, t[k].op = "rejected"
               PROVE  \E j \in DOMAIN t : k < j /\ t[j].op = "invalidate"
    BY DEF Warned
  <2>1. k + 1 \in DOMAIN c /\ c[k + 1].op = "rejected" /\ k \in Nat
    BY <1>2, <1>3
  <2>2. PICK j \in DOMAIN c : k + 1 < j /\ c[j].op = "invalidate"
    BY <1>9, <2>1 DEF Warned
  <2>3. j # 1 /\ k < j - 1
    BY <1>3, <2>1, <2>2
  <2> QED
    BY <1>2, <2>2, <2>3
<1>10. ASSUME Head(c).op = "rejected", Warned(c) PROVE Len(c) # 1 /\ Has(t, {"invalidate"})
  <2>1. PICK j \in DOMAIN c : 1 < j /\ c[j].op = "invalidate"
    BY <1>2, <1>10 DEF Warned
  <2>2. j # 1
    BY <1>3, <2>1
  <2> QED
    BY <1>2, <1>7, <2>1, <2>2 DEF Has
<1>11. CallsInv'
  BY <1>1, <1>2, <1>5, <1>6, <1>9 DEF CallsInv
<1> QED
  BY <1>1, <1>5, <1>6, <1>8, <1>10, <1>11 DEF c

(* A call of a run that records nothing and tells nobody.                  *)
LEMMA QuietCallKeeps ==
  ASSUME IssueInv, ReadinessInv, ~Enabled, run.pc = "call", run.calls # <<>>, Finished,
         Head(run.calls).op \notin Recording \cup {"invalidate"},
         UNCHANGED <<activation, pending, refused, comments>>, UNCHANGED Pulls,
         issue'.body = issue.body, issue'.statuses \subseteq issue.statuses \cup {"new"},
         IsFiniteSet(issue'.statuses)
  PROVE  ReadinessInv'
<1>1. /\ CallsInv'
      /\ run' = NoRun \/ (run'.pc = "call" /\ run'.issue = run.issue)
      /\ run' = NoRun => run'.pc = "idle"
      /\ Has(run.calls, Recording) => run'.pc = "call" /\ Has(run'.calls, Recording)
      /\ Has(run.calls, {"invalidate"}) => run'.pc = "call" /\ Has(run'.calls, {"invalidate"})
  BY FinishedLeaves
<1>2. ShownInv'
  BY <1>1 DEF ReadinessInv, ShownInv, Shows, Calling
<1>3. HasCurrent(issue') => HasCurrent(issue)
  BY DEF HasCurrent, CurrentReadiness, Tracked, Paused
<1>4. FitInv'
  BY <1>1, <1>3 DEF ReadinessInv, FitInv, Fit
<1>5. ToldInv' /\ ChecksInv'
  BY <1>1, ToldStays, ChecksStay DEF ReadinessInv, ToldInv, Rejected, Warning
<1> QED
  BY <1>1, <1>2, <1>4, <1>5 DEF ReadinessInv

(* A run begins on the issue its event carries.                            *)
LEMMA TakeReadinessKeeps ==
  ASSUME IssueInv, ReadinessInv, TakeReadinessEvent
  PROVE  ReadinessInv'
<1> DEFINE ev == Head(pending)
<1>1. /\ run = NoRun /\ ~Enabled /\ pending # <<>> /\ pending' = Tail(pending)
      /\ UNCHANGED <<issue, comments, activation>> /\ UNCHANGED Pulls
      /\ run' = IF Dismissed(ev) \/ ~Relevant(ev, ev.payload) THEN NoRun
                ELSE [pc |-> "readiness", ev |-> ev, issue |-> ev.payload,
                      calls |-> <<>>, heads |-> {}]
      /\ refused' = IF ev.kind = "reopened" /\ ~issue.open THEN Failure
                    ELSE [refused EXCEPT !.last = Dismissed(ev)]
  BY DEF TakeReadinessEvent, Pulls, Contract
<1>2. /\ pending = <<ev>> /\ Shows(ev.payload) /\ IsFiniteSet(ev.payload.statuses)
      /\ refused = [ever |-> refused.ever, last |-> refused.last]
      /\ LastExists(comments) /\ IsFiniteSet(issue.statuses) /\ ToldInv /\ ChecksInv
  BY <1>1 DEF ReadinessInv, ShownInv
<1> HIDE DEF ev
<1>3. pending' = <<>>
  BY <1>1, <1>2
<1>4. /\ refused' = [ever |-> refused'.ever, last |-> refused'.last]
      /\ ~refused'.ever => ~refused.ever
      /\ ~refused'.last => ~Dismissed(ev)
  BY <1>1, <1>2 DEF Failure
<1>5. \/ run' = NoRun /\ run'.pc = "idle"
      \/ run'.pc = "readiness" /\ run'.issue = ev.payload
  BY <1>1 DEF NoRun
<1>6. ShownInv'
  BY <1>1, <1>2, <1>3, <1>5 DEF ShownInv, Shows, Calling
<1>7. CallsInv'
  BY <1>5 DEF CallsInv
<1>8. FitInv'
  <2> SUFFICES ASSUME ~refused'.last, run'.pc # "readiness" PROVE Fit'
    BY DEF FitInv
  <2>1. ~Relevant(ev, ev.payload)
    BY <1>1, <1>4
  <2>2. ~HasCurrent(ev.payload)
    BY <2>1 DEF Relevant
  <2>3. ~HasCurrent(issue)
    BY <1>2, <2>2 DEF HasCurrent, Shows, CurrentReadiness, Tracked, Paused
  <2> QED
    BY <1>1, <2>3 DEF Fit
<1>9. ToldInv' /\ ChecksInv'
  <2>1. run.pc = "idle"
    BY <1>1 DEF NoRun
  <2>2. (Told => Told') /\ ChecksInv'
    BY <1>1, <1>2, <2>1, ToldStays, ChecksStay
  <2> QED
    BY <1>1, <1>2, <1>4, <2>1, <2>2 DEF ToldInv, Rejected, Warning
<1> QED
  BY <1>1, <1>2, <1>4, <1>6, <1>7, <1>8, <1>9 DEF ReadinessInv

(* The decision: a run that will not record anything found the last record *)
(* to fit, or no status that needs one.                                    *)
LEMMA ReadRecordsKeeps ==
  ASSUME IssueInv, ReadinessInv, ~Enabled, ReadRecords
  PROVE  ReadinessInv'
<1> DEFINE decision == DecideReadiness(run.ev, run.issue, comments)
           calls == Calls(decision, run.ev, run.issue)
           j == [run EXCEPT !.pc = "call"]
<1>1. run.pc = "readiness" /\ run' = [j EXCEPT !.calls = calls] /\ Reads /\ UNCHANGED refused
  BY DEF ReadRecords
<1>2. /\ IsFiniteSet(run.issue.statuses) /\ (pending = <<>> => Shows(run.issue))
      /\ run = [pc |-> run.pc, ev |-> run.ev, issue |-> run.issue, calls |-> run.calls,
                heads |-> run.heads]
  BY <1>1 DEF ReadinessInv, ShownInv, IssueInv, RunInv, ReadinessShape, Calling
<1>3. /\ IsSequence(calls)
      /\ decision \in {"accept", "reject", "lifecycleOwned"} => Has(calls, Recording)
      /\ run.ev.kind # "reopened" => Warned(calls)
  <2> HIDE DEF decision
  <2> QED
    BY <1>2, CallsAre
<1>4. \/ decision \in {"accept", "reject", "lifecycleOwned"}
      \/ AcceptedFor(comments, run.issue.body)
      \/ ~HasCurrent(run.issue)
  BY DEF DecideReadiness
<1> HIDE DEF calls, decision
<1>5. j = [pc |-> "call", ev |-> run.ev, issue |-> run.issue, calls |-> run.calls,
           heads |-> run.heads]
  BY <1>2
<1> HIDE DEF j
<1>6. run' = [pc |-> "call", ev |-> run.ev, issue |-> run.issue, calls |-> calls,
              heads |-> run.heads]
  BY <1>1, <1>5
<1>7. run'.pc = "call" /\ run'.ev = run.ev /\ run'.issue = run.issue /\ run'.calls = calls
  BY <1>6
<1>8. UNCHANGED <<issue, comments, pending, activation>> /\ UNCHANGED Pulls
  BY <1>1, ProviderStays DEF Reads
<1>9. ShownInv'
  BY <1>1, <1>2, <1>7, <1>8 DEF ReadinessInv, ShownInv, Shows, Calling
<1>10. CallsInv'
  BY <1>3, <1>7 DEF CallsInv
<1>11. FitInv'
  <2> SUFFICES ASSUME pending = <<>>, ~Has(calls, Recording) PROVE Fit
    BY <1>7, <1>8 DEF FitInv, Fit
  <2>1. Shows(run.issue)
    BY <1>2
  <2>2. HasCurrent(issue) => HasCurrent(run.issue)
    BY <2>1 DEF HasCurrent, Shows, CurrentReadiness, Tracked, Paused
  <2> QED
    BY <1>3, <1>4, <2>1, <2>2 DEF Fit, Shows, AcceptedFor
<1>12. ToldInv' /\ ChecksInv'
  BY <1>1, <1>8, ToldStays, ChecksStay DEF ReadinessInv, ToldInv, Rejected, Warning
<1> QED
  BY <1>1, <1>8, <1>9, <1>10, <1>11, <1>12 DEF ReadinessInv


(* The comment that records a decision names the body the issue shows, and *)
(* a rejection is followed by word to the pull requests.                   *)
LEMMA ReadinessRecordKeeps ==
  ASSUME IssueInv, ReadinessInv, ~Enabled, ReadinessRecord
  PROVE  ReadinessInv'
<1> DEFINE c == [kind |-> "readiness", accepted |-> Head(run.calls).op = "accepted",
                 fp |-> run.issue.body, on |-> run.ev.kind]
<1>1. /\ run.pc = "call" /\ run.calls # <<>> /\ Head(run.calls).op \in Recording
      /\ comments' = Append(comments, c)
      /\ issue' = Stamped(issue) /\ Finished /\ UNCHANGED refused
      /\ UNCHANGED <<pending, activation>> /\ UNCHANGED Pulls
  BY ProviderStays DEF ReadinessRecord, Record, Recording
<1>2. /\ c.kind = "readiness" /\ c.fp = run.issue.body /\ c.on = run.ev.kind
      /\ Head(run.calls).op = "accepted" => c.accepted
  OBVIOUS
<1> HIDE DEF c
<1>3. LastExists(comments') /\ LastRecord(comments') = c
  BY <1>1, <1>2, LastOfAppended DEF IssueInv, WorldInv, ReadinessInv
<1>4. issue'.body = issue.body /\ issue'.statuses = issue.statuses
  BY <1>1 DEF IssueInv, WorldInv, IssueRecord, Stamped
<1>5. /\ CallsInv'
      /\ run' = NoRun \/ (run'.pc = "call" /\ run'.issue = run.issue)
      /\ run' = NoRun => run'.pc = "idle"
      /\ Head(run.calls).op = "rejected" /\ run.ev.kind # "reopened"
           => run'.pc = "call" /\ Has(run'.calls, {"invalidate"})
  BY <1>1, FinishedLeaves
<1>6. ShownInv'
  BY <1>1, <1>4, <1>5 DEF ReadinessInv, ShownInv, Shows, Calling
<1>7. FitInv'
  <2> SUFFICES ASSUME pending' = <<>> PROVE Fit'
    BY DEF FitInv
  <2>1. Shows(run.issue)
    BY <1>1 DEF ReadinessInv, ShownInv, Calling
  <2> QED
    BY <1>2, <1>3, <1>4, <2>1 DEF Fit, Shows
<1>8. ToldInv'
  <2> SUFFICES ASSUME Rejected' PROVE run'.pc = "call" /\ Has(run'.calls, {"invalidate"})
    BY DEF ToldInv, Warning
  <2>1. ~c.accepted /\ c.on # "reopened"
    BY <1>3 DEF Rejected
  <2> QED
    BY <1>1, <1>2, <1>5, <2>1 DEF Recording
<1>9. ChecksInv'
  BY <1>1, ChecksStay DEF ReadinessInv
<1> QED
  BY <1>1, <1>3, <1>4, <1>5, <1>6, <1>7, <1>8, <1>9 DEF ReadinessInv

(* The listing names the head of every open pull request, and from there   *)
(* on whatever a check had read is late.                                   *)
LEMMA ListPullRequestsKeeps ==
  ASSUME IssueInv, ReadinessInv, ~Enabled, ListPullRequests
  PROVE  ReadinessInv'
<1> DEFINE j == [run EXCEPT !.pc = "tell"]
<1>1. /\ run.pc = "call" /\ run' = [j EXCEPT !.heads = OpenHeads]
      /\ run.calls # <<>> /\ Head(run.calls).op = "invalidate"
      /\ late' = late \cup {p \in PRs : CheckHasRead(p)}
      /\ UNCHANGED <<issue, comments, pending, activation, refused>>
      /\ UNCHANGED <<prs, statuses, checks, queued, missed>>
  BY DEF ListPullRequests
<1>2. j = [pc |-> "tell", ev |-> run.ev, issue |-> run.issue, calls |-> run.calls,
           heads |-> run.heads]
  BY <1>1 DEF IssueInv, RunInv, ReadinessShape, Calling
<1> HIDE DEF j
<1>3. run' = [pc |-> "tell", ev |-> run.ev, issue |-> run.issue, calls |-> run.calls,
              heads |-> OpenHeads]
  BY <1>1, <1>2
<1>4. /\ run'.pc = "tell" /\ run'.ev = run.ev /\ run'.issue = run.issue
      /\ run'.calls = run.calls /\ run'.heads = OpenHeads
  BY <1>3
<1>5. Told'
  <2>1. \A p \in PRs : ~OnTime(p)'
    BY <1>1 DEF OnTime, CheckHasRead
  <2>2. \A p \in PRs : prs'[p].state = "open" => Excused(p)'
    BY <1>1, <1>4 DEF Excused, OpenHeads
  <2> QED
    BY <2>1, <2>2 DEF Told
<1>6. ChecksInv'
  BY <1>1 DEF ReadinessInv, ChecksInv, Delivered
<1>7. ShownInv'
  BY <1>1, <1>4 DEF ReadinessInv, ShownInv, Shows, Calling
<1>8. CallsInv'
  BY <1>1, <1>4 DEF ReadinessInv, CallsInv
<1>9. FitInv'
  BY <1>1, <1>4 DEF ReadinessInv, FitInv, Fit, HasCurrent
<1> QED
  BY <1>1, <1>5, <1>6, <1>7, <1>8, <1>9 DEF ReadinessInv, ToldInv

(* A head that is told holds one of the two statuses no more.              *)
LEMMA TellPullRequestKeeps ==
  ASSUME IssueInv, ReadinessInv, ~Enabled, TellPullRequest
  PROVE  ReadinessInv'
<1>1. PICK h \in run.heads :
        /\ statuses' = [statuses EXCEPT ![h] = statuses[h] \ {"issueContract"}]
        /\ missed' = missed \ {h}
        /\ run' = [run EXCEPT !.heads = run.heads \ {h}]
  BY DEF TellPullRequest
<1>2. /\ run.pc = "tell" /\ UNCHANGED <<issue, comments, pending, activation, refused>>
      /\ UNCHANGED <<prs, checks, queued, late>>
  BY DEF TellPullRequest
<1>3. run' = [pc |-> "tell", ev |-> run.ev, issue |-> run.issue, calls |-> run.calls,
              heads |-> run.heads \ {h}]
  BY <1>1, <1>2 DEF IssueInv, RunInv, ReadinessShape, Calling
<1>4. /\ run'.pc = "tell" /\ run'.ev = run.ev /\ run'.issue = run.issue
      /\ run'.calls = run.calls /\ run'.heads = run.heads \ {h}
  BY <1>3
<1>5. ChecksInv /\ statuses' = [g \in Heads |-> statuses'[g]]
      /\ \A g \in Heads : statuses'[g] = IF g = h THEN statuses[h] \ {"issueContract"}
                                       ELSE statuses[g]
  <2>1. ChecksInv
    BY DEF ReadinessInv
  <2>2. statuses = [g \in Heads |-> statuses[g]]
    BY <2>1 DEF ChecksInv
  <2> QED
    BY <1>1, <2>1, <2>2
<1>6. ASSUME Told PROVE Told'
  <2> SUFFICES ASSUME NEW p \in PRs
               PROVE  ~OnTime(p)' /\ (prs'[p].state = "open" /\ Green(p)' => Excused(p)')
    BY DEF Told
  <2>1. ~OnTime(p)'
    BY <1>2, <1>6 DEF Told, OnTime
  <2>2. prs[p].state = "open" => prs[p].head \in Heads
    BY <1>5 DEF ChecksInv
  <2>3. CASE prs[p].head = h
    <3>1. prs[p].state = "open" => ~Green(p)'
      BY <1>2, <1>5, <2>2, <2>3 DEF Green, Contexts
    <3> QED
      BY <1>2, <2>1, <3>1
  <2>4. CASE prs[p].head # h
    <3>1. prs[p].state = "open" => (Green(p)' <=> Green(p))
      BY <1>2, <1>5, <2>2, <2>4 DEF Green
    <3>2. Excused(p) => Excused(p)'
      BY <1>1, <1>2, <1>4, <2>4 DEF Excused, Checking, Delivered
    <3> QED
      BY <1>2, <1>6, <2>1, <3>1, <3>2 DEF Told
  <2> QED
    BY <2>3, <2>4
<1>7. ChecksInv'
  BY <1>2, <1>5 DEF ChecksInv, Delivered
<1>8. ShownInv'
  BY <1>2, <1>4 DEF ReadinessInv, ShownInv, Shows, Calling
<1>9. CallsInv'
  BY <1>2, <1>4 DEF ReadinessInv, CallsInv
<1>10. FitInv'
  BY <1>2, <1>4 DEF ReadinessInv, FitInv, Fit, HasCurrent
<1>11. ToldInv'
  <2>1. ~Warning
    BY <1>2 DEF Warning
  <2> QED
    BY <1>2, <1>6, <2>1 DEF ReadinessInv, ToldInv, Rejected
<1> QED
  BY <1>2, <1>7, <1>8, <1>9, <1>10, <1>11 DEF ReadinessInv

LEMMA AllToldKeeps ==
  ASSUME IssueInv, ReadinessInv, ~Enabled, AllTold
  PROVE  ReadinessInv'
<1>1. /\ run.pc = "tell" /\ run.heads = {} /\ Finished
      /\ UNCHANGED <<issue, comments, pending, activation, refused>> /\ UNCHANGED Pulls
  BY ProviderStays DEF AllTold, Reads
<1>2. run.calls # <<>> /\ Head(run.calls).op = "invalidate"
  BY <1>1 DEF ReadinessInv, CallsInv
<1>3. /\ CallsInv'
      /\ run' = NoRun \/ (run'.pc = "call" /\ run'.issue = run.issue)
      /\ run' = NoRun => run'.pc = "idle"
      /\ Has(run.calls, Recording) => run'.pc = "call" /\ Has(run'.calls, Recording)
  BY <1>1, <1>2, FinishedLeaves DEF Recording
<1>4. ShownInv'
  BY <1>1, <1>3 DEF ReadinessInv, ShownInv, Shows, Calling
<1>5. FitInv'
  BY <1>1, <1>3 DEF ReadinessInv, FitInv, Fit, HasCurrent
<1>6. ToldInv' /\ ChecksInv'
  BY <1>1, ToldStays, ChecksStay DEF ReadinessInv, ToldInv, Rejected, Warning
<1> QED
  BY <1>1, <1>3, <1>4, <1>5, <1>6 DEF ReadinessInv

LEMMA ReadinessCheckKeeps ==
  ASSUME IssueInv, ReadinessInv, ~Enabled, ReadinessCheck
  PROVE  ReadinessInv'
<1>1. /\ run.pc = "call" /\ run.calls # <<>> /\ Head(run.calls).op \in {"unchanged", "soleNew"}
      /\ (Finished /\ UNCHANGED refused) \/ (run' = NoRun /\ refused' = Failure)
      /\ UNCHANGED <<issue, comments, pending, activation>> /\ UNCHANGED Pulls
  BY ProviderStays DEF ReadinessCheck, Reads
<1>2. IsFiniteSet(issue'.statuses) /\ issue'.statuses \subseteq issue.statuses \cup {"new"}
  BY <1>1 DEF ReadinessInv
<1>3. CASE Finished /\ UNCHANGED refused
  <2>1. Head(run.calls).op \notin Recording \cup {"invalidate"}
    BY <1>1 DEF Recording
  <2> QED
    BY <1>1, <1>2, <1>3, <2>1, QuietCallKeeps
<1>4. CASE run' = NoRun /\ refused' = Failure
  <2>1. run'.pc = "idle" /\ refused'.ever /\ refused'.last
    BY <1>4 DEF NoRun, Failure
  <2>2. refused' = [ever |-> refused'.ever, last |-> refused'.last]
    BY <1>4 DEF Failure
  <2> QED
    BY <1>1, <2>1, <2>2, ChecksStay DEF ReadinessInv, ShownInv, CallsInv, FitInv, ToldInv, Shows, Calling
<1> QED
  BY <1>1, <1>3, <1>4

LEMMA ReadinessWriteKeeps ==
  ASSUME IssueInv, ReadinessInv, ~Enabled, ReadinessWrite
  PROVE  ReadinessInv'
<1> DEFINE c == Head(run.calls)
           s == IF c.op = "add" THEN issue.statuses \cup {"new"} ELSE issue.statuses \ {c.label}
<1>1. /\ run.pc = "call" /\ run.calls # <<>> /\ c.op \in {"remove", "add"}
      /\ issue' = Stamped([issue EXCEPT !.statuses = s]) /\ Finished
      /\ UNCHANGED <<comments, pending, activation, refused>> /\ UNCHANGED Pulls
  BY ProviderStays DEF ReadinessWrite
<1>2. s \subseteq issue.statuses \cup {"new"} /\ IsFiniteSet(s)
  <2>1. IsFiniteSet(issue.statuses)
    BY DEF ReadinessInv
  <2> HIDE DEF c
  <2>2. IsFiniteSet(issue.statuses \cup {"new"}) /\ IsFiniteSet(issue.statuses \ {c.label})
    BY <2>1, FS_AddElement, FS_RemoveElement
  <2> QED
    BY <2>2
<1>3. c.op \notin Recording \cup {"invalidate"}
  BY <1>1 DEF Recording
<1> HIDE DEF s
<1>4. issue'.body = issue.body /\ issue'.statuses = s
  <2> DEFINE i == [issue EXCEPT !.statuses = s]
  <2>1. i = [statuses |-> s, foreign |-> issue.foreign, open |-> issue.open,
             reason |-> issue.reason, body |-> issue.body, at |-> issue.at,
             assignees |-> issue.assignees]
    BY DEF IssueInv, WorldInv, IssueRecord
  <2> HIDE DEF i
  <2>2. issue' = Stamped(i)
    BY <1>1 DEF i
  <2> QED
    BY <2>1, <2>2 DEF Stamped
<1> QED
  BY <1>1, <1>2, <1>3, <1>4, QuietCallKeeps

(* The steps of a readiness run, and a run that is lost.                   *)
LEMMA ReadinessRunKeepsReadiness ==
  ASSUME IssueInv, ReadinessInv, ~Enabled, ReadinessRun \/ RunDies
  PROVE  ReadinessInv'
<1>1. CASE ReadinessDone
  <2>1. /\ run.pc = "call" /\ run.calls = <<>> /\ run' = NoRun
        /\ UNCHANGED <<issue, comments, pending, activation, refused>> /\ UNCHANGED Pulls
    BY <1>1, ProviderStays DEF ReadinessDone, Reads
  <2>2. run'.pc = "idle"
    BY <2>1 DEF NoRun
  <2>3. ~Has(run.calls, Recording) /\ ~Has(run.calls, {"invalidate"})
    BY <2>1 DEF Has
  <2>4. Fit' <=> Fit
    BY <2>1 DEF Fit, HasCurrent
  <2>5. (Told => Told') /\ (Rejected' <=> Rejected) /\ ChecksInv'
    BY <2>1, ToldStays, ChecksStay DEF ReadinessInv, Rejected
  <2>6. FitInv' /\ ToldInv'
    BY <2>1, <2>3, <2>4, <2>5 DEF ReadinessInv, FitInv, ToldInv, Warning
  <2> QED
    BY <2>1, <2>2, <2>5, <2>6 DEF ReadinessInv, ShownInv, CallsInv, Shows, Calling
<1>2. CASE RunDies
  <2>1. /\ run' = NoRun /\ refused' = Failure
        /\ UNCHANGED <<issue, comments, pending, activation>> /\ UNCHANGED Pulls
    BY <1>2, ProviderStays DEF RunDies
  <2>2. run'.pc = "idle" /\ refused'.ever /\ refused'.last
    BY <2>1 DEF NoRun, Failure
  <2>3. refused' = [ever |-> refused'.ever, last |-> refused'.last]
    BY <2>1 DEF Failure
  <2> QED
    BY <2>1, <2>2, <2>3, ChecksStay DEF ReadinessInv, ShownInv, CallsInv, FitInv, ToldInv, Shows, Calling
<1> QED
  BY <1>1, <1>2, TakeReadinessKeeps, ReadRecordsKeeps, ReadinessRecordKeeps,
     ListPullRequestsKeeps, TellPullRequestKeeps, AllToldKeeps,
     ReadinessCheckKeeps, ReadinessWriteKeeps DEF ReadinessRun

(* The contract check beside the runs of the issue.                        *)

LEMMA CheckRecords ==
  ASSUME NEW c, CheckRecord(c), NEW x
  PROVE  /\ CheckRecord([c EXCEPT !.pc = x])
         /\ [c EXCEPT !.pc = x] =
              [pc |-> x, head |-> c.head, terminal |-> c.terminal, at |-> c.at,
               asked |-> c.asked, granted |-> c.granted, same |-> c.same, todo |-> c.todo]
         /\ [c EXCEPT !.asked = x] =
              [pc |-> c.pc, head |-> c.head, terminal |-> c.terminal, at |-> c.at,
               asked |-> x, granted |-> c.granted, same |-> c.same, todo |-> c.todo]
         /\ [c EXCEPT !.granted = x] =
              [pc |-> c.pc, head |-> c.head, terminal |-> c.terminal, at |-> c.at,
               asked |-> c.asked, granted |-> x, same |-> c.same, todo |-> c.todo]
         /\ [c EXCEPT !.same = x] =
              [pc |-> c.pc, head |-> c.head, terminal |-> c.terminal, at |-> c.at,
               asked |-> c.asked, granted |-> c.granted, same |-> x, todo |-> c.todo]
         /\ [c EXCEPT !.todo = x] =
              [pc |-> c.pc, head |-> c.head, terminal |-> c.terminal, at |-> c.at,
               asked |-> c.asked, granted |-> c.granted, same |-> c.same, todo |-> x]
<1>1. [c EXCEPT !.pc = x] =
        [pc |-> x, head |-> c.head, terminal |-> c.terminal, at |-> c.at,
         asked |-> c.asked, granted |-> c.granted, same |-> c.same, todo |-> c.todo]
  BY DEF CheckRecord
<1>2. CheckRecord([c EXCEPT !.pc = x])
  BY <1>1 DEF CheckRecord
<1>3. [c EXCEPT !.asked = x] =
        [pc |-> c.pc, head |-> c.head, terminal |-> c.terminal, at |-> c.at,
         asked |-> x, granted |-> c.granted, same |-> c.same, todo |-> c.todo]
  BY DEF CheckRecord
<1>4. [c EXCEPT !.granted = x] =
        [pc |-> c.pc, head |-> c.head, terminal |-> c.terminal, at |-> c.at,
         asked |-> c.asked, granted |-> x, same |-> c.same, todo |-> c.todo]
  BY DEF CheckRecord
<1>5. [c EXCEPT !.same = x] =
        [pc |-> c.pc, head |-> c.head, terminal |-> c.terminal, at |-> c.at,
         asked |-> c.asked, granted |-> c.granted, same |-> x, todo |-> c.todo]
  BY DEF CheckRecord
<1>6. [c EXCEPT !.todo = x] =
        [pc |-> c.pc, head |-> c.head, terminal |-> c.terminal, at |-> c.at,
         asked |-> c.asked, granted |-> c.granted, same |-> c.same, todo |-> x]
  BY DEF CheckRecord
<1> QED
  BY <1>1, <1>2, <1>3, <1>4, <1>5, <1>6

(* A check that waits is started; it has read nothing yet.                 *)
LEMMA TakeCheckKeeps ==
  ASSUME ReadinessInv, ~Enabled, TakeCheck
  PROVE  ReadinessInv'
<1>1. PICK p \in PRs :
        /\ checks[p] = NoCheck /\ queued[p] # NoCheck
        /\ checks' = [checks EXCEPT ![p] =
             [pc |-> "read", head |-> queued[p].head, terminal |-> queued[p].terminal,
              at |-> queued[p].at, asked |-> {}, granted |-> {}, same |-> TRUE,
              todo |-> {"issue", "comments"} \cup (IF queued[p].terminal THEN {"pull"} ELSE {})]]
        /\ queued' = [queued EXCEPT ![p] = NoCheck]
  BY DEF TakeCheck
<1>2. Beside /\ UNCHANGED <<statuses, late, missed>>
  BY DEF TakeCheck
<1> DEFINE todo == {"issue", "comments"} \cup (IF queued[p].terminal THEN {"pull"} ELSE {})
<1>3. "comments" \in todo
  OBVIOUS
<1> HIDE DEF todo
<1> DEFINE d == [pc |-> "read", head |-> queued[p].head, terminal |-> queued[p].terminal,
                 at |-> queued[p].at, asked |-> {}, granted |-> {}, same |-> TRUE,
                 todo |-> todo]
<1>4. /\ CheckRecord(d) /\ d.pc = "read" /\ d.head = queued[p].head
      /\ d.terminal = queued[p].terminal /\ d.todo = todo /\ d # NoCheck
  <2>1. /\ d.pc = "read" /\ d.head = queued[p].head
        /\ d.terminal = queued[p].terminal /\ d.todo = todo
    OBVIOUS
  <2>2. CheckRecord(d)
    BY DEF CheckRecord
  <2> HIDE DEF d
  <2> QED
    BY <2>1, <2>2 DEF NoCheck
<1>5. checks' = [checks EXCEPT ![p] = d]
  BY <1>1 DEF todo
<1> HIDE DEF d
<1>6. ChecksInv
  BY DEF ReadinessInv
<1>7. /\ \A q \in PRs : checks'[q] = IF q = p THEN d ELSE checks[q]
      /\ \A q \in PRs : queued'[q] = IF q = p THEN NoCheck ELSE queued[q]
      /\ checks' = [q \in PRs |-> checks'[q]] /\ queued' = [q \in PRs |-> queued'[q]]
  BY <1>1, <1>5, <1>6 DEF ChecksInv
<1>8. UNCHANGED <<prs, run>>
  BY <1>2 DEF Beside
<1>9. ASSUME Told PROVE Told'
  <2> SUFFICES ASSUME NEW q \in PRs
               PROVE  ~OnTime(q)' /\ (prs[q].state = "open" /\ Green(q) => Excused(q)')
    BY <1>2, <1>8 DEF Told, Green
  <2>1. CASE q = p
    BY <1>2, <1>3, <1>4, <1>7, <2>1 DEF OnTime, Excused, Checking
  <2>2. CASE q # p
    BY <1>2, <1>7, <1>8, <1>9, <2>2 DEF Told, OnTime, Excused, Checking, Delivered
  <2> QED
    BY <2>1, <2>2
<1>10. ChecksInv'
  <2>1. queued[p].terminal => Delivered(queued[p].head)
    BY <1>1, <1>6 DEF ChecksInv, Delivered
  <2>2. \A h : Delivered(h)' <=> Delivered(h)
    BY <1>8 DEF Delivered
  <2>3. queued[p].head = prs[p].head
    BY <1>1, <1>6 DEF ChecksInv
  <2>4. \A q \in PRs :
          /\ prs'[q].state # "none" => prs'[q].head \in Heads
          /\ queued'[q] # NoCheck => queued'[q].head = prs'[q].head
          /\ queued'[q] # NoCheck /\ queued'[q].terminal => prs'[q].state = "merged"
    BY <1>6, <1>7, <1>8 DEF ChecksInv
  <2>5. ASSUME NEW q \in PRs, checks'[q] # NoCheck
        PROVE  /\ CheckRecord(checks'[q]) /\ checks'[q].pc \in {"read", "publish"}
               /\ queued'[q] = NoCheck => checks'[q].head = prs'[q].head
               /\ checks'[q].terminal => Delivered(checks'[q].head)
               /\ checks'[q].pc = "publish" =>
                    "comments" \notin checks'[q].todo /\ checks'[q].granted # {}
    <3>1. CASE q = p
      BY <1>4, <1>7, <1>8, <2>1, <2>3, <3>1
    <3>2. CASE q # p
      BY <1>6, <1>7, <1>8, <2>5, <3>2 DEF ChecksInv
    <3> QED
      BY <3>1, <3>2
  <2> QED
    BY <1>2, <1>6, <1>7, <2>2, <2>4, <2>5 DEF ChecksInv, CheckRecord
<1> QED
  BY <1>2, <1>9, <1>10, BesideReadiness DEF Beside, ReadinessInv

(* A read of a check; only that of the comments could find an acceptance,  *)
(* and after a rejection it finds none.                                    *)
LEMMA CheckReadsKeeps ==
  ASSUME ReadinessInv, ~Enabled, NEW p \in PRs, NEW what, NEW c, CheckReads(p, what, c),
         CheckRecord(c), c.pc = checks[p].pc, c.head = checks[p].head,
         c.terminal = checks[p].terminal, c.todo = checks[p].todo,
         \/ what # "comments" /\ c.granted = checks[p].granted
         \/ Rejected /\ ~c.terminal => c.granted = {}
  PROVE  ReadinessInv'
<1>1. /\ checks[p].pc = "read" /\ Beside /\ UNCHANGED <<statuses, queued, late, missed>>
      /\ checks' = [checks EXCEPT ![p] = [c EXCEPT !.todo = c.todo \ {what}]]
  BY DEF CheckReads
<1> DEFINE d == [c EXCEPT !.todo = c.todo \ {what}]
<1>2. d = [pc |-> c.pc, head |-> c.head, terminal |-> c.terminal, at |-> c.at,
           asked |-> c.asked, granted |-> c.granted, same |-> c.same,
           todo |-> c.todo \ {what}]
  BY CheckRecords
<1> HIDE DEF d
<1>3. /\ d.pc = "read" /\ d.head = checks[p].head /\ d.terminal = checks[p].terminal
      /\ d.granted = c.granted /\ d.todo = checks[p].todo \ {what}
  BY <1>1, <1>2
<1>4. CheckRecord(d)
  BY <1>2 DEF CheckRecord
<1>5. ChecksInv
  BY DEF ReadinessInv
<1>6. checks' = [checks EXCEPT ![p] = d]
  BY <1>1 DEF d
<1>7. /\ \A q \in PRs : checks'[q] = IF q = p THEN d ELSE checks[q]
      /\ checks' = [q \in PRs |-> checks'[q]]
  BY <1>5, <1>6 DEF ChecksInv
<1>8. checks[p] # NoCheck /\ d # NoCheck
  BY <1>1, <1>3 DEF NoCheck
<1>9. UNCHANGED <<prs, run>>
  BY <1>1 DEF Beside
<1>10. ASSUME Rejected, Told PROVE Told'
  <2>1. ~OnTime(p)'
    <3>1. CASE what # "comments" /\ c.granted = checks[p].granted
      BY <1>1, <1>3, <1>7, <1>8, <1>10, <3>1 DEF Told, OnTime
    <3>2. CASE Rejected /\ ~c.terminal => c.granted = {}
      BY <1>3, <1>7, <1>10, <3>2 DEF OnTime
    <3> QED
      BY <3>1, <3>2
  <2>2. \A q \in PRs : ~OnTime(q)'
    BY <1>1, <1>7, <1>10, <2>1 DEF Told, OnTime
  <2>3. \A q \in PRs : Excused(q) => Excused(q)'
    BY <1>1, <1>7, <1>8, <1>9 DEF Excused, Checking, Delivered
  <2> QED
    BY <1>1, <1>9, <1>10, <2>2, <2>3 DEF Told, Green
<1>11. ChecksInv'
  <2>1. \A h : Delivered(h)' <=> Delivered(h)
    BY <1>9 DEF Delivered
  <2>2. ASSUME NEW q \in PRs, checks'[q] # NoCheck
        PROVE  /\ CheckRecord(checks'[q]) /\ checks'[q].pc \in {"read", "publish"}
               /\ queued[q] = NoCheck => checks'[q].head = prs[q].head
               /\ checks'[q].terminal => Delivered(checks'[q].head)
               /\ checks'[q].pc = "publish" =>
                    "comments" \notin checks'[q].todo /\ checks'[q].granted # {}
    <3>1. CASE q = p
      BY <1>3, <1>4, <1>5, <1>7, <1>8, <3>1 DEF ChecksInv
    <3>2. CASE q # p
      BY <1>5, <1>7, <2>2, <3>2 DEF ChecksInv
    <3> QED
      BY <3>1, <3>2
  <2>3. /\ statuses' = [h \in Heads |-> statuses'[h]]
        /\ queued' = [q \in PRs |-> queued'[q]]
        /\ \A q \in PRs :
             /\ prs'[q].state # "none" => prs'[q].head \in Heads
             /\ queued'[q] # NoCheck => queued'[q].head = prs'[q].head
             /\ queued'[q] # NoCheck /\ queued'[q].terminal => prs'[q].state = "merged"
    BY <1>1, <1>5, <1>9 DEF ChecksInv
  <2>4. UNCHANGED <<prs, queued>>
    BY <1>1, <1>9
  <2> QED
    BY <1>7, <2>1, <2>2, <2>3, <2>4 DEF ChecksInv, CheckRecord
<1> QED
  BY <1>1, <1>10, <1>11, BesideReadiness DEF Beside, ReadinessInv

(* A post of a check, which may be its last: what it leaves on the head is *)
(* no success, or it is accounted for.                                     *)
LEMMA CheckPostsKeeps ==
  ASSUME ReadinessInv, ~Enabled, NEW p \in PRs, checks[p] # NoCheck, Beside,
         UNCHANGED queued, NEW s, statuses' = [statuses EXCEPT ![checks[p].head] = s],
         NEW d, checks' = [checks EXCEPT ![p] = d],
         \/ d = NoCheck /\ late' = late \ {p}
         \/ /\ late' = late /\ d = [checks[p] EXCEPT !.pc = "publish"]
            /\ "comments" \notin checks[p].todo /\ checks[p].granted # {},
         missed \ {checks[p].head} \subseteq missed',
         Told => \/ s # Contexts \/ checks[p].head \in missed' \/ Delivered(checks[p].head)
  PROVE  ReadinessInv'
<1> DEFINE g == checks[p].head
<1>1. ChecksInv
  BY DEF ReadinessInv
<1>2. /\ \A q \in PRs : checks'[q] = IF q = p THEN d ELSE checks[q]
      /\ checks' = [q \in PRs |-> checks'[q]]
  BY <1>1 DEF ChecksInv
<1>3. /\ \A h \in Heads : statuses'[h] = IF h = g THEN s ELSE statuses[h]
      /\ statuses' = [h \in Heads |-> statuses'[h]]
  BY <1>1 DEF ChecksInv
<1>4. UNCHANGED <<prs, run>>
  BY DEF Beside
<1>5. d # NoCheck =>
        /\ CheckRecord(d) /\ d.pc = "publish" /\ d.head = g /\ d.terminal = checks[p].terminal
        /\ d.todo = checks[p].todo /\ d.granted = checks[p].granted /\ late' = late
        /\ "comments" \notin d.todo /\ d.granted # {}
  <2> SUFFICES ASSUME d # NoCheck
               PROVE  /\ CheckRecord(d) /\ d.pc = "publish" /\ d.head = g
                      /\ d.terminal = checks[p].terminal /\ d.todo = checks[p].todo
                      /\ d.granted = checks[p].granted
    OBVIOUS
  <2>0. d = [checks[p] EXCEPT !.pc = "publish"]
    OBVIOUS
  <2>1. CheckRecord(checks[p])
    BY <1>1 DEF ChecksInv
  <2>2. CheckRecord(d)
    BY <2>0, <2>1, CheckRecords
  <2>3. d = [pc |-> "publish", head |-> g, terminal |-> checks[p].terminal,
             at |-> checks[p].at, asked |-> checks[p].asked, granted |-> checks[p].granted,
             same |-> checks[p].same, todo |-> checks[p].todo]
    BY <2>0, <2>1, CheckRecords DEF g
  <2> HIDE DEF g
  <2> QED
    BY <2>2, <2>3
<1>6. queued[p] = NoCheck => prs[p].head = g
  BY <1>1 DEF ChecksInv
<1>7. \A h : Delivered(h)' <=> Delivered(h)
  BY <1>4 DEF Delivered
<1> HIDE DEF g
<1>8. ASSUME Told PROVE Told'
  <2> SUFFICES ASSUME NEW q \in PRs
               PROVE  ~OnTime(q)' /\ (prs'[q].state = "open" /\ Green(q)' => Excused(q)')
    BY DEF Told
  <2>1. ~OnTime(q)'
    <3>1. ~OnTime(q)
      BY <1>8 DEF Told
    <3>2. CASE q = p
      BY <1>2, <1>5, <3>1, <3>2 DEF OnTime
    <3>3. CASE q # p
      BY <1>2, <3>1, <3>3 DEF OnTime
    <3> QED
      BY <3>2, <3>3
  <2>2. ASSUME prs[q].state = "open", Green(q)', prs[q].head = g PROVE Excused(q)'
    <3>1. g \in Heads
      BY <1>1, <2>2 DEF ChecksInv
    <3>2. s = Contexts
      BY <1>3, <1>4, <2>2, <3>1 DEF Green
    <3>3. g \in missed' \/ Delivered(g)
      BY <1>8, <3>2 DEF g
    <3> QED
      BY <1>4, <1>7, <2>2, <3>3 DEF Excused
  <2>3. ASSUME prs[q].state = "open", Green(q)', prs[q].head # g PROVE Excused(q)'
    <3>1. Green(q)
      BY <1>1, <1>3, <1>4, <2>3 DEF Green, ChecksInv
    <3>2. Excused(q)
      BY <1>8, <2>3, <3>1 DEF Told
    <3>3. Checking(q) => Checking(q)'
      BY <1>2, <1>6, <2>3 DEF Checking
    <3>4. prs[q].head \in missed => prs[q].head \in missed'
      BY <2>3 DEF g
    <3> QED
      BY <1>4, <1>7, <3>2, <3>3, <3>4 DEF Excused
  <2> QED
    BY <1>4, <2>1, <2>2, <2>3
<1>9. ChecksInv'
  <2>1. ASSUME NEW q \in PRs, checks'[q] # NoCheck
        PROVE  /\ CheckRecord(checks'[q]) /\ checks'[q].pc \in {"read", "publish"}
               /\ queued[q] = NoCheck => checks'[q].head = prs[q].head
               /\ checks'[q].terminal => Delivered(checks'[q].head)
               /\ checks'[q].pc = "publish" =>
                    "comments" \notin checks'[q].todo /\ checks'[q].granted # {}
    <3>1. CASE q = p
      BY <1>1, <1>2, <1>5, <1>6, <2>1, <3>1 DEF ChecksInv, g
    <3>2. CASE q # p
      BY <1>1, <1>2, <2>1, <3>2 DEF ChecksInv
    <3> QED
      BY <3>1, <3>2
  <2> QED
    BY <1>1, <1>2, <1>3, <1>4, <1>7, <2>1 DEF ChecksInv, CheckRecord
<1> QED
  BY <1>8, <1>9, BesideReadiness DEF Beside, ReadinessInv

LEMMA ChecksKeepReadiness ==
  ASSUME ReadinessInv, ~Enabled, ContractCheck \/ CheckDies
  PROVE  ReadinessInv'
<1>0. ChecksInv
  BY DEF ReadinessInv
<1>1. CASE CheckReadsIssue
  <2>1. PICK p \in PRs : CheckReads(p, "issue",
                           [checks[p] EXCEPT !.asked = Asked(checks[p].terminal, issue)])
    BY <1>1 DEF CheckReadsIssue
  <2>2. CheckRecord(checks[p])
    <3>1. checks[p].pc = "read"
      BY <2>1 DEF CheckReads
    <3>2. checks[p] # NoCheck
      BY <3>1 DEF NoCheck
    <3> QED
      BY <1>0, <3>2 DEF ChecksInv
  <2> DEFINE x == Asked(checks[p].terminal, issue)
             c == [checks[p] EXCEPT !.asked = x]
  <2>3. CheckReads(p, "issue", c)
    BY <2>1
  <2> HIDE DEF x
  <2>4. c = [pc |-> checks[p].pc, head |-> checks[p].head, terminal |-> checks[p].terminal,
             at |-> checks[p].at, asked |-> x, granted |-> checks[p].granted,
             same |-> checks[p].same, todo |-> checks[p].todo]
    BY <2>2, CheckRecords
  <2> HIDE DEF c
  <2>5. /\ CheckRecord(c) /\ c.pc = checks[p].pc /\ c.head = checks[p].head
        /\ c.terminal = checks[p].terminal /\ c.todo = checks[p].todo
        /\ c.granted = checks[p].granted
    BY <2>4 DEF CheckRecord
  <2> QED
    BY <2>3, <2>5, CheckReadsKeeps
<1>2. CASE CheckReadsPullRequest
  <2>1. PICK p \in PRs : CheckReads(p, "pull",
                           [checks[p] EXCEPT !.same = (prs[p].at = checks[p].at)])
    BY <1>2 DEF CheckReadsPullRequest
  <2>2. CheckRecord(checks[p])
    <3>1. checks[p].pc = "read"
      BY <2>1 DEF CheckReads
    <3>2. checks[p] # NoCheck
      BY <3>1 DEF NoCheck
    <3> QED
      BY <1>0, <3>2 DEF ChecksInv
  <2> DEFINE x == prs[p].at = checks[p].at
             c == [checks[p] EXCEPT !.same = x]
  <2>3. CheckReads(p, "pull", c)
    BY <2>1
  <2> HIDE DEF x
  <2>4. c = [pc |-> checks[p].pc, head |-> checks[p].head, terminal |-> checks[p].terminal,
             at |-> checks[p].at, asked |-> checks[p].asked, granted |-> checks[p].granted,
             same |-> x, todo |-> checks[p].todo]
    BY <2>2, CheckRecords
  <2> HIDE DEF c
  <2>5. /\ CheckRecord(c) /\ c.pc = checks[p].pc /\ c.head = checks[p].head
        /\ c.terminal = checks[p].terminal /\ c.todo = checks[p].todo
        /\ c.granted = checks[p].granted
    BY <2>4 DEF CheckRecord
  <2> QED
    BY <2>3, <2>5, CheckReadsKeeps
<1>3. CASE CheckReadsComments
  <2>1. PICK p \in PRs : CheckReads(p, "comments",
                           [checks[p] EXCEPT !.granted = Granted(checks[p].terminal, comments)])
    BY <1>3 DEF CheckReadsComments
  <2>2. CheckRecord(checks[p])
    <3>1. checks[p].pc = "read"
      BY <2>1 DEF CheckReads
    <3>2. checks[p] # NoCheck
      BY <3>1 DEF NoCheck
    <3> QED
      BY <1>0, <3>2 DEF ChecksInv
  <2> DEFINE x == Granted(checks[p].terminal, comments)
             c == [checks[p] EXCEPT !.granted = x]
  <2>3. CheckReads(p, "comments", c)
    BY <2>1
  <2>4. Rejected /\ ~checks[p].terminal => x = {}
    BY DEF Rejected, Granted
  <2> HIDE DEF x
  <2>5. c = [pc |-> checks[p].pc, head |-> checks[p].head, terminal |-> checks[p].terminal,
             at |-> checks[p].at, asked |-> checks[p].asked, granted |-> x,
             same |-> checks[p].same, todo |-> checks[p].todo]
    BY <2>2, CheckRecords
  <2> HIDE DEF c
  <2>6. /\ CheckRecord(c) /\ c.pc = checks[p].pc /\ c.head = checks[p].head
        /\ c.terminal = checks[p].terminal /\ c.todo = checks[p].todo /\ c.granted = x
    BY <2>5 DEF CheckRecord
  <2> QED
    BY <2>3, <2>4, <2>6, CheckReadsKeeps
<1>4. ASSUME NEW p \in PRs, checks[p] # NoCheck, "comments" \notin checks[p].todo,
             checks[p].granted # {}, Told
      PROVE  p \in late \/ Delivered(checks[p].head)
  BY <1>0, <1>4 DEF Told, OnTime, ChecksInv
<1>5. CASE PublishContract
  <2>1. PICK p \in PRs :
          /\ checks[p].pc = "read" /\ checks[p].todo = {}
          /\ checks[p].asked \cap checks[p].granted # {}
          /\ Publish(p, checks[p].head, statuses[checks[p].head] \cup {"prContract"})
          /\ checks' = [checks EXCEPT ![p].pc = "publish"] /\ UNCHANGED late
          /\ missed' = IF p \in late THEN missed \cup {checks[p].head} ELSE missed
    BY <1>5 DEF PublishContract
  <2>2. checks[p] # NoCheck /\ "comments" \notin checks[p].todo /\ checks[p].granted # {}
    BY <2>1 DEF NoCheck
  <2>3. Told => checks[p].head \in missed' \/ Delivered(checks[p].head)
    BY <1>4, <2>1, <2>2
  <2> DEFINE s == statuses[checks[p].head] \cup {"prContract"}
             d == [checks[p] EXCEPT !.pc = "publish"]
  <2>4. Beside /\ UNCHANGED queued /\ statuses' = [statuses EXCEPT ![checks[p].head] = s]
    BY <2>1 DEF Publish
  <2>5. checks' = [checks EXCEPT ![p] = d] /\ missed \ {checks[p].head} \subseteq missed'
    BY <2>1
  <2> HIDE DEF s
  <2> QED
    BY <2>1, <2>2, <2>3, <2>4, <2>5, CheckPostsKeeps
<1>6. CASE PublishIssueContract
  <2>1. PICK p \in PRs :
          /\ checks[p].pc = "publish"
          /\ Publish(p, checks[p].head, statuses[checks[p].head] \cup {"issueContract"})
          /\ EndCheck(p)
          /\ missed' = IF p \in late THEN missed \cup {checks[p].head} ELSE missed
    BY <1>6 DEF PublishIssueContract
  <2>2. checks[p] # NoCheck
    BY <2>1 DEF NoCheck
  <2>3. "comments" \notin checks[p].todo /\ checks[p].granted # {}
    BY <1>0, <2>1, <2>2 DEF ChecksInv
  <2>4. Told => checks[p].head \in missed' \/ Delivered(checks[p].head)
    BY <1>4, <2>1, <2>2, <2>3
  <2> DEFINE s == statuses[checks[p].head] \cup {"issueContract"}
  <2>5. Beside /\ UNCHANGED queued /\ statuses' = [statuses EXCEPT ![checks[p].head] = s]
    BY <2>1 DEF Publish
  <2>6. /\ checks' = [checks EXCEPT ![p] = NoCheck] /\ late' = late \ {p}
        /\ missed \ {checks[p].head} \subseteq missed'
    BY <2>1 DEF EndCheck
  <2> HIDE DEF s
  <2> QED
    BY <2>2, <2>4, <2>5, <2>6, CheckPostsKeeps
<1>7. CASE PublishFailure
  <2>1. PICK p \in PRs :
          /\ checks[p].pc = "read"
          /\ Publish(p, checks[p].head, statuses[checks[p].head] \ {"prContract"})
          /\ EndCheck(p) /\ missed' = missed \ {checks[p].head}
    BY <1>7 DEF PublishFailure
  <2>2. checks[p] # NoCheck
    BY <2>1 DEF NoCheck
  <2> DEFINE s == statuses[checks[p].head] \ {"prContract"}
  <2>3. s # Contexts
    BY DEF Contexts
  <2>4. Beside /\ UNCHANGED queued /\ statuses' = [statuses EXCEPT ![checks[p].head] = s]
    BY <2>1 DEF Publish
  <2>5. /\ checks' = [checks EXCEPT ![p] = NoCheck] /\ late' = late \ {p}
        /\ missed \ {checks[p].head} \subseteq missed'
    BY <2>1 DEF EndCheck
  <2> HIDE DEF s
  <2> QED
    BY <2>2, <2>3, <2>4, <2>5, CheckPostsKeeps
<1>8. CASE CheckDies
  <2>1. PICK p \in PRs :
          /\ checks[p] # NoCheck
          /\ \E gone \in IF checks[p].pc = "read" THEN {{}, {"prContract"}} ELSE {{}} :
               statuses' = [statuses EXCEPT ![checks[p].head] =
                              statuses[checks[p].head] \ gone]
          /\ EndCheck(p) /\ missed' = missed \cup {checks[p].head}
          /\ Beside /\ UNCHANGED queued
    BY <1>8 DEF CheckDies
  <2>2. PICK gone : statuses' = [statuses EXCEPT ![checks[p].head] =
                                   statuses[checks[p].head] \ gone]
    BY <2>1
  <2> DEFINE s == statuses[checks[p].head] \ gone
  <2>3. statuses' = [statuses EXCEPT ![checks[p].head] = s]
    BY <2>2
  <2>4. /\ checks' = [checks EXCEPT ![p] = NoCheck] /\ late' = late \ {p}
        /\ missed \ {checks[p].head} \subseteq missed' /\ checks[p].head \in missed'
    BY <2>1 DEF EndCheck
  <2> HIDE DEF s
  <2> QED
    BY <2>1, <2>3, <2>4, CheckPostsKeeps
<1> QED
  BY <1>1, <1>2, <1>3, <1>5, <1>6, <1>7, <1>8, TakeCheckKeeps DEF ContractCheck

(* The activation is never changed, and until it is "enabled" the          *)
(* lifecycle action does nothing.                                          *)
LEMMA ActivationStays == ASSUME IssueInv, [Next]_vars PROVE activation' = activation
<1>1. CASE People
  BY <1>1, PeopleMove DEF IssueInv, Others
<1>2. CASE Lifecycle
  <2>1. CASE TakeEvent
    BY <2>1 DEF TakeEvent, History
  <2>2. CASE LoadIssue \/ LoadComments \/ LoadInventory \/ Decide \/ NothingToRemove
    BY <2>2 DEF LoadIssue, LoadComments, LoadInventory, Decide, NothingToRemove, Reads, Provider
  <2>3. CASE RereadIssue \/ RereadComments \/ RereadInventory
    BY <2>3 DEF RereadIssue, RereadComments, RereadInventory, Reread, Reads, Provider
  <2>4. CASE ReplaceLabels \/ CloseCompleted
    BY <2>4 DEF ReplaceLabels, CloseCompleted, Writes, Provider
  <2>5. CASE RemoveLabel \/ RepairGesture
    BY <2>5 DEF RemoveLabel, RepairGesture, Delete, Writes, Provider
  <2>6. CASE ReadBack \/ Restore \/ Finalize
    BY <2>6 DEF ReadBack, Restore, Finalize, Provider
  <2> QED
    BY <1>2, <2>1, <2>2, <2>3, <2>4, <2>5, <2>6 DEF Lifecycle
<1>3. CASE ReadinessRun
  BY <1>3 DEF ReadinessRun, TakeReadinessEvent, ReadRecords, ReadinessDone, ReadinessCheck,
     ReadinessWrite, ReadinessRecord, ListPullRequests, TellPullRequest, AllTold, Reads, Provider
<1>4. CASE ContractCheck \/ Faults
  BY <1>4, ChecksMove DEF Faults, WriteFails, RunDies, Provider, IssueInv, Others
<1>5. CASE UNCHANGED vars
  BY <1>5 DEF vars
<1> QED
  BY <1>1, <1>2, <1>3, <1>4, <1>5 DEF Next

LEMMA LifecycleIsOff == ASSUME IssueInv, ~Enabled PROVE ~Lifecycle /\ ~WriteFails
<1>1. run.pc \notin Working
  BY DEF IssueInv, RunInv
<1>2. ~TakeEvent
  BY DEF TakeEvent
<1>3. /\ ~LoadIssue /\ ~LoadComments /\ ~LoadInventory /\ ~Decide /\ ~ReadBack /\ ~Restore
      /\ ~Finalize /\ ~NothingToRemove
  BY <1>1 DEF Working, Decided, LoadIssue, LoadComments, LoadInventory, Decide, ReadBack,
     Restore, Finalize, NothingToRemove
<1>4. ~RereadIssue /\ ~RereadComments /\ ~RereadInventory /\ ~ReplaceLabels /\ ~CloseCompleted
  BY <1>1 DEF Working, Decided, RereadIssue, RereadComments, RereadInventory, ReplaceLabels,
     CloseCompleted
<1>5. ~RemoveLabel /\ ~RepairGesture /\ ~WriteFails
  BY <1>1 DEF Working, Decided, RemoveLabel, RepairGesture, Delete, WriteFails
<1> QED
  BY <1>2, <1>3, <1>4, <1>5 DEF Lifecycle

LEMMA ReadinessNextKeeps == IssueInv /\ ReadinessInv /\ [Next]_vars => ReadinessInv'
<1> SUFFICES ASSUME IssueInv, ReadinessInv, [Next]_vars PROVE ReadinessInv'
  OBVIOUS
<1>1. Enabled' <=> Enabled
  BY ActivationStays DEF Enabled
<1>2. CASE Enabled
  BY <1>1, <1>2 DEF ReadinessInv
<1>3. CASE ~Enabled
  <2>1. CASE UNCHANGED vars
    <3>1. UNCHANGED <<issue, comments, pending, run, activation, refused>> /\ UNCHANGED Pulls
      BY <2>1 DEF vars, Pulls
    <3>2. (Told => Told') /\ ChecksInv'
      BY <1>3, <3>1, ToldStays, ChecksStay DEF ReadinessInv
    <3> QED
      BY <1>3, <3>1, <3>2, BesideReadiness DEF ReadinessInv
  <2>2. CASE Next
    BY <1>3, <2>2, PeopleKeepReadiness, ReadinessRunKeepsReadiness, ChecksKeepReadiness,
       LifecycleIsOff DEF Next, Faults
  <2> QED
    BY <2>1, <2>2
<1> QED
  BY <1>2, <1>3

LEMMA ReadinessInitEstablishes == Init => ReadinessInv
<1> SUFFICES ASSUME Init PROVE ReadinessInv
  OBVIOUS
<1>1. /\ run = NoRun /\ run.pc = "idle" /\ pending = <<>>
      /\ refused = [ever |-> FALSE, last |-> FALSE]
  BY DEF Init, NoRun
<1>2. PICK s, b, c :
        /\ issue.statuses = {s} /\ issue.body = b
        /\ c.kind = "readiness" /\ c.accepted /\ c.fp = b
        /\ comments = <<>> \/ comments = <<c>>
  <2>1. PICK s \in InitStates[activation], b \in Bodies \ Malformed :
          /\ issue = [statuses |-> {s}, foreign |-> {}, open |-> TRUE, reason |-> "none",
                      body |-> b, at |-> 0,
                      assignees |-> IF s \in {"inProgress"} \cup Tracked
                                    THEN {CHOOSE w \in Writers : TRUE} ELSE {}]
          /\ comments = IF s \in CurrentReadiness
                        THEN <<[kind |-> "readiness", accepted |-> TRUE, fp |-> b, on |-> "labeled"]>>
                        ELSE <<>>
    BY DEF Init
  <2> DEFINE c == [kind |-> "readiness", accepted |-> TRUE, fp |-> b, on |-> "labeled"]
  <2>2. c.kind = "readiness" /\ c.accepted /\ c.fp = b
    OBVIOUS
  <2>3. issue.statuses = {s} /\ issue.body = b
    BY <2>1
  <2>4. comments = <<>> \/ comments = <<c>>
    BY <2>1
  <2> HIDE DEF c
  <2> QED
    BY <2>2, <2>3, <2>4
<1>3. IsFiniteSet(issue.statuses)
  BY <1>2, FS_Singleton
<1>4. /\ LastExists(comments)
      /\ LastRecord(comments).accepted => LastRecord(comments).fp = issue.body
      /\ Readiness(comments) = {} \/ LastRecord(comments).accepted
  <2>1. CASE comments = <<>>
    <3>1. Readiness(comments) = {}
      BY <2>1 DEF Readiness
    <3>2. ~LastRecord(comments).accepted
      BY <3>1 DEF LastRecord
    <3> QED
      BY <3>1, <3>2 DEF LastExists
  <2>2. CASE comments = <<c>>
    <3>1. Readiness(comments) = {1} /\ comments[1] = c
      BY <1>2, <2>2 DEF Readiness
    <3>2. Max({1}) = 1
      BY DEF Max
    <3>3. LastRecord(comments) = c
      BY <3>1, <3>2 DEF LastRecord
    <3> QED
      BY <1>2, <3>1, <3>3 DEF LastExists
  <2> QED
    BY <1>2, <2>1, <2>2
<1>5. ShownInv /\ CallsInv
  BY <1>1 DEF ShownInv, CallsInv, Calling
<1>6. FitInv /\ ToldInv
  BY <1>4 DEF FitInv, Fit, ToldInv, Rejected
<1>7. ChecksInv
  <2>1. PICK p \in PRs, h \in Heads, opened \in BOOLEAN :
          /\ prs = [q \in PRs |-> IF opened /\ q = p
                                  THEN [state |-> "open", head |-> h, at |-> 0]
                                  ELSE NoPullRequest]
          /\ statuses = [g \in Heads |-> IF opened /\ g = h THEN Contexts ELSE {}]
    BY DEF Init
  <2>2. checks = [q \in PRs |-> NoCheck] /\ queued = [q \in PRs |-> NoCheck]
    BY DEF Init
  <2>3. \A q \in PRs : prs[q].state # "none" => prs[q].head \in Heads
    BY <2>1 DEF NoPullRequest
  <2>4. statuses = [g \in Heads |-> statuses[g]]
    BY <2>1
  <2> QED
    BY <2>2, <2>3, <2>4 DEF ChecksInv
<1> QED
  BY <1>1, <1>3, <1>4, <1>5, <1>6, <1>7 DEF ReadinessInv

LEMMA ReadinessInvariant == Spec => []IssueSafe
<1>1. Init => IssueSafe
  BY IssueInitEstablishes, ReadinessInitEstablishes DEF IssueSafe
<1>2. IssueSafe /\ [Next]_vars => IssueSafe'
  BY IssueNextKeeps, ReadinessNextKeeps DEF IssueSafe
<1> QED
  BY <1>1, <1>2, PTL DEF Spec

(* However many people edit, label, close and comment behind a readiness   *)
(* run, and whichever of their events replaces another in the queue: once  *)
(* the events are worked off, and the last one was neither dismissed nor   *)
(* its run lost, no issue whose status needs readiness has the acceptance  *)
(* of another body as its latest record (decideReadiness).                 *)
THEOREM AcceptancesFollowTheBody == Spec => []AcceptanceFollowsBody
<1>1. IssueSafe => AcceptanceFollowsBody
  <2> SUFFICES ASSUME IssueSafe, ~Enabled, WorkedOff PROVE Fit
    BY DEF AcceptanceFollowsBody, Fit
  <2>1. run.pc = "idle"
    BY DEF WorkedOff, NoRun
  <2> QED
    BY <2>1 DEF WorkedOff, IssueSafe, ReadinessInv, FitInv
<1> QED
  BY <1>1, ReadinessInvariant, PTL

(* A contract check publishes on the head it was asked for, in two posts,  *)
(* beside the runs of the issue; an open pull request that holds both      *)
(* statuses behind a recorded rejection is being checked, or a check of    *)
(* its head was overtaken by the invalidation or lost                      *)
(* (pr-contract-action.mjs, invalidateLinkedPullRequestContracts). As long *)
(* as no run failed, no push, return to an older head, reopening, edit or  *)
(* check, however many there are, makes another exception.                 *)
THEOREM RejectionsReachPullRequests == Spec => []RejectionReachesPullRequests
<1>1. IssueSafe => RejectionReachesPullRequests
  <2> SUFFICES ASSUME IssueSafe, ~Enabled, run = NoRun, ~refused.ever, Rejected,
                      NEW p \in PRs, prs[p].state = "open", Green(p)
               PROVE  Checking(p) \/ prs[p].head \in missed \/ Delivered(prs[p].head)
    BY DEF RejectionReachesPullRequests
  <2>1. run.pc = "idle"
    BY DEF NoRun
  <2>2. Told
    BY <2>1 DEF IssueSafe, ReadinessInv, ToldInv, Warning
  <2> QED
    BY <2>1, <2>2 DEF Told, Excused
<1> QED
  BY <1>1, ReadinessInvariant, PTL

=============================================================================
