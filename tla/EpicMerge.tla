------------------------------ MODULE EpicMerge ------------------------------
(***************************************************************************)
(* The guarded epic merge: processes that each try to merge one pull       *)
(* request into an epic branch, maintainers who reconcile what was left    *)
(* open, and the provider, where people push and merge at the same time.   *)
(*                                                                         *)
(* Code: quality/epic-merge-{broker,operation,store,adapter}.mjs.  A       *)
(* transaction of the SQLite store (BEGIN IMMEDIATE ... COMMIT) is one     *)
(* step, and so is each read through a port; between two awaits anything   *)
(* may happen.  A broker is one run of runGuardedEpicMerge in a process of *)
(* its own; a maintainer is one of reconcileEpicMergeOperation.            *)
(*                                                                         *)
(* Abstracted: one accepted target (claims of two targets never meet); the *)
(* base and the tip are counted by the commits on the target; a head is a  *)
(* number, and a push may put an earlier one back; what the policy, the    *)
(* authorization and the protection say is a content, eligible or not,     *)
(* that may be given up and come back; a load that is repeated to see it   *)
(* is stable is one read; digests, receipts, the shape of requests and of  *)
(* settlements.                                                            *)
(***************************************************************************)
EXTENDS Naturals, Sequences, FiniteSets, Functions

CONSTANTS
  Operation,    \* operation identities, which a caller may use twice
  PullRequest,
  Broker,
  Maintainer,
  Content,      \* what a fact may say
  Eligible,     \* the contents with which a merge is allowed
  MaxHead,      \* bound: the last head of a pull request
  None

ASSUME EpicMergeAssumption ==
  /\ MaxHead \in Nat
  /\ Eligible \subseteq Content
  /\ IsFiniteSet(PullRequest)
  /\ None \notin Operation \cup PullRequest \cup Content \cup Nat

(* What is loaded through a port of its own *)
Fact == {"policy", "authorization", "protection"}

(* loadInitialContext and revalidatePrepared, in the order of their reads *)
Loads == <<"policy", "authorization", "protection", "refs">>
Rechecks == <<"refs", "protection", "policy", "authorization", "pull-request">>

Context == [base: Nat, head: Nat, facts: [Fact -> Content \cup {None}]]
NoContext == [base |-> 0, head |-> 0, facts |-> [fact \in Fact |-> None]]

(* epic_operations and the claim in it *)
Preparation == [pull: PullRequest, base: Nat, head: Nat]

(* The settlements of an operation: one, or two when it was given up and   *)
(* then reconciled.                                                        *)
Result == {"cancelled", "indeterminate", "merged", "rejected"}
History == {<<>>} \cup {<<result>> : result \in Result} \cup
           {<<"indeterminate", result>> : result \in {"merged", "cancelled"}}

Phase == {"idle", "load", "prepare", "recheck", "cancel", "mark", "marked",
          "call", "await", "verify", "settle", "reject", "failed", "crashed",
          "denied", "merged", "indeterminate"}
Ended == {"crashed", "denied", "merged", "indeterminate"}

Run == [phase: Phase, step: Nat, operation: Operation \cup {None},
        pull: PullRequest \cup {None}, context: Context]
IdleRun == [phase |-> "idle", step |-> 0, operation |-> None, pull |-> None,
            context |-> NoContext]

(* A commit on the target, number n of it: the squash of a head.  Its tree *)
(* is that head's exactly when the head was up to date with commit n - 1.  *)
(* A pull request: its head, the base the provider shows for it, whether   *)
(* the head contains that base, and 0 or the commit it was merged as.      *)
Commit == [pull: PullRequest, head: Nat, exact: BOOLEAN]
Pull == [head: Nat, base: Nat, current: BOOLEAN, merged: Nat]

Observation == [pull: Pull \cup {None}, tip: Nat \cup {None}]
NoObservation == [pull |-> None, tip |-> None]
Reconciliation == [operation: Operation, from: {"prepared", "submitted", "indeterminate"},
                   submitted: BOOLEAN, seen: Observation]

(* What a run had loaded of a pull request, and the read that would notice *)
(* that it has changed.                                                    *)
Change == [operation: Operation, pull: PullRequest, context: Context,
           read: Range(Rechecks)]

ASSUME EpicNoneAssumption ==
  None \notin Result \cup Preparation \cup Pull \cup Reconciliation

VARIABLES
  target,       \* provider: the commits on the target branch
  pulls,        \* provider: the pull requests
  facts,        \* provider: what each fact says
  calls,        \* provider: what became of each broker's merge request
  operations,   \* store: epic_operations
  active,       \* store: the operations with a claim in epic_active_claims
  submissions,  \* store: epic_submissions
  settlements,  \* store: epic_settlements, in sequence
  run,          \* each broker's process
  reconciling,  \* each maintainer's process
  stale         \* history: changes before a claim that were not undone since

provider == <<target, pulls, facts, calls>>
store == <<operations, active, submissions, settlements>>
vars == <<provider, store, run, reconciling, stale>>

Init ==
  /\ target = <<>>
  /\ pulls \in [PullRequest -> [head: {0}, base: {0}, current: BOOLEAN, merged: {0}]]
  /\ facts \in [Fact -> Eligible]
  /\ calls = [b \in Broker |-> "none"]
  /\ operations = [o \in Operation |-> None]
  /\ active = {}
  /\ submissions = {}
  /\ settlements = [o \in Operation |-> <<>>]
  /\ run = [b \in Broker |-> IdleRun]
  /\ reconciling = [m \in Maintainer |-> None]
  /\ stale = {}
-----------------------------------------------------------------------------
(* The provider, and people who work with it *)

Tip == Len(target)

(* What a read of the recheck compares differs from what was loaded. *)
Differs(change) ==
  CASE change.read = "refs" ->
         \/ Tip # change.context.base
         \/ pulls[change.pull].head # change.context.head
    [] change.read = "pull-request" ->
         \/ pulls[change.pull].head # change.context.head
         \/ pulls[change.pull].base # change.context.base
         \/ pulls[change.pull].merged # 0
    [] OTHER -> facts[change.read] # change.context.facts[change.read]

(* Of the changes before a claim, those that are not undone stay. *)
KeepStale == stale' = {change \in stale : Differs(change)'}

(* A squash merge appends one commit to the target. *)
Merged(pull) ==
  /\ target' = Append(target, [pull |-> pull, head |-> pulls[pull].head,
                               exact |-> pulls[pull].current /\ pulls[pull].base = Tip])
  /\ pulls' = [pulls EXCEPT ![pull].merged = Tip + 1]

HumanMerges(pull) ==
  /\ pulls[pull].merged = 0
  /\ Merged(pull)
  /\ UNCHANGED <<facts, calls, store, run, reconciling>>
  /\ KeepStale

(* A push to an open pull request, of a commit or back to an earlier one,  *)
(* up to date with the target or not.                                      *)
Push(pull) ==
  /\ pulls[pull].merged = 0
  /\ \E head \in 0..MaxHead, base \in {pulls[pull].base, Tip}, current \in BOOLEAN :
       /\ head # pulls[pull].head
       /\ pulls' = [pulls EXCEPT ![pull] = [head |-> head, base |-> base,
                                            current |-> current, merged |-> 0]]
  /\ UNCHANGED <<target, facts, calls, store, run, reconciling>>
  /\ KeepStale

(* A label, a draft, a rule, a permission: changed, or changed back. *)
ChangeFact(fact) ==
  /\ \E content \in Content \ {facts[fact]} :
       facts' = [facts EXCEPT ![fact] = content]
  /\ UNCHANGED <<target, pulls, calls, store, run, reconciling>>
  /\ KeepStale

(* The merge request of a broker arrives, however late: it is accepted     *)
(* only for an open pull request with the head it names, and may always be *)
(* rejected.  That the head is up to date is not relied on (ADR-0009).     *)
ProviderAnswers(b) ==
  /\ calls[b] = "sent"
  /\ \/ /\ calls' = [calls EXCEPT ![b] = "rejected"]
        /\ UNCHANGED <<target, pulls>>
     \/ /\ pulls[run[b].pull].merged = 0
        /\ pulls[run[b].pull].head = run[b].context.head
        /\ Merged(run[b].pull)
        /\ calls' = [calls EXCEPT ![b] = "accepted"]
  /\ UNCHANGED <<facts, store, run, reconciling>>
  /\ KeepStale
-----------------------------------------------------------------------------
(* The store *)

(* Mutant: the pull request partitions the serialization key. *)
ContendedByPull(r) ==
  \E o \in active : operations[o].base = r.context.base
                    /\ operations[o].pull = r.pull

(* Another operation holds the claim of this target and base. *)
Contended(r) == \E o \in active : operations[o].base = r.context.base

(* The claim identity of a run is the one stored: it is derived from the   *)
(* base and the operation.                                                 *)
OwnsClaim(r) ==
  /\ operations[r.operation] # None
  /\ operations[r.operation].base = r.context.base

Latest(o) ==
  IF settlements[o] = <<>> THEN None ELSE settlements[o][Len(settlements[o])]

(* readOperation: the state of an operation *)
StateOf(o) ==
  CASE Latest(o) # None -> Latest(o)
    [] Latest(o) = None /\ o \in submissions -> "submitted"
    [] OTHER -> "prepared"

(* markOperationSubmitted: what it requires *)
Markable(r) ==
  /\ OwnsClaim(r)
  /\ r.operation \in active
  /\ r.operation \notin submissions
  /\ settlements[r.operation] = <<>>

(* settleOperation: what it requires, and what it does *)
Settleable(r) == OwnsClaim(r) /\ settlements[r.operation] = <<>>

(* Mutant: an unknown outcome releases the claim. *)
SettleReleasing(o, result) ==
  /\ settlements' = [settlements EXCEPT ![o] = Append(@, result)]
  /\ active' = active \ {o}
  /\ UNCHANGED <<operations, submissions>>

Settle(o, result) ==
  /\ settlements' = [settlements EXCEPT ![o] = Append(@, result)]
  /\ active' = IF result = "indeterminate" THEN active ELSE active \ {o}
  /\ UNCHANGED <<operations, submissions>>
-----------------------------------------------------------------------------
(* runGuardedEpicMerge *)

Goto(b, phase) == run' = [run EXCEPT ![b].phase = phase]

(* The next read of a list of reads, or the phase after the last one. *)
Advance(b, reads, phase, context) ==
  LET r == run[b]
      more == r.step < Len(reads)
  IN  run' = [run EXCEPT ![b] =
                [r EXCEPT !.step = IF more THEN r.step + 1 ELSE 1,
                          !.phase = IF more THEN r.phase ELSE phase,
                          !.context = context]]

Start(b) ==
  /\ run[b].phase = "idle"
  /\ \E o \in Operation, pull \in PullRequest :
       run' = [run EXCEPT ![b] = [@ EXCEPT !.phase = "load", !.step = 1,
                                           !.operation = o, !.pull = pull]]
  /\ UNCHANGED <<provider, store, reconciling, stale>>

RefsCurrent(r) ==
  Tip = r.context.base /\ pulls[r.pull].head = r.context.head

(* What a read adds to the context, and whether it passes. *)
Loaded(r, read) ==
  CASE read = "authorization" ->
         [r.context EXCEPT !.base = pulls[r.pull].base,
                           !.head = pulls[r.pull].head,
                           !.facts[read] = facts[read]]
    [] read \in Fact \ {"authorization"} -> [r.context EXCEPT !.facts[read] = facts[read]]
    [] OTHER -> r.context

LoadPasses(r, read) ==
  CASE read = "authorization" -> facts[read] \in Eligible /\ pulls[r.pull].merged = 0
    [] read \in Fact \ {"authorization"} -> facts[read] \in Eligible
    [] OTHER -> RefsCurrent(r)

(* loadInitialContext *)
Load(b) ==
  LET r == run[b]
      read == Loads[r.step]
  IN  /\ r.phase = "load"
      /\ IF LoadPasses(r, read)
           THEN Advance(b, Loads, "prepare", Loaded(r, read))
           ELSE Goto(b, "denied")
      /\ UNCHANGED <<provider, store, reconciling, stale>>

(* The pull request is the one the run loaded, and open. *)
SamePull(r) ==
  /\ pulls[r.pull].head = r.context.head
  /\ pulls[r.pull].base = r.context.base
  /\ pulls[r.pull].merged = 0

(* What has changed since a run loaded it *)
Changes(r) ==
  {change \in {[operation |-> r.operation, pull |-> r.pull, context |-> r.context,
                read |-> read] : read \in Range(Rechecks)} : Differs(change)}

(* persistPreparation: replayed, contended, or prepared with its claim *)
Prepare(b) ==
  LET r == run[b]
  IN  /\ r.phase = "prepare"
      /\ IF operations[r.operation] # None \/ Contended(r)
           THEN /\ Goto(b, "denied")
                /\ UNCHANGED <<store, stale>>
           ELSE /\ operations' = [operations EXCEPT ![r.operation] =
                     [pull |-> r.pull, base |-> r.context.base,
                      head |-> r.context.head]]
                /\ active' = active \cup {r.operation}
                /\ stale' = stale \cup Changes(r)
                /\ Goto(b, "recheck")
                /\ UNCHANGED <<submissions, settlements>>
      /\ UNCHANGED <<provider, reconciling>>

(* Mutant: what is loaded again only has to be eligible. *)
RecheckPassesEligible(r, read) ==
  IF read \in Fact THEN facts[read] \in Eligible ELSE SamePull(r)

(* A change that was undone passes: contents are compared, not times. *)
RecheckPasses(r, read) ==
  CASE read = "refs" -> RefsCurrent(r)
    [] read \in {"protection", "policy"} -> facts[read] = r.context.facts[read]
    [] read = "authorization" ->
         facts[read] = r.context.facts[read] /\ SamePull(r)
    [] OTHER -> SamePull(r)

(* Mutant: the operation is never marked as submitted. *)
RecheckUnmarked(b) ==
  LET r == run[b]
  IN  /\ r.phase = "recheck"
      /\ IF RecheckPasses(r, Rechecks[r.step])
           THEN Advance(b, Rechecks, "call", r.context)
           ELSE Goto(b, "cancel")
      /\ UNCHANGED <<provider, store, reconciling, stale>>

(* revalidatePrepared *)
Recheck(b) ==
  LET r == run[b]
  IN  /\ r.phase = "recheck"
      /\ IF RecheckPasses(r, Rechecks[r.step])
           THEN Advance(b, Rechecks, "mark", r.context)
           ELSE Goto(b, "cancel")
      /\ UNCHANGED <<provider, store, reconciling, stale>>

(* settleEpicMergeOperation with a terminal result: recorded and read      *)
(* back, or the run has failed.                                            *)
SettleTerminal(b, result, reply) ==
  /\ IF Settleable(run[b])
       THEN Settle(run[b].operation, result) /\ Goto(b, reply)
       ELSE Goto(b, "failed") /\ UNCHANGED store
  /\ UNCHANGED <<provider, reconciling, stale>>

(* cancelPrepared *)
Cancel(b) ==
  /\ run[b].phase = "cancel"
  /\ SettleTerminal(b, "cancelled", "denied")

(* markSubmitted: the marker, ... *)
Mark(b) ==
  /\ run[b].phase = "mark"
  /\ IF Markable(run[b])
       THEN /\ submissions' = submissions \cup {run[b].operation}
            /\ Goto(b, "marked")
       ELSE Goto(b, "failed") /\ UNCHANGED submissions
  /\ UNCHANGED <<provider, operations, active, settlements, reconciling, stale>>

(* ... and its read-back. *)
ReadMark(b) ==
  /\ run[b].phase = "marked"
  /\ Goto(b, IF StateOf(run[b].operation) = "submitted" THEN "call" ELSE "failed")
  /\ UNCHANGED <<provider, store, reconciling, stale>>

(* performMerge: the request, ... *)
Call(b) ==
  /\ run[b].phase = "call"
  /\ calls' = [calls EXCEPT ![b] = "sent"]
  /\ Goto(b, "await")
  /\ UNCHANGED <<target, pulls, facts, store, reconciling, stale>>

(* Mutant: a request that timed out counts as rejected. *)
ReceiveTimeout(b) ==
  /\ run[b].phase = "await"
  /\ Goto(b, IF calls[b] = "accepted" THEN "verify" ELSE "reject")
  /\ UNCHANGED <<provider, store, reconciling, stale>>

(* ... its answer, if one comes in time, ... *)
Receive(b) ==
  /\ run[b].phase = "await"
  /\ calls[b] \in {"accepted", "rejected"}
  /\ Goto(b, IF calls[b] = "accepted" THEN "verify" ELSE "reject")
  /\ UNCHANGED <<provider, store, reconciling, stale>>

(* Mutant: neither the commit's parent nor its tree is compared. *)
OutcomeMatchesPull(operation, pull, tip) ==
  pull.merged # 0 /\ pull.head = operation.head

(* epicMergeOutcomeMatchesOperation, epicMergeProviderOutcomeMatches: the  *)
(* pull request was merged as the one commit on the base, its tree is the  *)
(* head's, and it is the tip.                                              *)
OutcomeMatches(operation, pull, tip) ==
  /\ pull.merged # 0
  /\ pull.base = operation.base
  /\ pull.head = operation.head
  /\ tip = pull.merged
  /\ pull.merged = operation.base + 1
  /\ target[pull.merged].head = operation.head
  /\ target[pull.merged].exact

(* ... and what the target shows of it. *)
Verify(b) ==
  /\ run[b].phase = "verify"
  /\ Goto(b, IF OutcomeMatches(run[b].context, pulls[run[b].pull], Tip)
               THEN "settle" ELSE "failed")
  /\ UNCHANGED <<provider, store, reconciling, stale>>

SettleMerged(b) ==
  /\ run[b].phase = "settle"
  /\ SettleTerminal(b, "merged", "merged")

SettleRejected(b) ==
  /\ run[b].phase = "reject"
  /\ SettleTerminal(b, "rejected", "denied")

(* A port throws, a read-back does not match, or the answer is malformed   *)
(* or late; before there is an operation the run is denied.                *)
Fail(b) ==
  /\ run[b].phase \notin Ended \cup {"idle", "failed"}
  /\ Goto(b, IF run[b].phase = "load" THEN "denied" ELSE "failed")
  /\ UNCHANGED <<provider, store, reconciling, stale>>

(* indeterminateResult: the claim stays; recording it may fail too. *)
GiveUp(b) ==
  /\ run[b].phase = "failed"
  /\ \/ /\ Settleable(run[b])
        /\ Settle(run[b].operation, "indeterminate")
     \/ UNCHANGED store
  /\ Goto(b, "indeterminate")
  /\ UNCHANGED <<provider, reconciling, stale>>

(* The process of a run dies. *)
Crash(b) ==
  /\ run[b].phase \notin Ended \cup {"idle"}
  /\ Goto(b, "crashed")
  /\ UNCHANGED <<provider, store, reconciling, stale>>
-----------------------------------------------------------------------------
(* reconcileEpicMergeOperation *)

Open == {"prepared", "submitted", "indeterminate"}

Reconcile(m) ==
  /\ reconciling[m] = None
  /\ \E o \in Operation :
       /\ operations[o] # None
       /\ StateOf(o) \in Open
       /\ reconciling' = [reconciling EXCEPT ![m] =
            [operation |-> o, from |-> StateOf(o),
             submitted |-> o \in submissions, seen |-> NoObservation]]
  /\ UNCHANGED <<provider, store, run, stale>>

(* mergeObservation reads the pull request and the target's tip at once. *)
ObservePull(m) ==
  /\ reconciling[m] # None
  /\ reconciling[m].seen.pull = None
  /\ reconciling' = [reconciling EXCEPT ![m].seen.pull =
                       pulls[operations[reconciling[m].operation].pull]]
  /\ UNCHANGED <<provider, store, run, stale>>

ObserveTip(m) ==
  /\ reconciling[m] # None
  /\ reconciling[m].seen.tip = None
  /\ reconciling' = [reconciling EXCEPT ![m].seen.tip = Tip]
  /\ UNCHANGED <<provider, store, run, stale>>

(* The transition the observation proves. *)
ProvesMerged(c) ==
  /\ c.submitted
  /\ c.from \in {"submitted", "indeterminate"}
  /\ OutcomeMatches(operations[c.operation], c.seen.pull, c.seen.tip)

ProvesNoEffect(c) ==
  /\ ~c.submitted
  /\ c.from \in {"prepared", "indeterminate"}
  /\ c.seen.pull.merged = 0
  /\ c.seen.pull.base = operations[c.operation].base
  /\ c.seen.pull.head = operations[c.operation].head
  /\ c.seen.tip = operations[c.operation].base

(* Mutant: the state is not compared when it is settled. *)
PermittedUnread(c, result) == c.operation \in active

(* settleReconciliation: the operation still is in the state it was read   *)
(* in, and only a submitted one was merged, only another one cancelled.    *)
Permitted(c, result) ==
  /\ c.operation \in active
  /\ StateOf(c.operation) = c.from
  /\ IF result = "merged"
       THEN /\ c.operation \in submissions
            /\ c.from \in {"submitted", "indeterminate"}
       ELSE /\ c.operation \notin submissions
            /\ c.from \in {"prepared", "indeterminate"}

SettleReconciliation(m) ==
  LET c == reconciling[m]
      result == IF ProvesMerged(c) THEN "merged" ELSE "cancelled"
  IN  /\ c # None
      /\ c.seen.pull # None
      /\ c.seen.tip # None
      /\ IF (ProvesMerged(c) \/ ProvesNoEffect(c)) /\ Permitted(c, result)
           THEN Settle(c.operation, result)
           ELSE UNCHANGED store
      /\ reconciling' = [reconciling EXCEPT ![m] = None]
      /\ UNCHANGED <<provider, run, stale>>

(* A reconciliation that is blocked, throws or dies leaves nothing. *)
AbandonReconciliation(m) ==
  /\ reconciling[m] # None
  /\ reconciling' = [reconciling EXCEPT ![m] = None]
  /\ UNCHANGED <<provider, store, run, stale>>
-----------------------------------------------------------------------------
BrokerStep(b) ==
  \/ Start(b) \/ Load(b) \/ Prepare(b) \/ Recheck(b) \/ Cancel(b)
  \/ Mark(b) \/ ReadMark(b) \/ Call(b) \/ Receive(b) \/ Verify(b)
  \/ SettleMerged(b) \/ SettleRejected(b) \/ Fail(b) \/ GiveUp(b) \/ Crash(b)

MaintainerStep(m) ==
  \/ Reconcile(m) \/ ObservePull(m) \/ ObserveTip(m)
  \/ SettleReconciliation(m) \/ AbandonReconciliation(m)

Next ==
  \/ \E b \in Broker : BrokerStep(b) \/ ProviderAnswers(b)
  \/ \E m \in Maintainer : MaintainerStep(m)
  \/ \E pull \in PullRequest : HumanMerges(pull) \/ Push(pull)
  \/ \E fact \in Fact : ChangeFact(fact)

Spec == Init /\ [][Next]_vars
-----------------------------------------------------------------------------
TypeOK ==
  /\ target \in Seq(Commit)
  /\ pulls \in [PullRequest -> Pull]
  /\ facts \in [Fact -> Content]
  /\ calls \in [Broker -> {"none", "sent", "accepted", "rejected"}]
  /\ operations \in [Operation -> Preparation \cup {None}]
  /\ active \subseteq {o \in Operation : operations[o] # None}
  /\ submissions \subseteq {o \in Operation : operations[o] # None}
  /\ settlements \in [Operation -> History]
  /\ run \in [Broker -> Run]
  /\ reconciling \in [Maintainer -> Reconciliation \cup {None}]
  /\ stale \subseteq Change

(* A request that may still be carried out, however late it arrives, holds *)
(* the claim of its target and base: nobody releases it by cancelling,     *)
(* reconciling or giving up while the outcome is open (ADR-0009, "The      *)
(* ambiguous claim remains blocked").                                      *)
PendingCallHoldsClaim ==
  \A b \in Broker :
    /\ calls[b] = "sent"
    /\ pulls[run[b].pull].merged = 0
    /\ pulls[run[b].pull].head = run[b].context.head
    => run[b].operation \in active

(* An accepted operation makes at most one provider call, whatever its     *)
(* callers repeat and whichever of their processes die, and none before    *)
(* its marker is durable (ADR-0009, "submits at most once").             *)
OneCallPerOperation ==
  \A b \in Broker :
    calls[b] # "none" =>
      /\ run[b].operation \in submissions
      /\ \A c \in Broker \ {b} :
           calls[c] # "none" => run[c].operation # run[b].operation

(* Of the operations on one base, at most one is submitted and open: two   *)
(* pull requests never race at the provider.                               *)
OneOpenSubmissionPerBase ==
  \A o, p \in submissions :
    /\ StateOf(o) \in Open
    /\ StateOf(p) \in Open
    /\ operations[o].base = operations[p].base
    => o = p

(* An operation recorded as merged is the commit on its base: its parent   *)
(* is the base that was authorized and its tree the head that was.         *)
MergedIsExact ==
  \A o \in Operation :
    Latest(o) = "merged" =>
      /\ Tip > operations[o].base
      /\ target[operations[o].base + 1] =
           [pull |-> operations[o].pull, head |-> operations[o].head, exact |-> TRUE]

(* A run that was denied has merged nothing, and neither has an operation  *)
(* that is recorded as cancelled or rejected.                              *)
DeniedHadNoEffect ==
  \A b \in Broker :
    \/ run[b].phase = "denied"
    \/ run[b].operation # None /\ Latest(run[b].operation) \in {"cancelled", "rejected"}
    => calls[b] \in {"none", "rejected"}

(* What had changed between a run's first look and its claim is noticed    *)
(* under the claim unless it is changed back first: with a difference that *)
(* lasted from the claim on, in any one thing that was authorized, nothing *)
(* is submitted.  One that came and went is not noticed: revalidatePrepared*)
(* compares contents.                                                      *)
StaleIsNeverSubmitted ==
  \A change \in stale : change.operation \notin submissions
=============================================================================
