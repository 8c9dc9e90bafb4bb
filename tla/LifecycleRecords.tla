--------------------------- MODULE LifecycleRecords ---------------------------
(***************************************************************************)
(* The record log of one issue and the programs that extend it             *)
(* (src/quality/lifecycle-*.mjs): the coordinator that plans one record    *)
(* per wake-up, the producers it calls, the writer that publishes a record *)
(* in four provider calls, the reader that authenticates the log, and the  *)
(* recovery of an interrupted publication.                                 *)
(*                                                                         *)
(* A record comment is the index at which it was posted: record and body   *)
(* digests bind a comment to its content, so two comments are equal when   *)
(* their indices are.  An anchor is the artifact that names a comment, an  *)
(* attestation the provider's statement about an anchor.  The workflows    *)
(* run one coordination of an issue at a time (concurrency group           *)
(* issue-lifecycle-N), so there is one run; people and other workflows     *)
(* change what it reads at any time.  An ordered list of records is the    *)
(* set of their indices.                                                   *)
(***************************************************************************)
EXTENDS Integers, Sequences, FiniteSets, FiniteSetsExt

CONSTANTS
  LiveLimit,    \* LIVE_SUFFIX_LIMIT, 15 in the code
  MaxComments,  \* bound: record comments that the provider accepts
  MaxEvents,    \* bound: changes of what the runs read, lost runs and deleted comments
  MaxCommands   \* bound: recovery commands

ASSUME RecordsAssumption ==
  /\ {LiveLimit, MaxComments, MaxEvents, MaxCommands} \subseteq Nat
  /\ LiveLimit >= 4   \* a request, its fence and two results

VARIABLES
  facts,     \* the issue, its accepted readiness and its linked pull requests
  timeline,  \* the record comments ever posted
  removed,   \* those that a person deleted
  anchored,  \* those an artifact names
  attested,  \* those whose artifact is attested
  failed,    \* those whose writing run ended without success
  commands,  \* recovery commands: the comment each of them targets, None when deleted
  run,       \* the run that holds the issue's concurrency group
  been,      \* history: the generation inputs that were true at some instant
  spent      \* how much of the bounds is used

log == <<timeline, removed, anchored, attested, failed>>
vars == <<facts, timeline, removed, anchored, attested, failed, commands, run, been, spent>>

None == 0

(* The inputs of a generation.  seen is the readiness record the comments  *)
(* showed: it counts when it was given for the issue's present body, and   *)
(* then its own time stands for the issue's; otherwise the provider's does *)
(* which every comment moves.  rev stands for the labels, the pull         *)
(* request's head, draft state and update time, and the protected commit.  *)
Accepted(f, seen) == seen.at # 0 /\ seen.body = f.body

Inputs(f, seen) ==
  [updated |-> IF Accepted(f, seen) THEN [by |-> "readiness", at |-> seen.at]
               ELSE [by |-> "provider", at |-> Len(timeline) + spent.changes],
   rev     |-> f.rev,
   pull    |-> f.pull > 0]

Actual(f) == IF Accepted(f, f.accepted) THEN {Inputs(f, f.accepted)} ELSE {}

NoInputs == [updated |-> [by |-> "provider", at |-> 0], rev |-> 0, pull |-> FALSE]

Generation(inputs, attempt) == [inputs |-> inputs, attempt |-> attempt]

\* The producers of a generation; the issue's contract is the first of them.
Expected(inputs) == {"issue-contract-current"} \cup (IF inputs.pull THEN {"pr-contract"} ELSE {})

Blank ==
  [type |-> "none", generation |-> Generation(NoInputs, 0), prior |-> None, expected |-> {},
   phase |-> "none", outcome |-> "none", settles |-> None, request |-> None, fence |-> None,
   producer |-> "none", conclusion |-> "none", results |-> {},
   sequence |-> 0, root |-> None, members |-> {}]

Idle == [phase |-> "idle", command |-> 0, direct |-> FALSE, ignored |-> None, orphanFailed |-> FALSE,
         settling |-> FALSE, records |-> {}, seen |-> [body |-> 0, at |-> 0], plan |-> Blank,
         posted |-> None, reason |-> "none"]

Init ==
  /\ \E at \in {0, 1}, pull \in {0, 1} :
       facts = [body |-> 0, accepted |-> [body |-> 0, at |-> at], rev |-> 0, pull |-> pull]
  /\ timeline = <<>>
  /\ removed = {} /\ anchored = {} /\ attested = {} /\ failed = {}
  /\ commands = <<>>
  /\ run = Idle
  /\ spent = [changes |-> 0, faults |-> 0, deletions |-> 0]
  /\ been = Actual(facts)

-----------------------------------------------------------------------------
(* Reading the log.                                                        *)

IsCheckpoint(i) == timeline[i].type = "transition"

\* A fence that ends the generation it belongs to without a checkpoint.
Closes(i) ==
  timeline[i].type = "fence"
    /\ (timeline[i].outcome = "superseded" \/ (timeline[i].phase = "recovery" /\ timeline[i].outcome = "settled"))

Marked(ignored) == (DOMAIN timeline \ removed) \ {ignored}

\* Mutant: an anchor whose comment is gone is not noticed.
ReconciledComments(ignored) == Marked(ignored) \subseteq anchored

\* Every record comment is anchored, and every anchored comment is still there.
Reconciled(ignored) ==
  /\ Marked(ignored) \subseteq anchored
  /\ anchored \subseteq Marked(ignored)

\* The last of the ids, None when there is none.
Newest(ids) == Max({None} \cup ids)

NewestCheckpoint(ids) == Newest({i \in ids : IsCheckpoint(i)})

\* The newest checkpoint and what follows it: the records that are still live.
Live(ids) == {i \in ids : i >= NewestCheckpoint(ids)}

\* One chain: each of the ids follows another one of them or the root, and none
\* is followed twice.
Chained(ids, root) ==
  /\ \A i \in ids : timeline[i].prior \in ids \cup {root}
  /\ \A i, j \in ids : timeline[i].prior = timeline[j].prior => i = j

\* What lies between a checkpoint and its root along the predecessors is there,
\* and is what the checkpoint says it compacts.
Compacts(checkpoint) ==
  LET r == timeline[checkpoint] IN
  /\ r.root = None \/ (r.root \notin removed /\ IsCheckpoint(r.root))
  /\ removed \cap r.members = {}
  /\ Cardinality(r.members) <= LiveLimit
  /\ Chained({checkpoint} \cup r.members, r.root)

CheckpointHolds(checkpoint) ==
  LET r == timeline[checkpoint] IN
  /\ r.sequence = IF r.root = None THEN 1 ELSE timeline[r.root].sequence + 1
  /\ r.members # {}
  /\ Compacts(checkpoint)

\* One artifact of the repository names the comment.
HasAnchor(i) == i \in anchored

\* One attestation of the anchor, whose verified claims are those of the run
\* that wrote it.
HasAttestation(i) == i \in attested

\* The comment of a record, its anchor and the anchor's attestation, each read by itself.
Witnessed(i) == i \notin removed /\ HasAnchor(i) /\ HasAttestation(i)

Authenticated(ids) == \A i \in ids : Witnessed(i)

Readable(ignored) ==
  LET ids == Live(Marked(ignored))
      checkpoint == NewestCheckpoint(ids)
  IN /\ Reconciled(ignored)
     /\ Cardinality(ids \ {checkpoint}) <= LiveLimit
     /\ Authenticated(ids)
     /\ Chained(ids \ {checkpoint}, checkpoint)
     /\ checkpoint # None => CheckpointHolds(checkpoint)

History(ignored) == Live(Marked(ignored))

-----------------------------------------------------------------------------
(* What the coordinator plans from an authenticated history and the facts. *)

\* Of the generation that is open, if any.
Active(records) == {i \in records : i > Newest({j \in records : IsCheckpoint(j) \/ Closes(j)})}

\* Mutant: a checkpoint covers its own generation only.
SuffixOfGeneration(records) == Active(records)

\* All records since the last checkpoint, superseded generations included.
Suffix(records) == {i \in records : i > NewestCheckpoint(records)}

IsSettlement(i) == timeline[i].type = "fence" /\ timeline[i].phase = "recovery" /\ timeline[i].outcome = "settled"

Attempt(records) ==
  LET last == Newest({i \in records : IsSettlement(i)})
  IN IF last = None THEN 0 ELSE timeline[last].generation.attempt

OfType(records, type) == {i \in records : timeline[i].type = type}

\* The first producer that has no result among the records, if one is missing.
FirstWithout(results, request) ==
  LET missing == timeline[request].expected \ {timeline[i].producer : i \in results}
  IN IF "issue-contract-current" \in missing THEN "issue-contract-current"
     ELSE IF missing # {} THEN "pr-contract" ELSE "none"

\* Mutant: a result of an earlier generation counts as well.
NextProducerOfLog(records, request) == FirstWithout(OfType(records, "producer"), request)

NextProducer(records, request) == FirstWithout(OfType(Active(records), "producer"), request)

Request(records, generation) ==
  [Blank EXCEPT !.type = "request", !.generation = generation, !.prior = Newest(records),
                !.expected = Expected(generation.inputs)]

Claim(records, request) ==
  [Blank EXCEPT !.type = "fence", !.generation = timeline[request].generation, !.prior = Newest(records),
                !.phase = "phase-one", !.outcome = "claimed", !.request = request]

Supersession(records, request) ==
  [Blank EXCEPT !.type = "fence", !.generation = timeline[request].generation, !.prior = Newest(records),
                !.phase = "request", !.outcome = "superseded", !.request = request]

Settlement(records, inputs, orphan) ==
  [Blank EXCEPT !.type = "fence",
                !.generation = Generation(inputs, timeline[orphan].generation.attempt + 1),
                !.prior = Newest(records), !.phase = "recovery", !.outcome = "settled", !.settles = orphan]

Wire(generation, request, fence, producer) ==
  [Blank EXCEPT !.type = "producer", !.generation = generation, !.request = request, !.fence = fence,
                !.producer = producer]

Transition(records, generation, request, fence) ==
  LET results == OfType(Active(records), "producer")
      root == NewestCheckpoint(records)
  IN [Blank EXCEPT !.type = "transition", !.generation = generation, !.prior = Newest(records),
        !.request = request, !.fence = fence, !.results = results,
        !.outcome = IF \A i \in results : timeline[i].conclusion = "success" THEN "planned" ELSE "failed",
        !.sequence = IF root = None THEN 1 ELSE timeline[root].sequence + 1,
        !.root = root, !.members = Suffix(records)]

\* Mutant: the attempts are compared and the facts are not.
SameAttempt(request, generation) == timeline[request].generation.attempt = generation.attempt

SameGeneration(request, generation) == timeline[request].generation = generation

\* Mutant: an issue that has a checkpoint is never taken up again.
DoneOnce(records, generation) == NewestCheckpoint(records) # None

\* The last checkpoint is of the present generation.
Done(records, generation) ==
  LET last == NewestCheckpoint(records) IN last # None /\ timeline[last].generation = generation

\* One obligation per wake-up; Blank when there is none.
Plan(records, inputs) ==
  LET generation == Generation(inputs, Attempt(records))
      active == Active(records)
      request == Min(active)
      fences == OfType(active, "fence")
      next == NextProducer(records, request)
  IN IF active = {}
     THEN IF Done(records, generation) THEN Blank ELSE Request(records, generation)
     ELSE IF ~SameGeneration(request, generation) THEN Supersession(records, request)
     ELSE IF fences = {} THEN Claim(records, request)
     ELSE IF next # "none" THEN Wire(generation, request, Min(fences), next)
     ELSE Transition(records, generation, request, Min(fences))

-----------------------------------------------------------------------------
(* The run.                                                                *)

Within == spent.changes + spent.faults + spent.deletions < MaxEvents

Go(phase) == run' = [run EXCEPT !.phase = phase]
Refuse(reason) == run' = [run EXCEPT !.phase = "refused", !.reason = reason]

Eligible == {k \in DOMAIN commands : commands[k] # None}

\* A wake-up: of a recovery command's own comment, or of anything else, and
\* then the oldest command that a maintainer gave is looked for.
Wake(k) ==
  /\ run.phase = "idle"
  /\ LET found == IF k # 0 THEN k ELSE IF Eligible = {} THEN 0 ELSE Min(Eligible)
     IN run' = [Idle EXCEPT !.command = found, !.direct = (k # 0),
                            !.phase = IF found = 0 THEN "history" ELSE "orphan"]
  /\ UNCHANGED <<facts, log, commands, been, spent>>

\* The comment the command targets, None when the command is gone.
Commanded == commands[run.command]

\* Exactly one record comment, without anchor and without attestation.
Orphaned(o) == o # None /\ o \notin removed /\ ~HasAnchor(o) /\ ~HasAttestation(o)

\* The run that posted it has ended without success.
Abandoned(o) == o \in failed

\* The command and the comment it targets, each read twice.
ReadOrphan ==
  /\ run.phase = "orphan"
  /\ LET o == Commanded IN
     IF ~Orphaned(o) THEN Refuse("orphan")
     ELSE run' = [run EXCEPT !.phase = "history", !.ignored = o, !.orphanFailed = Abandoned(o)]
  /\ UNCHANGED <<facts, log, commands, been, spent>>

\* One authenticated record names the orphan already.
Consumed(records, o) == \E i \in records : timeline[i].settles = o

ReadHistory ==
  /\ run.phase = "history"
  /\ LET o == run.ignored
         records == History(o)
         read == [run EXCEPT !.phase = "facts", !.records = records, !.seen = facts.accepted]
     IN IF ~Readable(o) THEN Refuse("history")
        ELSE IF o = None THEN run' = read
        ELSE IF Newest(records) # timeline[o].prior THEN Refuse("predecessor")
        ELSE IF ~run.orphanFailed THEN Refuse("orphan")
        ELSE IF ~Consumed(records, o) THEN run' = [read EXCEPT !.settling = TRUE]
        ELSE IF run.direct THEN run' = Idle
        ELSE run' = read
  /\ UNCHANGED <<facts, log, commands, been, spent>>

\* More than one open pull request names the issue.
Ambiguous == facts.pull > 1

\* The issue and its pull requests, read twice after the comments.
ReadFacts ==
  /\ run.phase = "facts"
  /\ LET inputs == Inputs(facts, run.seen)
         plan == IF run.settling THEN Settlement(run.records, inputs, run.ignored)
                 ELSE Plan(run.records, inputs)
         attempts == {timeline[i].generation.attempt : i \in run.records}
     IN IF Ambiguous THEN Refuse("pull requests")
        ELSE IF run.settling /\ \E a \in attempts : plan.generation.attempt <= a THEN Refuse("attempt")
        ELSE IF plan = Blank THEN run' = Idle
        ELSE run' = [run EXCEPT !.plan = plan,
                                !.phase = IF plan.type = "producer" THEN "producer" ELSE "post"]
  /\ UNCHANGED <<facts, log, commands, been, spent>>

\* The producer's own job reads the log and the facts again.
ReadProducerHistory ==
  /\ run.phase = "producer"
  /\ IF Readable(None) /\ History(None) # {}
     THEN run' = [run EXCEPT !.phase = "evaluate", !.records = History(None), !.seen = facts.accepted]
     ELSE Refuse("history")
  /\ UNCHANGED <<facts, log, commands, been, spent>>

Current(wire, records, inputs) ==
  /\ wire.generation = Generation(inputs, wire.generation.attempt)
  /\ {wire.request, wire.fence} \subseteq Active(records)
  /\ SameGeneration(wire.request, wire.generation) /\ SameGeneration(wire.fence, wire.generation)
  /\ timeline[wire.fence].outcome = "claimed" /\ timeline[wire.fence].request = wire.request
  /\ NextProducer(records, wire.request) = wire.producer

\* The issue's contract holds while its readiness is current; what the pull
\* request's contract says is not modelled.
Conclusions(producer) ==
  IF producer = "pr-contract" THEN {"success", "failure"}
  ELSE {IF Accepted(facts, run.seen) THEN "success" ELSE "failure"}

Evaluate ==
  /\ run.phase = "evaluate"
  /\ IF Ambiguous \/ ~Current(run.plan, run.records, Inputs(facts, run.seen)) THEN Refuse("stale")
     ELSE \E c \in Conclusions(run.plan.producer) :
            run' = [run EXCEPT !.phase = "post", !.plan.prior = Newest(run.records), !.plan.conclusion = c]
  /\ UNCHANGED <<facts, log, commands, been, spent>>

\* The four steps of a publication.
Post ==
  /\ run.phase = "post"
  /\ Len(timeline) < MaxComments
  /\ timeline' = Append(timeline, run.plan)
  /\ run' = [run EXCEPT !.phase = "anchor", !.posted = Len(timeline) + 1]
  /\ UNCHANGED <<facts, removed, anchored, attested, failed, commands, been, spent>>

Anchor ==
  /\ run.phase = "anchor"
  /\ anchored' = anchored \cup {run.posted}
  /\ Go("attest")
  /\ UNCHANGED <<facts, timeline, removed, attested, failed, commands, been, spent>>

Attest ==
  /\ run.phase = "attest"
  /\ attested' = attested \cup {run.posted}
  /\ Go("verify")
  /\ UNCHANGED <<facts, timeline, removed, anchored, failed, commands, been, spent>>

Verify ==
  /\ run.phase = "verify"
  /\ IF Witnessed(run.posted) THEN run' = Idle ELSE Refuse("verification")
  /\ UNCHANGED <<facts, log, commands, been, spent>>

\* The run ends without success; so does the provider at its bound.
End ==
  /\ run.phase = "refused" \/ (run.phase = "post" /\ Len(timeline) = MaxComments)
  /\ failed' = failed \cup ({run.posted} \ {None})
  /\ run' = Idle
  /\ UNCHANGED <<facts, timeline, removed, anchored, attested, commands, been, spent>>

\* The runner dies, a provider call throws, or its answer is lost.
Lose ==
  /\ run.phase \notin {"idle", "refused"}
  /\ Within
  /\ spent' = [spent EXCEPT !.faults = @ + 1]
  /\ failed' = failed \cup ({run.posted} \ {None})
  /\ run' = Idle
  /\ UNCHANGED <<facts, timeline, removed, anchored, attested, commands, been>>

-----------------------------------------------------------------------------
(* People and other workflows.                                             *)

Change(f) ==
  /\ Within
  /\ facts' = f
  /\ spent' = [spent EXCEPT !.changes = @ + 1]
  /\ been' = been \cup (IF Accepted(f, f.accepted) THEN {Inputs(f, f.accepted)} ELSE {})
  /\ UNCHANGED <<log, commands, run>>

EditBody == Change([facts EXCEPT !.body = 1 - @])
AcceptReadiness == Change([facts EXCEPT !.accepted = [body |-> facts.body, at |-> spent.changes + 2]])
RejectReadiness == facts.accepted.at # 0 /\ Change([facts EXCEPT !.accepted.at = 0])
MoveFacts == Change([facts EXCEPT !.rev = @ + 1])
OpenPull == facts.pull < 2 /\ Change([facts EXCEPT !.pull = @ + 1, !.rev = @ + 1])
ClosePull == facts.pull > 0 /\ Change([facts EXCEPT !.pull = @ - 1, !.rev = @ + 1])

DeleteComment ==
  /\ Within
  /\ spent' = [spent EXCEPT !.deletions = @ + 1]
  /\ \E i \in DOMAIN timeline \ removed : removed' = removed \cup {i}
  /\ UNCHANGED <<facts, timeline, anchored, attested, failed, commands, run, been>>

DeleteCommand ==
  /\ \E k \in Eligible : commands' = [commands EXCEPT ![k] = None]
  /\ UNCHANGED <<facts, log, run, been, spent>>

\* A maintainer asks for the recovery of a comment that has no anchor.
Command ==
  /\ Len(commands) < MaxCommands
  /\ \E i \in DOMAIN timeline \ (removed \cup anchored) : commands' = Append(commands, i)
  /\ UNCHANGED <<facts, log, run, been, spent>>

People == EditBody \/ AcceptReadiness \/ RejectReadiness \/ MoveFacts \/ OpenPull \/ ClosePull
          \/ DeleteComment \/ DeleteCommand \/ Command

Scheduled == Wake(0)
Direct == \E k \in Eligible : Wake(k)

Steps ==
  \/ ReadOrphan \/ ReadHistory \/ ReadFacts \/ ReadProducerHistory \/ Evaluate
  \/ Post \/ Anchor \/ Attest \/ Verify \/ End

Next == Scheduled \/ Direct \/ Steps \/ Lose \/ People

\* The hourly schedule wakes every open issue, and a run that is not lost goes on.
Spec == Init /\ [][Next]_vars /\ WF_vars(Scheduled \/ Steps)

-----------------------------------------------------------------------------
(* Properties.                                                             *)

Ids == DOMAIN timeline

Producers == {"issue-contract-current", "pr-contract"}
Readiness == [body : {0, 1}, at : Nat]
InputSet == [updated : [by : {"readiness", "provider"}, at : Nat], rev : Nat, pull : BOOLEAN]
Record ==
  [type : {"none", "request", "fence", "producer", "transition"},
   generation : [inputs : InputSet, attempt : Nat], prior : Nat, expected : SUBSET Producers,
   phase : {"none", "phase-one", "request", "recovery"},
   outcome : {"none", "claimed", "superseded", "settled", "planned", "failed"},
   settles : Nat, request : Nat, fence : Nat,
   producer : {"none"} \cup Producers, conclusion : {"none", "success", "failure"},
   results : SUBSET Nat, sequence : Nat, root : Nat, members : SUBSET Nat]
Run ==
  [phase : {"idle", "orphan", "history", "facts", "producer", "evaluate", "post", "anchor",
            "attest", "verify", "refused"},
   command : Nat, direct : BOOLEAN, ignored : Nat, orphanFailed : BOOLEAN, settling : BOOLEAN,
   records : SUBSET Nat, seen : Readiness, plan : Record, posted : Nat,
   reason : {"none", "orphan", "history", "predecessor", "pull requests", "attempt", "stale",
             "verification"}]

\* The variables hold what the programs put there, and only a comment of a run
\* that ended is known as failed (lifecycle-record-writer.mjs).
TypeOK ==
  /\ facts \in [body : {0, 1}, accepted : Readiness, rev : Nat, pull : 0 .. 2]
  /\ spent \in [changes : Nat, faults : Nat, deletions : Nat]
  /\ timeline \in Seq(Record)
  /\ removed \subseteq Ids
  /\ attested \subseteq anchored /\ anchored \subseteq Ids
  /\ failed \subseteq Ids \ {run.posted}
  /\ run \in Run /\ run.posted \in {None, Len(timeline)}
  /\ commands \in Seq(Nat)
  /\ run.phase = "orphan" => run.command \in DOMAIN commands

\* However runs are lost and whatever people delete, the authenticated records
\* are one chain: each names as its predecessor the one authenticated before it,
\* never an interrupted publication and never a record that has a successor.
ChainIsLinear ==
  \A i \in attested : timeline[i].prior = Newest({j \in attested : j < i})

\* An authenticated request, its claimed fence and one result of each producer
\* the request expects, in order, all of the record's generation, which is
\* planned when all of them succeeded.
Earned(r) ==
  /\ {r.request, r.fence} \cup r.results \subseteq attested
  /\ \A j \in {r.request, r.fence} \cup r.results : timeline[j].generation = r.generation
  /\ timeline[r.fence].outcome = "claimed" /\ timeline[r.fence].request = r.request
  /\ {timeline[j].producer : j \in r.results} = Expected(r.generation.inputs)
  /\ \A j, k \in r.results : j < k =>
       timeline[j].producer = "issue-contract-current" /\ timeline[k].producer = "pr-contract"
  /\ \A j \in r.results : timeline[j].fence = r.fence
  /\ r.outcome = "planned" <=> \A j \in r.results : timeline[j].conclusion = "success"

\* Superseded generations, interrupted publications and facts that change behind
\* a run leave their records in the log; a checkpoint rests on its own
\* generation alone (transitionRecord).
CheckpointIsEarned == \A i \in attested : IsCheckpoint(i) => Earned(timeline[i])

\* A run reads the readiness before the issue and its pull request, so that the
\* generation it forms may never have existed; no checkpoint is made of such a one.
CheckpointWasTrue ==
  \A i \in attested : IsCheckpoint(i) => timeline[i].generation.inputs \in been

\* The live suffix is one record beyond what the reader accepts, and generations
\* that were given up have filled it.
Overflown ==
  /\ Cardinality(Suffix(Ids)) = LiveLimit + 1
  /\ \E i \in Suffix(Ids) : Closes(i)

\* What the writer publishes without interruption the reader accepts again, up to
\* and including the limit of the live suffix.  It ends in one way only: closed
\* generations fill the suffix, never one generation by itself, and by one record
\* beyond the limit, because the first that is too many is the last one written
\* (reconstructLifecycleHistory, planInertLifecycleCoordinatorStep).
WrittenIsReadable ==
  removed = {} /\ Ids \ {run.posted} \subseteq attested /\ run.phase \notin {"anchor", "attest"} =>
    \/ Readable(None) /\ Cardinality(Suffix(Ids)) <= LiveLimit
    \/ ~Readable(None) /\ Overflown

\* The suffix behind a checkpoint never outgrows the reader's limit, because a
\* generation that is superseded is compacted before the next one, and the writer
\* keeps a reserve for that (docs/qa/issue-lifecycle.md:398-445).
OverflowIsUnreachable == NewestCheckpoint(Ids) # None => Cardinality(Suffix(Ids)) <= LiveLimit

\* The record of a settlement that authenticates consumes its target: a later
\* command for it is not refused because the log went on (ADR-0012).
ReplayIsNoop ==
  run.phase = "refused" /\ run.reason = "predecessor" =>
    ~ \E i \in attested \ removed : timeline[i].settles = run.ignored

\* Something a person must repair, or a bound of the model.
Disturbed ==
  \/ Ids \ attested # {} \/ removed # {} \/ Eligible # {}
  \/ facts.pull > 1 \/ ~Accepted(facts, facts.accepted)
  \/ Len(timeline) = MaxComments

\* Nothing is left to do: no generation is open, and the last checkpoint is of
\* the present facts.
Finished ==
  LET done == NewestCheckpoint(Ids) IN
  /\ done # None /\ Active(Ids) = {}
  /\ timeline[done].generation.inputs = Inputs(facts, facts.accepted)

\* When the facts stay accepted and still and no publication was interrupted,
\* the wake-ups bring the issue to a checkpoint of these facts; the one other end
\* is a log that earlier generations have filled, which no wake-up repairs
\* (OverflowIsUnreachable is what the documents say of it).
Progress == <>[](Finished \/ Overflown \/ Disturbed)
=============================================================================
