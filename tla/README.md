# Keiko Native in TLA+

This directory holds TLA+ models of Keiko Native, the TLC configurations that check them on small
instances, and TLAPS proofs of every safety property a passing run checks. The code is the reference:
paths below are relative to `src/`.

## The system and its parts

Keiko Native is a macOS desktop application (a Rust host and a web frontend) with a large body of
repository governance code (Node.js) that decides what may be merged, released and recorded. The
parts with state and with behaviour that is hard to test are these.

### Native host: lifecycle (`native/crates/keiko-host-macos/src/{lib,request_timing,acknowledgement,request_adapter,document_nonce,tauri_adapter}.rs`, `native/crates/keiko-ui-port/src/lib.rs`)

- State: `HostLifecycle` behind one Mutex: whether it accepts, the generation counter, the current
  renderer session (generation, nonce, last sequence, 64-entry replay window, acknowledgement), the
  requests in flight with their start, timeout and first cancellation, the count of pending page
  loads and whether they are ambiguous.
- Operations: page load started / finished (`handle_page_load`), renderer lost, shutdown,
  `application_request` (begin, dispatch, complete), `application_cancel`.
- Hard: a request is two critical sections, and anything may happen between them: its
  cancellation, its deadline, the replacement of its document. Finished events carry no document
  identity, so overlapping loads are told apart by a count.
- Correct means: one document at a time has authority, retired authority never returns, a request
  is accepted once, answered once, only while its document is current, and canceller and requester
  hear the same outcome.

### Native host: foundation (`foundation.rs`, `native/crates/keiko-application/src/lib.rs`)

- State: the `FoundationApplication` (surface, committed text) behind a second Mutex, and two files
  (welcome dismissed, committed text) replaced by staging, rename and directory sync.
- Operations: nine, of which two persist (`dismiss-welcome`, `commit-canvas-text`), one quits and
  one opens a link.
- Hard: staging happens before the lifecycle's completion gate and the effect after it; each system
  call may fail; the process or the machine may die at any step.
- Correct means: what was reported as saved is durable, a cancelled request leaves nothing durable,
  memory agrees with the file, and every handler ends.

### Renderer frontend (`native/frontend/src/{port,main,foundation}.ts`)

- State: per port a sequence counter and the authority it awaits; the view that is presented; for
  every rendering of the canvas a model of its own (committed text, whether a composition is under
  way, its generation) and the commits that compositions deferred; the text field in the document.
- Operations: start-up (health twice, load), buttons, typing, composition start, update and end,
  focus loss, the deferred commit, and the presentation of whatever answer arrives.
- Hard: answers arrive in another order than their requests; each one renders the canvas anew while
  older renderings still own deferred commits; focus may be lost after a composition ended.
- Correct means: text that was given up is not committed.

### Guarded epic merge (`quality/epic-merge-*.mjs`)

- State: a SQLite store of operations, active claims per target and base, submissions and
  append-only settlements; outside it the target branch and the pull requests at GitHub.
- Operations: `runGuardedEpicMerge` (load, prepare, revalidate, mark submitted, merge, verify,
  settle) and `reconcileEpicMergeOperation` by a maintainer.
- Hard: several processes share the store; a merge call may be lost, late or rejected; a process
  may die between the submission mark and the settlement; humans push and merge meanwhile.
- Correct means: a merge request that may still be carried out holds the claim of its base, an
  operation makes at most one call, what had changed when it was prepared is noticed before it is
  submitted, nothing unsubmitted is recorded as merged, nothing submitted is cancelled, and a recorded
  merge is the commit on the target.

### Lifecycle record log and coordinator (`quality/lifecycle-{record-*,coordinator*,producer*,github-provider,wake*}.mjs`)

- State: an append-only chain of issue comments, each with an anchor artifact and an attestation:
  generation requests, phase fences (claimed, superseded, settled), producer results, transitions;
  checkpoints bound the live suffix to 15 records.
- Operations: one coordination per wake-up reads the log and the facts, plans one record (request,
  claim, producer result, transition, supersession or settlement), and publishes it in four provider
  calls; a maintainer may command the settlement of an interrupted publication.
- Hard: nothing is read at one instant; a run dies between any two calls; comments are deleted.
- Correct means: what authenticates is one chain, a checkpoint rests on one generation that was true,
  what was written can be read, and an undisturbed issue reaches its checkpoint.

### Wake routing (`quality/lifecycle-wakeup-router.mjs`, `quality/lifecycle-wake.mjs`)

- State: none; a resolver reads pages of issues, pull requests, runs and artifacts twice.
- Hard: the pages shift while issues and pull requests open and close, pull requests are edited, and
  runs run again.
- Correct means: the issues that are woken are those of one moment.

### Lifecycle handoff (`quality/lifecycle-handoff*.mjs`, `quality/publication-c*.mjs`)

- State: the input generation of a pull request with its attempts, reports and recovery.
- Hard: reports come late, twice, or for inputs that were left and came back.
- Correct means: a success of a head rests on what was true of that head.

### Merge groups and contract chains (`quality/merge-group.mjs`, `quality/repository-contract-chain.mjs`)

- State: the group's two reads, its stored snapshot and the ledger of invalidated ones; the
  published and quarantined contracts of an issue.
- Correct means: a published group is one the queue formed of certified heads; a chain that is
  accepted has no gap and no fork.

### Issue lifecycle, readiness and contract actions (`quality/issue-lifecycle*.mjs`, `quality/issue-readiness-action.mjs`, `quality/pr-contract*.mjs`)

- State: issue labels, readiness and observation comments, the contract statuses of commits; one
  workflow run of an issue at a time reads, decides, and writes one call at a time, and beside it one
  contract check of each pull request at a time, in a concurrency group of its own
  (`.github/workflows/pr-contract.yml:81`).
- Hard: people edit between two calls; a run dies between two writes; requests are replayed; a check
  that has read the old readiness publishes behind the run that withdraws it.
- Correct means: labels move along the contract's edges, a run writes what it decided on one
  instant, a request is applied once, readiness does not outlive the body it accepted, and its
  withdrawal reaches the pull requests.

### Packaging and the packaged run (`quality/native-{snapshot,package,package-publication,fs*,lifecycle}.*`)

- State: the package directory, the descriptors opened on it, the staging directory and the delivery;
  a child process with its group, its acknowledgement and its deadlines.
- Hard: the package changes between check and use; the helper is killed; descendants outlive the
  child.
- Correct means: the delivery is the former one or the whole package; a run that is reported as clean
  left nothing running.

### Epic merge policy, release engineering, transport, validators

Pure functions over documents, and scripts that run tools and compare their output. They keep no
state between steps.

### How the parts interact

The frontend calls the two host handlers through Tauri commands; both handlers share the
`HostLifecycle` Mutex, and a foundation handler takes it while it holds its own. Everything in
`quality/` runs as a separate process (a workflow run or a developer's command) and meets the others
only through what is stored: GitHub's issues, comments, labels, statuses and branches, the SQLite
store of the epic merge, and the file system.

## Modules

| Module | What it is |
|---|---|
| `HostLifecycle` | the native host's lifecycle: documents, authority, requests, cancellation, acknowledgement |
| `RendererAuthority`, `HostLifecycleRefinement` | abstract: what the lifecycle promises its documents; the refinement mapping |
| `HostLifecycleProofs` | the inductive invariant of `HostLifecycle` and its theorems |
| `HostAuthorityProofs` | installs, acknowledgements, and that `HostLifecycle` implements `RendererAuthority` |
| `FoundationHost` | EXTENDS `HostLifecycle`: foundation requests, their two files, crash and restart |
| `FoundationHostProofs` | the inductive invariant of the composed system and its theorems |
| `EpicMerge` | brokers, maintainers, the operation store and the provider |
| `MergeLedger`, `EpicMergeRefinement` | abstract: what may become of an operation; the refinement mapping |
| `EpicMergeProofs` | the inductive invariant of `EpicMerge`, its theorems, and that it implements `MergeLedger` |
| `IssueLifecycle` | one issue, its label, readiness and requests, the two actions, the contract checks of its pull requests, and the people |
| `IssueLifecycleProofs` | the inductive invariant of `IssueLifecycle` and its theorems |
| `LifecycleRecords` | the record log of one issue, its coordinator, producers, writer and recovery |
| `RecordsProofs` | the inductive invariant of `LifecycleRecords` and its theorems |
| `LifecycleHandoff` | input generations of a pull request and the handoff decision |
| `MergeGroup` | the merge group evaluator beside a moving queue |
| `ContractChain` | the validator of a history of contracts |
| `WakeRouting` | the five resolvers beside a moving repository |
| `PackagePublication` | capture, build, binding, validation, exchange and clean-up of a package |
| `PackagedLifecycle` | one run of the packaged shell |
| `PartsProofs` | the inductive invariants of `LifecycleHandoff`, `MergeGroup`, `WakeRouting`, `PackagePublication` and `PackagedLifecycle`, the order of a chain of `ContractChain`, and their theorems |
| `Renderer` | the port, the start-up and the text field of the frontend |
| `RendererProofs` | the inductive invariant of `Renderer` and its theorem |
| `MCHostLifecycle`, `MCFoundationHost`, `MCEpicMerge`, `MCIssueLifecycle`, `MCLifecycleRecords` | the constants TLC needs |
| `MCParts` | `LifecycleHandoff`, `MergeGroup`, `ContractChain`, `WakeRouting`, `PackagePublication`, `PackagedLifecycle` and `Renderer` side by side |

`MCParts` is a sum, not a composition: the seven modules share no variable and their programs never
call each other, so a behaviour moves one of them and the others rest in one initial state. One run
then checks all seven, and its states are the sum of theirs.

### HostLifecycle

`host` is the `HostLifecycle` struct, `now` the monotonic clock, `loads` and `unfinished` the document
loads of the webview, and `accepted` the tokens of the handlers that are between their two critical
sections. The struct's methods are operators from a host record to a host record (`BeginPageLoad`,
`FinishPageLoad`, `Retire`, `BeginSession`, `Begin`, `Cancel`, `Complete`), because handlers call
several of them in a row; an action is what one handler does under the Mutex: `PageLoadStarted`,
`PageLoadFinished` (with the `renderer_lost` that `install_result` calls when nothing is installed),
`LoseRenderer`, `Shutdown`, `BeginRequest`, `CancelRequest`, `CompleteRequest`, and `Tick` for the
clock. Outcomes, cancel answers, acknowledgements and installed authorities are history variables.
Abstracted: the reason codes of refusals, JSON, and Mutex poisoning.

### FoundationHost

The same process with the second Mutex: `waiting` are handlers that began and wait for it, `job` is
the handler that holds it. `BeginFoundation`, `DispatchFoundation`, `CompleteFoundation` (the
completion gate), then `DiscardDispatch`, `AnswerDispatch`, or `RenameState` and `SyncState`; each
system call may fail. `Restart` is the death of the process or of the machine. A file is a version
that is visible and the set of versions that a power loss may leave: after a rename without a
directory sync either version may come back, and after a successful sync only the visible one. This
is what is assumed of the file system; the staged file's own bytes are synced before the rename.

### EpicMerge

A transaction of the SQLite store (`BEGIN IMMEDIATE ... COMMIT`) is one step, and so is every read
through a port; anything may happen in between. `run[b]` is one call of `runGuardedEpicMerge` in a
process of its own, `reconciling[m]` one call of `reconcileEpicMergeOperation`. `operations`,
`active`, `submissions` and `settlements` are the four tables. `target` and `pulls` are the provider:
people push (`Push`), merge (`HumanMerges`) and change policy, authorization and protection
(`ChangeFact`) at any time, to any content and back again, and a merge request that was sent is
answered at any time, also after its run has given up (`ProviderAnswers`). A base is the number of
commits on the target; a head contains its base or not, and the provider may accept one that does not.
The five rechecks of `revalidatePrepared` compare contents with the ones the run loaded, as
`isDeepStrictEqual` does: a change that is undone before its recheck is not noticed, and its operation
is submitted. `stale` is a history variable: what differed from a run's context when its claim was
prepared, and has not been changed back since.

### IssueLifecycle

`issue`, `comments`, `inventory`, `prs` and `statuses` are the provider's objects, `pending` the
events that wait for the issue's concurrency group, and `run` the one run with what it read and
decided. A lifecycle run takes an event (`TakeEvent`), reads (`LoadIssue`, `LoadComments`,
`LoadInventory`, in any order), decides (`Decide`), reads again (`RereadIssue`, `RereadComments`,
`RereadInventory`), writes (`ReplaceLabels`, `CloseCompleted`, `RemoveLabel`, `RepairGesture`), reads
back (`ReadBack`), and restores the labels or finalizes. A readiness run takes an event with the issue
it carries, decides on that issue and the records it reads (`ReadRecords`), and makes the calls of its
decision one by one: labels, record, invalidation of the pull requests, and the two checks of a
reopening (`Calls`). The invalidation lists the open pull requests first and then tells each head by a
call of its own. A reopening whose issue has changed since is dismissed (`Dismissed`). Until the
activation is "enabled" the readiness action owns the labels, afterwards the lifecycle action does.
People edit, label, assign, dispatch requests, close and reopen, push, merge and close pull requests.

Every event of a pull request, an edit of it included, asks for a contract check of its head.
`checks[p]` is the check under way and `queued[p]` the one that waits behind it, which a newer one
replaces. A check reads the issue and the comments in two calls (and of a merged pull request the pull
request itself), judges (`Asked`, `Granted`), and posts a success in two calls, on the head its event
named: a late check writes to a head that was left, or that another pull request has as well. Until
the activation only "ready" passes, and "in progress", "pr open" and "review" as well when it is
enabled (`Eligible`). `late` are the checks that had read the comments when a run listed the pull
requests, `missed` the heads such a check judged or a check was lost for. Every pull request is
assumed to cite the issue, in a form all readers of its body understand. A fault is a call that fails,
or a run or check that dies. `held` observes whether the issue and the comments a run decided on were
true together at one instant, and `refused` whether any run failed, and whether the last event was
dismissed or its run failed. The label inventory is not part of that pair: it has no version, so a
label that is renamed and renamed back between the two reads goes unseen (an attempt to prove the
property with the inventory in it failed for that reason, and TLC shows it with four edits).

### LifecycleRecords

A comment is the index at which it was posted, because its record and body digests bind it to its
content; `anchored`, `attested`, `removed` and `failed` are sets of them. The lists of records that the
code keeps in order (the history, the live suffix, the open generation, the results of a generation)
are sets of these numbers as well, whose order is that of the numbers: the tip is the newest, the
open request the least. `Compacts` is what a checkpoint says of them. `run` is the coordination
that holds the concurrency group: `ReadOrphan`, `ReadHistory`, `ReadFacts`, then for a producer
`ReadProducerHistory` and `Evaluate`, then `Post`, `Anchor`, `Attest`, `Verify`. `Plan` is
`planInertLifecycleCoordinatorStep`. `been` records every generation input that was true at some
instant. The live suffix has a limit of 6 in the run instead of 15.

### LifecycleHandoff, MergeGroup, ContractChain, WakeRouting

The sources hold evaluators; a caller reads the repository, stores what they return and does what they
decide. The modules contain the evaluators as operators and the callers' steps as actions: each read
is a step of its own, with everything that moves in between. `ContractChain` explores every set of
contracts that can be published within its bounds and compares `ValidateContractChain` with a definition
of a complete history (`GaplessHistory`). The code walks from the root along the successors; the module
looks at each contract and the one it supersedes, which is the same: with one root, every predecessor
present, no fork and no cycle the walk visits every contract (`LinksFollow`, `LastIsLast` in
`PartsProofs`). In `WakeRouting` a page is the set of the items whose place in the list is on it, and
the flattened list that is compared is the set of its items with their places. The lists are ordered
by number, newest first, as the provider's default is, and every change of an item changes its
`updated_at` (assumed: two changes within the resolution of that stamp are told apart).

### PackagePublication, PackagedLifecycle

Names, inodes and open descriptors are apart, because the code validates what a descriptor holds and
the other process works on names. Every write of an inode and every change of its name leaves another
stamp: that ctime has the resolution to tell two of them apart is assumed. The staging directory is
not meddled with. After the exchange there are two ways to fail: what `RollBack` undoes, and what
refuses the attempt with the new delivery in place (`RefuseExchanged`): the parent cannot be read
(`native-fs-tree.c:284`), or a directory on the way has changed when the chain is closed
(`native-fs-tree.c:312`, `native-fs-bound.c:298`). `PackagedLifecycle` is the callback controller, the
shell with its group, and a shutdown budget that has passed or not; the cleanup makes 8 attempts as in
the code.

### Renderer

A text is a sequence of pieces (typed characters and whole compositions), bounded by `MaxText` pieces
for the code's 2048 bytes. `closures` has one model per rendering of the canvas; the last one handles
events, older ones live on in `deferred` commits. `field` is the text area of the document, which
keeps what was put into it while the canvas is rendered again. The host executes requests in any
order and its answers arrive in any order. Assumed of the browser: a composition's text goes to the
end of the field, and nothing is inserted after the field lost the focus.

## Runs

| Run | Bounds | What it shows |
|---|---|---|
| `host_requests` | 3 requests, 3 loads, generations and sequences 1..2, window 1, timeout 1, 1 tick | which document gets authority; retired requests are cancelled, ids are accepted once, canceller and requester hear the same, answers are live, one acknowledgement per session; implements `RendererAuthority` |
| `foundation_crash` | 2 requests, 1 restart, no cancellation by time | what was reported as saved is recovered after any crash; memory and file agree |
| `foundation_gate` | 2 requests, 1 tick, no restart | a request whose cancellation was answered leaves nothing durable; every foundation request ends |
| `epic_race` | 2 operations, 2 pull requests, 2 brokers, 1 maintainer; no pushes and nothing changes in content | one call per operation, late calls hold their claim, one open submission per base, recorded merges are exact, denied means no effect; implements `MergeLedger` |
| `epic_stale` | 1 operation, 1 pull request with 2 heads, 1 broker, no maintainer; policy, authorization and protection each of 3 contents, 2 of them eligible, changed any number of times | a change that lasts is never submitted |
| `issue_lifecycle` | 2 bodies, 1 pull request with 2 heads, 4 requests, 2 steps of people and checks that start (3 before the activation), 1 fault | labels move along the contract's edges, decisions rest on one instant, requests apply once, done is earned, readiness follows the body and its rejection reaches the pull requests unless a check overtakes it |
| `records` | 9 comments, live limit 6, 2 events, 1 command | the chain is linear, checkpoints are earned and were true, what is written is readable or overflows in one way, an undisturbed issue reaches its checkpoint unless its log has overflown |
| `parts` | see `MCParts.cfg` | handoffs and groups are certified, chains are gapless and receipts extend them, wake-ups reach their issues, deliveries are whole, nothing is left running, abandoned text stays local |
| `host_installs`, `issue_reopened`, `records_replay`, `records_overflow` | the smallest that show it; `records_overflow` has the code's live limit of 15, 20 comments and 1 event | violations, see Findings |

Every property of a passing run comes with a mutant of the code in PROJECT.json under which that run
finds it violated; the mutated definitions stand in the modules beside the originals. The type
invariants `FoundationTypeOK`, and those of `EpicMerge` and `LifecycleRecords`, document
the state and are not among the runs' properties; the theorems prove them.

Why the bounds are enough. Hosts: two generations give every request a current, a retired and an
exhausted session; a replay window of one forgets an id at the second request; one tick separates a
timeout of one from its start, so before, at and after the deadline all occur; three loads are the
fewest with which the count of pending loads can be wrong. Two saving requests are the fewest that
show an older version overwriting a newer one, and one restart the fewest that shows what was lost.
Epic merge: two brokers and two operations give a duplicate, a contender on the same base and a second
pull request; a third process adds no store transaction between two others that these cannot make. It
is symmetric in its operations, pull requests and processes, and its runs check no liveness, so the
symmetry is sound. Three contents, two of them eligible, are the fewest with which something may
change to another content that still passes on its own, to one that does not, and back; a recheck
looks at one operation at a time, so one broker is enough for it; a maintainer submits nothing. Issue:
it starts with either body and either head alike, so one of each is enough (`MCInit`); before the
activation it starts with an open pull request. Two steps of people fit between any two calls of a run
and change what it read and what it will verify; one fault stops it between two writes. Before the
activation three steps put an edit behind a run or into its queue, or start a check, and withdraw the
readiness it has read; one pull request has a check under way and another behind it, and two heads are
left and come back to. Beyond the run, and covered by the theorems, are several pull requests of one
head, and the four steps of a reopening that is dismissed behind an edit (five million states).
Records: nine comments hold a complete generation (request, claim, two producers, transition) after a
superseded one or a settled interruption, and a limit of six is reached and exceeded within them.
Parts: a pull request with two heads and two changes by people; a queue of two pull requests with four
moves; contracts of two types, three versions and two revisions; two issues and three pull requests on
pages of two, of which three or four are open at first, with two changes while they are read (a list
of three has a second page, one of four is refused); two compositions and one request of a person
beside them. Deadlock is not checked where the system may stop: when every bound is used up and every
handler or run has ended.

The runs of the foundation use the operations that persist (`foundation_crash`) and those that must
not happen once cancelled, take effect in place or are refused (`foundation_gate`). `foundation-load`,
the other two surfaces and a text that is too long are in no instance of TLC; the theorems hold for
every set of operations.

### Fairness

- `FoundationHost`: weak fairness of the handler that holds the Mutex, and of a waiting one while the
  Mutex is free. With one contender after another the Mutex might pass it by; the number of requests
  is bounded, so it is free from some point on.
- `IssueLifecycle`: weak fairness of the steps of a run (that are not faults). A run that is not lost
  goes on, and a queued event starts its run when the group is free.
- `LifecycleRecords`: weak fairness of the scheduled wake-up and of the steps of a run. The workflow
  runs every hour and wakes every open issue (`lifecycle-wakeup-router.mjs`, `resolveSchedule`).
- The other modules, people, faults, cancellations, clocks and crashes have none.

## Proofs

The theorems hold for every value of the constants that satisfies the modules' assumptions: any
number of documents, requests, brokers, pull requests, runs, files and changes by people. Each rests
on an inductive invariant that TLC checked on the run's instance before it was proved. A module of
proofs has one lemma for every action, and under it a step for every part the action can disturb.

### Host

`HostLifecycleProofs` proves that `IInv` is inductive:

    IInv == TypeOK /\ HostInv /\ AcceptedOnce /\ UsedIdsArePassed /\ CancelAnswerIsFinal
            /\ CancelsAreRecorded /\ GrantsAreOfThePast

`AcceptedOnce` alone is not inductive: that an id is never accepted again rests on the session's last
sequence being at least that of every id used in its generation (`UsedIdsArePassed`), not on the
replay window. `CancelAnswerIsFinal` rests on every answered cancellation being recorded in the entry
in flight (`CancelsAreRecorded`), and that retired authority stays retired rests on no installed
generation being ahead of the counter (`GrantsAreOfThePast`). Lemmas about the struct's methods carry
the lemmas about the actions.

`HostAuthorityProofs` adds three results to it.

- `CountedInstallsAreExact`: the unfinished loads that the count stands for were started after the
  last event that reset it; when the count is one and not ambiguous, the only one of them is the
  last load that was started, and the session is its own (`LoadInv`).
- `AcknowledgedAtMostOnce`: what was printed for a generation other than the session's is final and
  was earned by its first two requests (`AckInv`), and the session's own flags say what was printed
  for it and that its first request was answered (`SessionAckInv`).
- `ImplementsAuthority`, the refinement. `last` is the generation counter, `current` the session's
  generation while the host accepts, and a request's `status` is read off its entry in flight and its
  recorded outcome (`StatusOf`). A page load, its end, a lost renderer and the shutdown are `Replace`
  or a stutter; `BeginRequest` is `Accept`; `CancelRequest` is `Doom` or a stutter; `CompleteRequest`
  is `Answer` or `Discard`; `Tick` is a stutter. `Replace` dooms every live request, which is the
  mapped form of `RetiredWorkIsCancelled`.

`FoundationHostProofs` proves `FInv` for the composed system:

    FInv == IInv /\ FoundationTypeOK /\ WaitingInv /\ FilesInv /\ JobInv /\ RenamedInv

`FilesInv` says that no version that may come back is older than the last one reported as saved.
That a rename keeps this rests on the version it installs being the newest one ever staged
(`JobInv`); that a discarded request leaves no file behind, on only a live request's file being
renamed (`RenamedInv`). `MemoryFollowsDisk` needs `CandidateInv` beside it: the application that a
handler will install shows what its own file will hold, or what the file of the text holds already.

### Guarded epic merge

`EpicMergeProofs` proves `EpicInv`, whose parts are: an operation under a claim is acted on by one
broker only (`OwnerInv`); the phase of a run tells which request it made and what became of it
(`PhaseInv`); an operation holds its claim exactly while its outcome is open, and no two claims have
the same base (`ClaimInv`); an operation is marked once, by its owner, before the request, and keeps
its claim until the pull request is merged (`MarkInv`); a settlement was true when it was made
(`SettlementInv`); the provider's merges are the commits on its target (`ProviderInv`); what was
verified or observed of a merge stays true (`EvidenceInv`); and what had changed when an operation was
prepared, and was not changed back, is still to be rechecked (`LoadedInv`, `StaleInv`): an operation
is marked only after the last of the five rechecks, and a read that finds a difference cancels it. The
six properties of the two runs are conjuncts of it or follow from it: `PendingCallHoldsClaim` and
`OneCallPerOperation` from owner, mark and claim, `OneOpenSubmissionPerBase` from the claims,
`DeniedHadNoEffect` from phase and settlement.

`MergeImplementsLedger` maps every step to one of `MergeLedger`. The state of an operation is that of
`readOperation`: its last settlement, or its submission, or that it was prepared (`LedgerStateOf`).
`Prepare` is `Prepare`, with the uniqueness of open bases from `ClaimInv`; `Mark` is `Submit`; giving up
is `Doubt`; a settlement by a broker or a maintainer is `Merge`, `Reject` or
`Cancel`, where `SettlementInv` and `MarkInv` exclude what the ledger forbids; everything else is a
stutter. That a base is one of the ledger's rests on the target having one commit for each merged pull
request (`CountInv`), for which `PullRequest` is finite.

### Issue lifecycle

`IssueLifecycleProofs` proves `IssueInv`. Every rule of a decision answers with an edge of the table
whatever its evidence, and with done only for a merged pull request (`LawInv`); every write to the
issue moves its `updated_at` and comments are only added, so a half of the pair that reads the same
twice was the same in between (`SnapshotInv`, `PairInv`); a request under way was not observed when
its run began and nobody else observes it (`FreshInv`); and a request is applied once more than its
observation was lost only while it is observed or about to be (`CountInv`).

What the readiness action keeps true until the activation is `ReadinessInv`, for any number of edits,
comments, pull requests and failures. The queue holds one event, and the newest: what it carries, or
what the run in progress was given when nothing waits, shows the issue's body and all its labels but a
`new` that a run has added (`ShownInv`). A run that has decided still has to record a comment, or it
found the last record to fit the body, or no status that needs one (`FitInv`); the comment it records
names the body it was given, which is the issue's if nothing waits. A rejection that is not a
reopening's is followed by a call to the pull requests (`CallsInv`). A check that begins to read after
the rejection was recorded finds it; so once the run has listed the pull requests, no check that found
an acceptance is left but those in `late` (`OnTime`), and a head that is green is still being told, is
still being checked, was missed, or was delivered by another pull request (`Excused`, `ToldInv`). It
needs the checks to be of the heads their pull requests have or had, and the one that waits to be of
the present head (`ChecksInv`): after a push, the check of the new head comes last. A
reopening that is dismissed breaks the first argument, since its run looks at nothing: an attempt to
prove `AcceptanceFollowsBody` without excepting it failed there.

### Record log

`RecordsProofs` proves `RecordsInv`, for any number of comments, lost runs, deletions, commands and
changes, and every limit of the live suffix.

    RecordsInv == TypeOK /\ PlaceInv /\ CommandInv /\ ChainIsLinear /\ ActiveInv /\ CheckpointInv
                  /\ CheckpointIsEarned /\ PlanInv /\ TruthInv

`ChainIsLinear` alone is not inductive: that a record is attested after the newest attested one rests on
what its run read. A history is readable only when every anchored comment is still there and every live
one is attested, so what it shows are the live records of all that was ever attested, although people
delete comments; and one run at a time attests, so what the run read stays so until its own record is
attested (`PlaceInv`). A plan therefore extends what is attested
(`PlanInv` with `Follows`), the open generation is of one request, one fence and results in order
(`ActiveInv` with `Opened`), and a checkpoint compacts exactly what lies between its root and itself
(`CheckpointInv` with `Compacted`), which is why the next reader finds the log readable. That a run
settles the comment it was asked for, and no other, is `CommandInv`.

`CheckpointWasTrue` needs the time of the facts. A generation that readiness dates was true, or that
readiness is no longer the accepted one; one that the provider dates is of an earlier time
(`Doubtful`, `Elapsed`, `TruthInv`). A transition is planned when the generation is formed again after
its request was posted, and so it existed when the request was formed.

`WrittenIsReadable` has no premise about the length of the log. A run plans only on what it could read,
so the suffix was within the limit and one record makes it at most one too long. An open generation
holds at most four records, its request, its fence and two results (`ActiveInv`), the transition after
them is a checkpoint, and `LiveLimit` is at least 4: what is too long holds a generation that was given
up.

The proofs need a least and a greatest element of a bounded set of numbers, which follow from the
well-foundedness of the natural numbers in the library, without an induction of their own
(`LeastExists`, `GreatestExists`).

### Handoffs, groups, chains, wake-ups, packages, renderer

The seven components below stand side by side in `MCParts`; their theorems (`PartsProofs`, and
`RendererProofs` for the renderer) are about the specification of each component by itself
(`HandoffSpec`, `GroupSpec`, `ChainSpec`, `WakeSpec`, `PublicationSpec`, `PackagedSpec`,
`RendererSpec`), which is what the run explores of it.

- `HeadsAreCertified`: a generation holds only reports of runs that were started for it, phase one is
  clear only as the review it read was, and label changes are counted (`HandoffInv`).
- `GroupsAreCertified`: evidence carries the number of its run, so what was gone when the second read
  began does not come back, and a member that both reads found alike was so in between (`GroupInv`).
- `ChainsAreGapless`, `ReceiptsExtendChains`: what the validator accepts and what a reader of the
  files would call complete have the same order of contracts (`InOrder`). For the validator it follows
  from the links: were there a contract between another and its predecessor, the first of those would
  supersede an earlier one of the same kind (`NothingBetweenLinks`). For the complete history it
  follows from the places: the revisions of a version are as many as its entries, so none is taken
  twice (`RevisionsDiffer`). Given the order, a gap is explained when as many attempts lie in it as it
  has revisions (`RevisionsFill`), and what is pending follows the last contract. The only invariant
  is the type, finiteness included: both sides are judgements of the same state, whatever led to it.
- `DeliveryIsWhole`: what is bound, read and copied is what its inode held as long as the stamp is the
  same (`Taken`); each pass has been through the entries before its place (`PassInv`); so what is
  exchanged is the content that was validated against its manifest (`DeliveryInv`). Each way to fail
  says which delivery it leaves: a refusal before the exchange and a finished rollback the former, a
  refusal after it the new one.
- `WakeupsReachTheirIssues`: every answer is that of the world it was asked in, the worlds follow each
  other (a stamp never falls, and an item with the same stamp is the same), and every answer that was
  built upon was accepted (`WakeInv`). The places of a list are a bijection onto 0 .. n - 1
  (`PlacesAreTaken`), so a second page that is not full ends the list and a first page that leaves
  something out is full. What two alike reads hold was the same in between. An item that was open at
  both inner instants and is missing would have been on the first page when the first read ended,
  although a full page of newer items, those of the second read's first page, was open then too
  (`TwoReadsAgree`).
- `NothingIsLeftRunning`: once the group was killed its leader is not running and nobody is left to
  start a member; a controller that did not throw has seen all that it waited for (`PackagedInv`).
- `AbandonedTextStaysLocal`: whatever is committed, sent, executed and presented is made of clean
  pieces, those that were typed, committed or exposed (pending, or still in the field, when a view was
  presented); the field is clean while its rendering is in no composition; a deferred commit that is
  still wanted has the text of the last composition, or was scheduled by a rendering that was
  replaced, which exposed it (`RendererInv`).

### Theorems

| Module | Theorem | Property |
|---|---|---|
| `HostLifecycleProofs` | `TypeCorrect` | `TypeOK` |
| | `RetiredWorkIsAlwaysCancelled` | `RetiredWorkIsCancelled` |
| | `IdsAreAcceptedOnce` | `AcceptedOnce` |
| | `CancelAnswersAreFinal` | `CancelAnswerIsFinal` |
| | `AnswersAreAlwaysLive` | `AnswersAreLive` |
| | `RetiredAuthorityIsNeverRevived` | `RetiredAuthorityStaysRetired` |
| `HostAuthorityProofs` | `CountedInstallsAreAlwaysExact` | `CountedInstallsAreExact` |
| | `AcknowledgementsAreEarnedOnce` | `AcknowledgedAtMostOnce` |
| | `HostImplementsAuthority` | `ImplementsAuthority` |
| `FoundationHostProofs` | `FoundationTypeCorrect` | `FoundationTypeOK` (not among the runs' properties) |
| | `FoundationKeepsLifecycle` | the lifecycle's invariants, in the composed system |
| | `SavedIsDurable` | `AcknowledgedIsDurable` |
| | `CancelledNeverLasts` | `CancelledHasNoDurableEffect` |
| | `MemoryAlwaysFollowsDisk` | `MemoryFollowsDisk` |
| `EpicMergeProofs` | `EpicTypeCorrect` | `TypeOK` (not among the runs' properties) |
| | `PendingCallsHoldTheirClaim` | `PendingCallHoldsClaim` |
| | `OperationsAreCalledOnce` | `OneCallPerOperation` |
| | `OpenSubmissionsDiffer` | `OneOpenSubmissionPerBase` |
| | `MergesAreExact` | `MergedIsExact` |
| | `DenialsHaveNoEffect` | `DeniedHadNoEffect` |
| | `StaleOperationsAreNeverSubmitted` | `StaleIsNeverSubmitted` |
| | `MergeImplementsLedger` | `ImplementsLedger` |
| `IssueLifecycleProofs` | `ReplacementsFollowEdges` | `EdgesOnly` |
| | `WritesRestOnOneInstant` | `DecidedOnOneInstant` |
| | `RequestsAreAppliedOnce` | `AppliedOnce` |
| | `DoneIsAlwaysEarned` | `DoneIsEarned` |
| | `AcceptancesFollowTheBody` | `AcceptanceFollowsBody` |
| | `RejectionsReachPullRequests` | `RejectionReachesPullRequests` |
| `RecordsProofs` | `RecordsTypeCorrect` | `TypeOK` (not among the runs' properties) |
| | `ChainIsAlwaysLinear` | `ChainIsLinear` |
| | `CheckpointsAreEarned` | `CheckpointIsEarned` |
| | `CheckpointsWereTrue` | `CheckpointWasTrue` |
| | `WrittenIsAlwaysReadable` | `WrittenIsReadable` |
| `PartsProofs` | `HandoffsAreCertified` | `HeadsAreCertified` |
| | `GroupsAreAlwaysCertified` | `GroupsAreCertified` |
| | `WakeupsReach` | `WakeupsReachTheirIssues` |
| | `ChainsAreAlwaysGapless` | `ChainsAreGapless` |
| | `ReceiptsAlwaysExtendChains` | `ReceiptsExtendChains` |
| | `DeliveriesAreWhole` | `DeliveryIsWhole` |
| | `NothingIsEverLeftRunning` | `NothingIsLeftRunning` |
| `RendererProofs` | `AbandonedTextNeverLeaves` | `AbandonedTextStaysLocal` |

Assumptions. Bounds are natural numbers (at least 1 where the code's constants are), an operation of
the host has one of the kinds of the `Operation` enum, and `None` is none of the values it stands
beside. A provider has finitely many issues and pull requests, whose numbers differ, a package
finitely many files, none of which is named like the directory or the manifest. A contract path has
one of the four types, and a version and a revision from 1 (`contractPathPattern`). In `EpicMerge`
what is eligible is a content. In `LifecycleRecords` the live limit is at least 4. In `IssueLifecycle`
the malformed bodies are bodies, and who may write is one of those who may plan.

### Checked by TLC only

- Liveness (`FoundationRequestEnds`, `StaleReadinessIsWithdrawn`, `Progress`): it rests on fairness,
  and so on ENABLED, which the prover does not treat.

## Findings

- `host_installs`: a Finished event that installs nothing resets the count of pending page loads
  while another load is unfinished, so the next Finished event of the older document installs the
  newer document's authority (`tauri_adapter.rs:82`, `lib.rs:141`). The test
  `overlapping_page_loads_never_install_the_wrong_authority` leaves out the reset.
- `issue_reopened`: an issue that is closed and reopened while the closing event's readiness run is
  in progress keeps its ready label, because that run's own comment makes the reopening look stale
  (`docs/qa/issue-lifecycle.md:178`).
- `records_replay`: a recovery command whose settlement was published is refused at every wake-up
  instead of being a no-op (`docs/adr/ADR-0012-protected-lifecycle-wake-dispatch.md:684`).
- `records_overflow`: behind a checkpoint, superseded generations outgrow the live limit and no
  wake-up repairs the log. The documents compact each superseded fence before a successor's request
  and keep a reserve of three records, which "makes a prior-checkpoint-plus-16 suffix unreachable"
  (`docs/qa/issue-lifecycle.md:398`, `:406`, `:443`; ADR-0011, Proposed). The coordinator and the writer
  do neither (`lifecycle-coordinator.mjs:592`). In the run one rejected readiness is enough, because
  the comment of each record moves the `updated_at` that the next generation is formed of.

## What the models show beside the properties

Behaviour that the properties above leave out by a named condition, or that only a comment or a test
speaks of. It is part of the models where it is not said to be read off the code, so that a reader who
changes the code can see it.

- Host: answers to unknown operations count towards the acknowledgement (`lib.rs:325`), which a test
  describes as two successes (`acknowledgement_requires_two_successes_in_one_generation`).
- Epic merge: the rechecks compare contents, so policy, authorization or protection that is changed
  and changed back before its recheck is not noticed, and the operation is submitted.

- Renderer: every answer renders the canvas with a new model that knows of no composition. If one
  arrives during a composition, the next change of the field commits the unfinished text, and a focus
  loss no longer discards it; the deferred commit of the older model still runs. The tests discard
  abandoned text (`foundation.test.ts:227`, `:258`) within one rendering; `AbandonedTextStaysLocal`
  therefore excepts the compositions (`exposed`) that were under way, waited for their commit, or had
  their text in the field when a view was presented. This is the main case of the hazard, which no
  property covers. A late answer also brings back an older committed text, which a focus loss then
  shows although the host holds a newer one.
- Records: an orphan whose anchor exists without an attestation can be settled by nobody, although
  `docs/qa/issue-lifecycle.md:216` describes a recovery for interrupted publications. Not modelled: a
  re-run raises the run attempt, and artifacts expire after 90 days.
- Handoff: a generation that is left and comes back (A, B, A) is requested again, while ADR-0004
  speaks of at most once for a generation; a change of the inputs of a terminal or validated
  generation asks for a recovery; a pending one also asks for a downgrade.
- Contract chains: a version that is published past a pending quarantined attempt leaves a set that no
  later contract makes valid (`orphan_quarantine`; ADR-0003:110), and a receipt of a migration that
  starts above revision 1 leaves an unexplained gap.
- Wake routing: a schedule reaches exactly what was open both when the first read ended and when the
  second began; an issue that is opened in between, or closed and opened again, can be missing from
  one schedule although both reads agree. The next one finds it.
- Publication: a helper that is killed during the rollback leaves the delivery partial or missing, and
  a killed helper leaves its `.keiko-stage-<pid>`; an attempt may be refused with the new delivery in
  place (`RefuseExchanged`), so a refusal does not mean that nothing was published; staged files are
  not read again before the exchange. Evidence may name a manifest that was read after the packaged
  run.
- Packaged run: a launch that fails also reports a failed cleanup, because there is no process
  identity; a leader that was not reaped yet may be counted as left; a process that leaves the group
  is not seen.
- Issue: the invalidation and the contract checks are in different concurrency groups. A check that
  has read the old acceptance publishes its success behind the failure, and nothing checks the head
  again until the pull request changes (`late`, `missed`); `docs/qa/quality-gates.md:58` and
  `docs/qa/repository-activation.md:389` say that removing readiness changes the status on every
  linked open pull request. Read off the code: a pull request that cites its issue in code quotes, or
  outside the Scope section only, is understood by one of the two readers (`pullRequestIssueNumber`,
  `acceptedIssueNumber`) and not by the other, so one in quotes passes its check and is never listed
  for the invalidation.
- Issue: the whole label set is written, so a label that a person adds between the second read and the
  write is lost. Before the activation, any gesture between a reopening and its run makes the
  reopening stale: an issue that is closed, edited, reopened and then assigned before a run starts
  stays open and ready with a body that was never accepted. `AcceptanceFollowsBody` and
  `StaleReadinessIsWithdrawn` except it until the next event (`refused.last`).

## What is not modelled

- Desktop wiring: it registers the handlers and keeps no state.
- Epic merge policy, evidence and probe plan; validators and gates; the publication tree and byte
  formats: pure functions over documents. Where a model needs their verdict it is a choice or a field.
- Release engineering: a sequential script around external tools; its publication step is the one
  `PackagePublication` models.
- GitHub transport: its outcomes (answer, rejection, timeout) are choices in the models.
- Helper commands of `native-fs` other than the bound publication, and the resolution of paths.
- The order of the host's two locks: no handler takes the foundation's Mutex while it holds the
  lifecycle's (`foundation.rs:416`, `:425`, `:445`, `:466`), and a step under the lifecycle's is one
  action; a deadlock between them is outside the model.
- The abort signal of `port.ts`: no caller passes one.

## Plan

Every invariant and every action property that a passing run checks is proved; what is left:

1. Abstract specifications for two more components, with the proof that the detailed one implements
   them: a delivery that is the former or the validated package (`PackagePublication`), and a log that
   is a list of settled requests (`LifecycleRecords`).
2. Properties for the hazards that have none yet, where the code promises one.
