--------------------------- MODULE FoundationHost ---------------------------
(***************************************************************************)
(* The native host with its foundation: what a foundation request shows    *)
(* and persists, behind the completion gate of the lifecycle.              *)
(*                                                                         *)
(* Code: native/crates/keiko-host-macos/src/foundation.rs and the          *)
(* FoundationApplication of native/crates/keiko-application/src/lib.rs.    *)
(* A handler begins its request under the lifecycle's Mutex, waits for the *)
(* foundation's, and holds that one while it dispatches, completes at the  *)
(* lifecycle and commits or discards.  Each of these is a step, and so is  *)
(* each system call whose failure the code tells apart.                    *)
(*                                                                         *)
(* Abstracted: texts are named by the order in which they were staged      *)
(* (text 0 is none); the staged file itself, whose bytes are synced before *)
(* it is renamed; the build identity, fixed when the program is built and  *)
(* valid; which of its two links a request opens.                          *)
(***************************************************************************)
EXTENDS HostLifecycle

CONSTANT MaxRestarts   \* bound: how often the process dies

ASSUME FoundationAssumption == MaxRestarts \in Nat

(* The Operation enum of keiko-ui-port; a text is too long for the         *)
(* application (MAX_COMMITTED_TEXT_BYTES) or it is not.                    *)
OperationKind ==
  {"application-health", "foundation-load", "dismiss-welcome", "show-canvas",
   "show-about", "show-internal-update", "commit-canvas-text",
   "open-foundation-link", "quit-application"}

ASSUME OperationAssumption ==
  \A operation \in Operation :
    /\ operation.kind \in OperationKind
    /\ operation.kind = "commit-canvas-text" => operation.tooLong \in BOOLEAN

Target == {"welcome", "ime"}   \* state_path and ime_state_path
Surface == {"welcome", "canvas", "about", "internal-update"}
Application == [surface: Surface, text: Nat]

(* What a file shows, and what a power loss may leave of it. *)
Stored == [visible: Nat, recoverable: SUBSET Nat]
Settled(version) == [visible |-> version, recoverable |-> {version}]

(* PreparedEffect: the file to replace, by what, and the application that  *)
(* becomes current when it is replaced.                                    *)
Effect == [target: Target, version: Nat, candidate: Application]

Answer == {"dispatched", "unknown-operation", "unauthorized",
           "host-unavailable", "payload-too-large", "internal-failure"}
Reply == Answer \cup Terminal

Job == [id: RequestId, answer: Answer, effect: Effect \cup {None},
        quit: BOOLEAN, outcome: Outcome \cup {None}, renamed: BOOLEAN]

ASSUME FoundationNoneAssumption ==
  /\ None \notin Application
  /\ None \notin Effect
  /\ None \notin Job
  /\ None \notin Reply

VARIABLES
  memory,     \* FoundationHost.application, loaded when it is first needed
  disk,       \* the two state files, siblings in one directory
  waiting,    \* requests whose handler waits for the foundation's Mutex
  job,        \* the request whose handler holds it
  staged,     \* how many texts have been staged: the name of the last one
  exiting,    \* app.exit has been called
  replies,    \* history: what each request was told in the end
  confirmed,  \* history: the last version reported as saved, per file
  restarts    \* how often the process has died

files == <<disk, staged, confirmed>>
foundation == <<memory, files, waiting, job, exiting, replies, restarts>>
allVars == <<vars, foundation>>

FoundationInit ==
  /\ Init
  /\ memory = None
  /\ disk = [target \in Target |-> Settled(0)]
  /\ waiting = {}
  /\ job = None
  /\ staged = 0
  /\ exiting = FALSE
  /\ replies = [id \in RequestId |-> None]
  /\ confirmed = [target \in Target |-> 0]
  /\ restarts = 0

-----------------------------------------------------------------------------
(* FoundationHost::application: what is in memory, or what the files say.  *)
(* A file that cannot be read counts as absent.                            *)
Loaded ==
  IF memory # None THEN {memory}
  ELSE {[surface |-> IF dismissed = 1 THEN "canvas" ELSE "welcome",
         text |-> text] :
          dismissed \in {0, disk["welcome"].visible},
          text \in {0, disk["ime"].visible}}

SurfaceShown ==
  [kind \in {"show-canvas", "show-about", "show-internal-update"} |->
     CASE kind = "show-canvas" -> "canvas"
       [] kind = "show-about" -> "about"
       [] kind = "show-internal-update" -> "internal-update"]

Immediate(application, answer) ==
  [memory |-> application, answer |-> answer, effect |-> None, quit |-> FALSE]

(* The staged file is written and synced, or the request fails. *)
Prepared(application, effect) ==
  {Immediate(application, "internal-failure"),
   [Immediate(application, "dispatched") EXCEPT !.effect = effect]}

(* FoundationHost::dispatch with FoundationApplication::apply: the surface *)
(* changes in place, what is persisted is only prepared.                   *)
Dispatched(application, operation) ==
  CASE operation.kind = "foundation-load" ->
         {Immediate(application, "dispatched")}
    [] operation.kind \in DOMAIN SurfaceShown ->
         {Immediate([application EXCEPT !.surface = SurfaceShown[operation.kind]],
                    "dispatched")}
    [] operation.kind = "dismiss-welcome" ->
         Prepared(application,
                  [target |-> "welcome", version |-> 1,
                   candidate |-> [application EXCEPT !.surface = "canvas"]])
    [] operation.kind = "commit-canvas-text" ->
         IF operation.tooLong
           THEN {Immediate(application, "payload-too-large")}
           ELSE Prepared(application,
                         [target |-> "ime", version |-> staged + 1,
                          candidate |-> [surface |-> "canvas", text |-> staged + 1]])
    [] operation.kind = "open-foundation-link" ->
         IF application.surface = "about"
           THEN {Immediate(application, "dispatched"),
                 Immediate(application, "host-unavailable")}
           ELSE {Immediate(application, "unauthorized")}
    [] operation.kind = "quit-application" ->
         {[Immediate(application, "dispatched") EXCEPT !.quit = TRUE]}

(* foundation_request up to the release of the lifecycle's Mutex *)
BeginFoundation(context, request) ==
  /\ BeginRequest(context, request)
  /\ waiting' = waiting \cup {request.id}
  /\ UNCHANGED <<memory, files, job, exiting, replies, restarts>>

(* The handler takes the foundation's Mutex and dispatches; a health       *)
(* request is refused before anything is loaded.                           *)
DispatchFoundation(id) ==
  /\ job = None
  /\ id \in waiting
  /\ waiting' = waiting \ {id}
  /\ \E result \in IF accepted[id].kind = "application-health"
                     THEN {Immediate(memory, "unknown-operation")}
                     ELSE UNION {Dispatched(m, accepted[id]) : m \in Loaded} :
       /\ memory' = result.memory
       /\ job' = [id |-> id, answer |-> result.answer, effect |-> result.effect,
                  quit |-> result.quit, outcome |-> None, renamed |-> FALSE]
       /\ staged' = IF result.effect # None /\ result.effect.target = "ime"
                      THEN staged + 1 ELSE staged
  /\ UNCHANGED <<vars, disk, confirmed, exiting, replies, restarts>>

(* complete_prepared_dispatch at the lifecycle: an acknowledgement earned  *)
(* here is dropped.                                                        *)
CompleteFoundation ==
  /\ job # None
  /\ job.outcome = None
  /\ CompleteWith(job.id, "dispatched")
  /\ job' = [job EXCEPT !.outcome = outcome'[job.id]]
  /\ UNCHANGED <<acks, memory, files, waiting, exiting, replies, restarts>>

(* The handler answers and gives the Mutex back. *)
ReplyWith(reply) ==
  /\ job' = None
  /\ replies' = [replies EXCEPT ![job.id] = reply]

(* Mutant: the completion gate is left open. *)
GateOpen(j) == j.outcome # None

(* FoundationCompletion.live *)
IsLive(j) == j.outcome \in Live

(* Mutant: only a prepared dispatch is answered when it is too late. *)
DiscardDispatchPrepared ==
  /\ job # None
  /\ job.outcome # None
  /\ ~IsLive(job)
  /\ job.effect # None
  /\ ReplyWith(job.outcome)
  /\ UNCHANGED <<vars, memory, files, waiting, exiting, restarts>>

(* finish_foundation_dispatch of a request that came too late; removing    *)
(* its staged file may fail.                                               *)
DiscardDispatch ==
  /\ job # None
  /\ job.outcome # None
  /\ ~IsLive(job)
  /\ \/ ReplyWith(job.outcome)
     \/ job.effect # None /\ ReplyWith("internal-failure")
  /\ UNCHANGED <<vars, memory, files, waiting, exiting, restarts>>

(* finish_foundation_dispatch of a live request that persists nothing *)
AnswerDispatch ==
  /\ job # None
  /\ IsLive(job)
  /\ job.effect = None
  /\ ReplyWith(job.answer)
  /\ exiting' = (exiting \/ job.quit)
  /\ UNCHANGED <<vars, memory, files, waiting, restarts>>

Replaced(stored, version) ==
  [visible |-> version, recoverable |-> stored.recoverable \cup {version}]

(* Mutant: the application changes before the file does. *)
RenameStateLate ==
  /\ job # None
  /\ IsLive(job)
  /\ job.effect # None
  /\ ~job.renamed
  /\ memory' = job.effect.candidate
  /\ \/ /\ ReplyWith("internal-failure")
        /\ UNCHANGED disk
     \/ /\ disk' = [disk EXCEPT ![job.effect.target] =
                      Replaced(@, job.effect.version)]
        /\ job' = [job EXCEPT !.renamed = TRUE]
        /\ UNCHANGED replies
  /\ UNCHANGED <<vars, staged, confirmed, waiting, exiting, restarts>>

(* PreparedEffect::commit, rename: it fails, or the file is replaced and   *)
(* the candidate becomes the application.                                  *)
RenameState ==
  /\ job # None
  /\ IsLive(job)
  /\ job.effect # None
  /\ ~job.renamed
  /\ \/ /\ ReplyWith("internal-failure")
        /\ UNCHANGED <<memory, disk>>
     \/ /\ disk' = [disk EXCEPT ![job.effect.target] =
                      Replaced(@, job.effect.version)]
        /\ memory' = job.effect.candidate
        /\ job' = [job EXCEPT !.renamed = TRUE]
        /\ UNCHANGED replies
  /\ UNCHANGED <<vars, staged, confirmed, waiting, exiting, restarts>>

(* Mutant: success is reported although the directory was not synced. *)
SyncStateUnsynced ==
  /\ job # None
  /\ job.renamed
  /\ ReplyWith(job.answer)
  /\ confirmed' = [confirmed EXCEPT ![job.effect.target] = job.effect.version]
  /\ UNCHANGED <<vars, memory, disk, staged, waiting, exiting, restarts>>

(* PreparedEffect::commit, sync_parent: it fails, and the replaced file    *)
(* stays, or it settles both files, which share the directory.             *)
SyncState ==
  /\ job # None
  /\ job.renamed
  /\ \/ /\ ReplyWith("internal-failure")
        /\ UNCHANGED <<disk, confirmed>>
     \/ /\ disk' = [target \in Target |-> Settled(disk[target].visible)]
        /\ confirmed' = [confirmed EXCEPT ![job.effect.target] = job.effect.version]
        /\ ReplyWith(job.answer)
  /\ UNCHANGED <<vars, memory, staged, waiting, exiting, restarts>>

(* The process dies at any moment, or the machine does, and a new process  *)
(* starts: nothing of the old one is left but the files.                   *)
Restart ==
  /\ restarts < MaxRestarts
  /\ restarts' = restarts + 1
  /\ \/ UNCHANGED disk
     \/ \E w \in disk["welcome"].recoverable, i \in disk["ime"].recoverable :
          disk' = [target \in Target |->
                     Settled(IF target = "welcome" THEN w ELSE i)]
  /\ host' = NewHost
  /\ now' = 0
  /\ accepted' = [id \in RequestId |-> None]
  /\ loads' = 0
  /\ unfinished' = {}
  /\ outcome' = [id \in RequestId |-> None]
  /\ cancelAnswers' = [id \in RequestId |-> {}]
  /\ acks' = [g \in Generation |-> 0]
  /\ grants' = {}
  /\ uncounted' = {}
  /\ memory' = None
  /\ waiting' = {}
  /\ job' = None
  /\ exiting' = FALSE
  /\ replies' = [id \in RequestId |-> None]
  /\ UNCHANGED <<staged, confirmed>>

(* A foundation request whose handler has not answered yet. *)
Pending(id) == id \in waiting \/ (job # None /\ job.id = id)

(* The requests of application_request and the events of the lifecycle     *)
(* leave the foundation alone.                                             *)
LifecycleStep ==
  /\ \/ Tick
     \/ PageLoadStarted
     \/ \E load \in unfinished : PageLoadFinished(load)
     \/ LoseRenderer
     \/ Shutdown
     \/ \E context \in SenderContext :
          /\ ValidSender(host, context)
          /\ \/ \E request \in UiRequest : BeginRequest(context, request)
             \/ \E id \in RequestId : CancelRequest(context, id)
     \/ \E id \in RequestId : ~Pending(id) /\ CompleteRequest(id)
  /\ UNCHANGED foundation

FinishFoundation == DiscardDispatch \/ AnswerDispatch \/ RenameState \/ SyncState

FoundationNext ==
  \/ LifecycleStep
  \/ \E context \in SenderContext, request \in UiRequest :
       BeginFoundation(context, request)
  \/ \E id \in waiting : DispatchFoundation(id)
  \/ CompleteFoundation
  \/ FinishFoundation
  \/ Restart

(* A handler that holds the foundation's Mutex runs on; one that waits for *)
(* it gets it once it stays free.                                          *)
FoundationFairness ==
  /\ \A id \in RequestId : WF_allVars(id \in waiting /\ DispatchFoundation(id))
  /\ WF_allVars(CompleteFoundation)
  /\ WF_allVars(FinishFoundation)

FoundationSpec ==
  FoundationInit /\ [][FoundationNext]_allVars /\ FoundationFairness
-----------------------------------------------------------------------------
FoundationTypeOK ==
  /\ memory \in Application \cup {None}
  /\ disk \in [Target -> Stored]
  /\ waiting \subseteq RequestId
  /\ job \in Job \cup {None}
  /\ staged \in Nat
  /\ exiting \in BOOLEAN
  /\ replies \in [RequestId -> Reply \cup {None}]
  /\ confirmed \in [Target -> Nat]
  /\ restarts \in 0..MaxRestarts

(* What a request was told is saved survives the process and the machine:  *)
(* whatever a power loss leaves of a file is at least as new as the last   *)
(* version reported (PreparedEffect::commit syncs the directory before it  *)
(* answers).                                                               *)
AcknowledgedIsDurable ==
  \A target \in Target : \A version \in disk[target].recoverable :
    version >= confirmed[target]

(* The application never shows a text that its file does not hold,         *)
(* whichever system call failed on the way                                 *)
(* (rename_boundary_reconciles_pre_and_post_commit_failures).              *)
MemoryFollowsDisk ==
  memory # None => memory.text \in {0, disk["ime"].visible}

(* A request whose canceller was told so replaces no file and does not     *)
(* quit the application, even when it had staged its effect                *)
(* (completion_gate_discards_cancelled_and_timed_out_ime_effects).         *)
CancelledHasNoDurableEffect ==
  [][/\ job # None
     /\ cancelAnswers[job.id] # {}
     /\ restarts' = restarts
     => UNCHANGED <<disk, exiting>>]_allVars

(* Every foundation request leaves its handler: a late one, a failed one   *)
(* and one that waited behind them.                                        *)
FoundationRequestEnds == \A id \in RequestId : Pending(id) ~> ~Pending(id)
=============================================================================
