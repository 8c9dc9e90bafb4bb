------------------------ MODULE FoundationHostProofs ------------------------
(***************************************************************************)
(* What the foundation saves is durable, for every number of requests,     *)
(* restarts and operations.  The argument looks at the files only: what a  *)
(* file may fall back to is never older than what was reported, because    *)
(* the holder of the Mutex stages the newest version there is, reports it  *)
(* only after it has settled, and nobody else touches the files meanwhile. *)
(***************************************************************************)
EXTENDS FoundationHost, HostLifecycleProofs

(* A handler that waits, and the one that holds the Mutex before its       *)
(* completion, still have their token; after it, the lifecycle's verdict   *)
(* on the request is the one the holder acts on.                           *)
WaitingInv ==
  /\ \A id \in waiting : accepted[id] # None
  /\ job # None =>
       /\ job.id \notin waiting
       /\ job.outcome = None => accepted[job.id] # None
       /\ job.outcome # None => outcome[job.id] = job.outcome

NewestStaged(target) == IF target = "ime" THEN staged ELSE 1

FilesInv ==
  \A target \in Target :
    /\ disk[target].visible \in disk[target].recoverable
    /\ \A version \in disk[target].recoverable :
         /\ version >= confirmed[target]
         /\ version <= NewestStaged(target)

JobInv ==
  job # None /\ job.effect # None =>
    /\ job.effect.version = NewestStaged(job.effect.target)
    /\ job.answer = "dispatched"
    /\ job.renamed => disk[job.effect.target].visible = job.effect.version

(* Only a live request has its file renamed. *)
RenamedInv == job # None /\ job.renamed => job.effect # None /\ IsLive(job)

FInv ==
  /\ IInv
  /\ FoundationTypeOK
  /\ WaitingInv
  /\ FilesInv
  /\ JobInv
  /\ RenamedInv

LEMMA FoundationInitEstablishes == FoundationInit => FInv
<1> SUFFICES ASSUME FoundationInit PROVE FInv OBVIOUS
<1>1. disk \in [Target -> Stored] /\ \A target \in Target : disk[target] = Settled(0)
  BY DEF FoundationInit, Settled, Stored
<1>2. FoundationTypeOK
  <2>1. /\ replies \in [RequestId -> Reply \cup {None}]
        /\ confirmed \in [Target -> Nat]
        /\ restarts \in 0..MaxRestarts
    BY FoundationAssumption DEF FoundationInit
  <2> QED BY <1>1, <2>1 DEF FoundationInit, FoundationTypeOK
<1>3. WaitingInv /\ IInv
  BY InitEstablishes DEF FoundationInit, Init, WaitingInv
<1>4. FilesInv
  BY <1>1 DEF FoundationInit, FilesInv, Settled, NewestStaged
<1>5. JobInv /\ RenamedInv BY DEF FoundationInit, JobInv, RenamedInv
<1> QED BY <1>2, <1>3, <1>4, <1>5 DEF FInv

LEMMA LifecycleStepKeeps ==
  ASSUME FInv, LifecycleStep
  PROVE  FInv'
<1>1. /\ FoundationTypeOK' /\ FilesInv' /\ JobInv' /\ RenamedInv'
      /\ waiting' = waiting /\ job' = job
  BY DEF FInv, LifecycleStep, foundation, files, FoundationTypeOK, FilesInv,
         JobInv, RenamedInv, NewestStaged
<1> DEFINE Undisturbed ==
      \A id \in RequestId :
        Pending(id) => /\ accepted[id] # None => accepted'[id] # None
                       /\ outcome'[id] = outcome[id]
<1>2. CASE \/ Tick \/ PageLoadStarted
           \/ \E load \in unfinished : PageLoadFinished(load)
           \/ LoseRenderer \/ Shutdown
  <2>1. IInv'
    BY <1>2, TickKeeps, PageLoadStartedKeeps, PageLoadFinishedKeeps,
       LoseRendererKeeps, ShutdownKeeps DEF FInv
  <2>2. accepted' = accepted /\ outcome' = outcome
    BY <1>2 DEF Tick, PageLoadStarted, PageLoadFinished, LoseRenderer,
                Shutdown, history
  <2> QED BY <1>1, <2>1, <2>2 DEF FInv, WaitingInv
<1>3. ASSUME NEW context \in SenderContext, NEW request \in UiRequest,
             BeginRequest(context, request)
      PROVE  IInv' /\ Undisturbed
  <2>1. /\ IInv' /\ outcome' = outcome /\ accepted[request.id] = None
    BY <1>3, BeginRequestKeeps DEF FInv
  <2>2. \A id \in RequestId : id # request.id => accepted'[id] = accepted[id]
    BY <1>3 DEF BeginRequest, FInv, IInv, TypeOK
  <2> QED BY <2>1, <2>2
<1>4. ASSUME NEW context \in SenderContext, NEW id \in RequestId,
             CancelRequest(context, id)
      PROVE  IInv' /\ Undisturbed
  BY <1>4, CancelRequestKeeps DEF FInv, CancelRequest
<1>5. ASSUME NEW id \in RequestId, ~Pending(id), CompleteRequest(id)
      PROVE  IInv' /\ Undisturbed
  <2>1. IInv' BY <1>5, CompleteRequestCounts, CompleteWithKeeps DEF FInv
  <2>2. \A other \in RequestId : other # id =>
           accepted'[other] = accepted[other] /\ outcome'[other] = outcome[other]
    BY <1>5 DEF CompleteRequest, CompleteWith, FInv, IInv, TypeOK
  <2> QED BY <1>5, <2>1, <2>2
<1>6. CASE IInv' /\ Undisturbed
  <2>1. \A id \in waiting : Pending(id) /\ id \in RequestId
    BY DEF Pending, FInv, FoundationTypeOK
  <2>2. job # None => Pending(job.id) /\ job.id \in RequestId
    BY DEF Pending, FInv, FoundationTypeOK, Job
  <2> HIDE DEF Pending
  <2>3. WaitingInv' BY <1>1, <1>6, <2>1, <2>2 DEF FInv, WaitingInv
  <2> QED BY <1>1, <1>6, <2>3 DEF FInv
<1> QED BY <1>2, <1>3, <1>4, <1>5, <1>6 DEF LifecycleStep

LEMMA BeginFoundationKeeps ==
  ASSUME FInv, NEW context \in SenderContext, NEW request \in UiRequest,
         BeginFoundation(context, request)
  PROVE  FInv'
<1>1. request.id \in RequestId /\ request.operation \in Operation
  BY DEF UiRequest
<1>2. FoundationTypeOK' /\ FilesInv' /\ JobInv' /\ RenamedInv' /\ job' = job
  BY <1>1 DEF FInv, BeginFoundation, files, FoundationTypeOK, FilesInv, JobInv,
              RenamedInv, NewestStaged
<1>3. /\ IInv' /\ outcome' = outcome
      /\ outcome[request.id] = None /\ accepted[request.id] = None
  BY BeginRequestKeeps DEF FInv, BeginFoundation
<1>4. /\ accepted'[request.id] = request.operation
      /\ \A id \in RequestId : id # request.id => accepted'[id] = accepted[id]
  BY <1>1 DEF BeginFoundation, BeginRequest, FInv, IInv, TypeOK
<1>5. job # None => job.id # request.id /\ job.id \in RequestId
  BY <1>3 DEF FInv, WaitingInv, FoundationTypeOK, Job
<1>6. waiting' = waiting \cup {request.id} /\ waiting \subseteq RequestId
  BY DEF BeginFoundation, FInv, FoundationTypeOK
<1>7. WaitingInv'
  BY <1>1, <1>2, <1>3, <1>4, <1>5, <1>6, NoneAssumption DEF FInv, WaitingInv
<1> QED BY <1>2, <1>3, <1>7 DEF FInv

-----------------------------------------------------------------------------
(* The steps of the handler that holds the Mutex *)

LEMMA LoadedType ==
  ASSUME FoundationTypeOK, NEW m \in Loaded
  PROVE  m \in Application
<1>1. CASE memory # None BY <1>1 DEF Loaded, FoundationTypeOK
<1>2. CASE memory = None
  <2>1. /\ disk["welcome"].visible \in Nat /\ disk["ime"].visible \in Nat
    BY DEF FoundationTypeOK, Stored, Target
  <2> QED BY <1>2, <2>1 DEF Loaded, Application, Surface
<1> QED BY <1>1, <1>2

(* What a dispatch hands to the completion gate. *)
Result(r) ==
  /\ r.memory \in Application \cup {None}
  /\ r.answer \in Answer
  /\ r.quit \in BOOLEAN
  /\ r.effect # None =>
       /\ r.effect \in Effect
       /\ r.answer = "dispatched"
       /\ r.effect.version = IF r.effect.target = "ime" THEN staged + 1 ELSE 1

LEMMA ImmediateResult ==
  ASSUME NEW m \in Application \cup {None}, NEW answer \in Answer
  PROVE  Result(Immediate(m, answer))
BY DEF Result, Immediate

LEMMA PreparedResult ==
  ASSUME NEW m \in Application, NEW effect \in Effect,
         effect.version = IF effect.target = "ime" THEN staged + 1 ELSE 1,
         NEW r \in Prepared(m, effect)
  PROVE  Result(r)
<1>1. "internal-failure" \in Answer /\ "dispatched" \in Answer BY DEF Answer
<1>2. CASE r = Immediate(m, "internal-failure")
  BY <1>1, <1>2, ImmediateResult
<1>3. CASE r = [Immediate(m, "dispatched") EXCEPT !.effect = effect]
  <2>1. /\ r.memory = m /\ r.answer = "dispatched" /\ r.quit = FALSE
        /\ r.effect = effect
    BY <1>3 DEF Immediate
  <2> QED BY <1>1, <2>1 DEF Result
<1> QED BY <1>2, <1>3 DEF Prepared

LEMMA DispatchedResult ==
  ASSUME FoundationTypeOK, NEW m \in Application, NEW operation \in Operation,
         operation.kind # "application-health",
         NEW r \in Dispatched(m, operation)
  PROVE  Result(r)
<1> DEFINE kind == operation.kind
<1>0. /\ kind \in OperationKind
      /\ kind = "commit-canvas-text" => operation.tooLong \in BOOLEAN
      /\ staged \in Nat
  BY OperationAssumption DEF FoundationTypeOK
<1>1. \A answer \in Answer : Result(Immediate(m, answer)) BY ImmediateResult
<1>2. CASE kind = "foundation-load"
  <2>1. r = Immediate(m, "dispatched") BY <1>2 DEF Dispatched, SurfaceShown
  <2> QED BY <1>1, <2>1 DEF Answer
<1>3. CASE kind \in {"show-canvas", "show-about", "show-internal-update"}
  <2>1. SurfaceShown[kind] \in Surface BY <1>3 DEF SurfaceShown, Surface
  <2>2. [m EXCEPT !.surface = SurfaceShown[kind]] \in Application
    BY <2>1 DEF Application
  <2>3. r = Immediate([m EXCEPT !.surface = SurfaceShown[kind]], "dispatched")
    BY <1>3 DEF Dispatched, SurfaceShown
  <2> QED BY <2>2, <2>3, ImmediateResult DEF Answer
<1>4. CASE kind = "dismiss-welcome"
  <2> DEFINE candidate == [m EXCEPT !.surface = "canvas"]
             effect == [target |-> "welcome", version |-> 1, candidate |-> candidate]
  <2>1. candidate \in Application BY DEF Application, Surface
  <2>2. r \in Prepared(m, effect) BY <1>4 DEF Dispatched, SurfaceShown
  <2> HIDE DEF candidate
  <2>3. effect \in Effect BY <2>1 DEF Effect, Target
  <2> QED BY <2>2, <2>3, PreparedResult
<1>5. CASE kind = "commit-canvas-text"
  <2>1. CASE operation.tooLong
    <3>1. r = Immediate(m, "payload-too-large")
      BY <1>5, <2>1 DEF Dispatched, SurfaceShown
    <3> QED BY <1>1, <3>1 DEF Answer
  <2>2. CASE ~operation.tooLong
    <3> DEFINE candidate == [surface |-> "canvas", text |-> staged + 1]
               effect == [target |-> "ime", version |-> staged + 1,
                          candidate |-> candidate]
    <3>1. candidate \in Application BY <1>0 DEF Application, Surface
    <3>2. r \in Prepared(m, effect) BY <1>5, <2>2 DEF Dispatched, SurfaceShown
    <3> HIDE DEF candidate
    <3>3. effect \in Effect BY <1>0, <3>1 DEF Effect, Target
    <3> QED BY <3>2, <3>3, PreparedResult
  <2> QED BY <1>0, <1>5, <2>1, <2>2
<1>6. CASE kind = "open-foundation-link"
  <2>1. r \in {Immediate(m, "dispatched"), Immediate(m, "host-unavailable"),
               Immediate(m, "unauthorized")}
    BY <1>6 DEF Dispatched, SurfaceShown
  <2> QED BY <1>1, <2>1 DEF Answer
<1>7. CASE kind = "quit-application"
  <2>1. r = [Immediate(m, "dispatched") EXCEPT !.quit = TRUE]
    BY <1>7 DEF Dispatched, SurfaceShown
  <2>2. /\ r.memory = m /\ r.answer = "dispatched" /\ r.quit = TRUE
        /\ r.effect = None
    BY <2>1 DEF Immediate
  <2> QED BY <2>2 DEF Result, Answer
<1> QED BY <1>0, <1>2, <1>3, <1>4, <1>5, <1>6, <1>7 DEF OperationKind

LEMMA DispatchFoundationKeeps ==
  ASSUME FInv, NEW new \in waiting, DispatchFoundation(new)
  PROVE  FInv'
<1>1. /\ new \in RequestId /\ accepted[new] \in Operation
      /\ waiting' = waiting \ {new} /\ waiting' \subseteq RequestId
      /\ accepted' = accepted /\ outcome' = outcome
      /\ disk' = disk /\ confirmed' = confirmed
      /\ exiting' = exiting /\ replies' = replies /\ restarts' = restarts
      /\ staged \in Nat
  BY DEF FInv, IInv, TypeOK, WaitingInv, DispatchFoundation, vars, history,
         FoundationTypeOK
<1>2. PICK r \in IF accepted[new].kind = "application-health"
                   THEN {Immediate(memory, "unknown-operation")}
                   ELSE UNION {Dispatched(m, accepted[new]) : m \in Loaded} :
        /\ memory' = r.memory
        /\ job' = [id |-> new, answer |-> r.answer, effect |-> r.effect,
                   quit |-> r.quit, outcome |-> None, renamed |-> FALSE]
        /\ staged' = IF r.effect # None /\ r.effect.target = "ime"
                       THEN staged + 1 ELSE staged
  BY DEF DispatchFoundation
<1>3. Result(r)
  <2>1. CASE accepted[new].kind = "application-health"
    BY <1>2, <2>1, ImmediateResult DEF FInv, FoundationTypeOK, Answer
  <2>2. CASE accepted[new].kind # "application-health"
    <3>1. PICK m \in Loaded : r \in Dispatched(m, accepted[new])
      BY <1>2, <2>2
    <3> QED BY <1>1, <2>2, <3>1, LoadedType, DispatchedResult DEF FInv
  <2> QED BY <2>1, <2>2
<1>4. /\ job' \in Job /\ memory' \in Application \cup {None}
      /\ staged' \in Nat /\ staged' >= staged
      /\ job' # None /\ job'.effect = r.effect /\ job'.renamed = FALSE
      /\ job'.answer = r.answer /\ job'.id = new /\ job'.outcome = None
  <2>1. /\ r.memory \in Application \cup {None} /\ r.answer \in Answer
        /\ r.effect \in Effect \cup {None} /\ r.quit \in BOOLEAN
    BY <1>3 DEF Result
  <2> DEFINE j == [id |-> new, answer |-> r.answer, effect |-> r.effect,
                   quit |-> r.quit, outcome |-> None, renamed |-> FALSE]
  <2>2. j \in Job BY <1>1, <2>1 DEF Job
  <2>3. j # None BY <2>2, FoundationNoneAssumption
  <2> QED BY <1>1, <1>2, <2>1, <2>2, <2>3
<1>5. FoundationTypeOK'
  BY <1>1, <1>4 DEF FInv, FoundationTypeOK
<1>6. WaitingInv' BY <1>1, <1>4, NoneAssumption DEF FInv, WaitingInv
<1>7. FilesInv'
  <2> SUFFICES ASSUME NEW target \in Target, NEW version \in disk[target].recoverable
               PROVE  version <= NewestStaged(target)'
    BY <1>1 DEF FInv, FilesInv
  <2>1. version <= NewestStaged(target) BY DEF FInv, FilesInv
  <2>2. version \in Nat BY DEF FInv, FoundationTypeOK, Stored
  <2> QED BY <1>1, <1>4, <2>1, <2>2 DEF NewestStaged
<1>8. JobInv' /\ RenamedInv'
  BY <1>2, <1>3, <1>4 DEF JobInv, RenamedInv, Result, NewestStaged
<1>9. IInv' BY StutterKeeps DEF FInv, DispatchFoundation
<1> QED BY <1>5, <1>6, <1>7, <1>8, <1>9 DEF FInv

LEMMA CompleteFoundationKeeps ==
  ASSUME FInv, CompleteFoundation
  PROVE  FInv'
<1> DEFINE old == job.id
           result == outcome'[old]
<1>1. /\ job # None /\ job \in Job /\ old \in RequestId
      /\ CompleteWith(old, "dispatched")
      /\ job' = [job EXCEPT !.outcome = result]
      /\ memory' = memory /\ waiting' = waiting /\ exiting' = exiting
      /\ disk' = disk /\ staged' = staged /\ confirmed' = confirmed
      /\ replies' = replies /\ restarts' = restarts /\ acks' = acks
  BY DEF FInv, FoundationTypeOK, CompleteFoundation, files, Job
<1>2. IInv'
  BY <1>1, CompleteWithKeeps DEF FInv, IInv, TypeOK, Live
<1>3. /\ result \in Outcome
      /\ \A id \in RequestId : id # old => accepted'[id] = accepted[id]
  BY <1>1 DEF CompleteWith, CompletionOutcome, Outcome, Live, Terminal,
              FInv, IInv, TypeOK
<1>4. result # None BY <1>3, NoneAssumption
<1> HIDE DEF result
<1>5. /\ job' \in Job /\ job' # None /\ job'.effect = job.effect
      /\ job'.answer = job.answer /\ job'.renamed = job.renamed
      /\ job'.id = old /\ job'.outcome = result
  BY <1>1, <1>3, FoundationNoneAssumption DEF Job
<1>6. FoundationTypeOK' BY <1>1, <1>5 DEF FInv, FoundationTypeOK
<1>7. FilesInv' /\ JobInv' /\ RenamedInv'
  <2>1. ~job.renamed
    BY <1>1, NoneAssumption
    DEF CompleteFoundation, FInv, RenamedInv, IsLive, Outcome
  <2>2. FilesInv' BY <1>1 DEF FInv, FilesInv, NewestStaged
  <2>3. job'.renamed = FALSE BY <1>5, <2>1 DEF Job
  <2> QED BY <1>1, <1>5, <2>2, <2>3 DEF FInv, JobInv, RenamedInv, NewestStaged
<1>8. WaitingInv'
  BY <1>1, <1>3, <1>4, <1>5 DEF FInv, WaitingInv, FoundationTypeOK, result
<1> QED BY <1>2, <1>6, <1>7, <1>8 DEF FInv

(* A handler that gives the Mutex back leaves nothing of its own behind. *)
LEMMA ReplyKeeps ==
  ASSUME FInv, NEW reply \in Reply, job # None, ReplyWith(reply),
         UNCHANGED <<vars, memory, waiting, staged, restarts>>,
         exiting' \in BOOLEAN, disk' \in [Target -> Stored],
         confirmed' \in [Target -> Nat], FilesInv'
  PROVE  FInv'
<1>1. IInv' BY StutterKeeps DEF FInv
<1>2. FoundationTypeOK' BY DEF FInv, FoundationTypeOK, ReplyWith, Job
<1>3. WaitingInv' /\ JobInv' /\ RenamedInv'
  BY DEF FInv, WaitingInv, JobInv, RenamedInv, ReplyWith, vars
<1> QED BY <1>1, <1>2, <1>3 DEF FInv

LEMMA UntouchedFiles ==
  ASSUME FInv, UNCHANGED <<disk, confirmed, staged>>
  PROVE  /\ FilesInv' /\ disk' \in [Target -> Stored]
         /\ confirmed' \in [Target -> Nat]
BY DEF FInv, FilesInv, FoundationTypeOK, NewestStaged

LEMMA DiscardDispatchKeeps ==
  ASSUME FInv, DiscardDispatch
  PROVE  FInv'
<1>1. job # None /\ job.outcome \in Reply
  BY DEF DiscardDispatch, IsLive, FInv, FoundationTypeOK, Job, Outcome, Reply,
         Answer
<1>2. FilesInv' /\ disk' \in [Target -> Stored] /\ confirmed' \in [Target -> Nat]
  BY UntouchedFiles DEF DiscardDispatch, files
<1>3. exiting' \in BOOLEAN
  BY DEF DiscardDispatch, FInv, FoundationTypeOK
<1>4. PICK reply \in {job.outcome, "internal-failure"} : ReplyWith(reply)
  BY DEF DiscardDispatch
<1>5. reply \in Reply BY <1>1, <1>4 DEF Reply, Answer
<1> QED BY <1>1, <1>2, <1>3, <1>4, <1>5, ReplyKeeps DEF DiscardDispatch, files

LEMMA AnswerDispatchKeeps ==
  ASSUME FInv, AnswerDispatch
  PROVE  FInv'
<1>1. job # None /\ job.answer \in Reply /\ ReplyWith(job.answer)
  BY DEF AnswerDispatch, FInv, FoundationTypeOK, Job, Reply
<1>2. FilesInv' /\ disk' \in [Target -> Stored] /\ confirmed' \in [Target -> Nat]
  BY UntouchedFiles DEF AnswerDispatch, files
<1>3. exiting' \in BOOLEAN BY DEF AnswerDispatch
<1> QED BY <1>1, <1>2, <1>3, ReplyKeeps DEF AnswerDispatch, files

LEMMA JobEffect ==
  ASSUME FInv, job # None, job.effect # None
  PROVE  /\ job.effect.target \in Target
         /\ job.effect.version \in Nat
         /\ job.effect.candidate \in Application
         /\ job.answer = "dispatched"
         /\ job.effect.version = NewestStaged(job.effect.target)
BY DEF FInv, FoundationTypeOK, Job, Effect, JobInv

LEMMA RenameStateKeeps ==
  ASSUME FInv, RenameState
  PROVE  FInv'
<1>1. /\ job # None /\ job.effect # None /\ job.outcome # None
      /\ UNCHANGED <<vars, staged, confirmed, waiting, exiting, restarts>>
  BY NoneAssumption DEF RenameState, IsLive, Outcome
<1>2. CASE ReplyWith("internal-failure") /\ UNCHANGED <<memory, disk>>
  <2>1. "internal-failure" \in Reply BY DEF Reply, Answer
  <2>2. FilesInv' /\ disk' \in [Target -> Stored] /\ confirmed' \in [Target -> Nat]
    BY <1>1, <1>2, UntouchedFiles
  <2>3. exiting' \in BOOLEAN BY <1>1 DEF FInv, FoundationTypeOK
  <2> QED BY <1>1, <1>2, <2>1, <2>2, <2>3, ReplyKeeps
<1>3. CASE /\ disk' = [disk EXCEPT ![job.effect.target] =
                         Replaced(disk[job.effect.target], job.effect.version)]
           /\ memory' = job.effect.candidate
           /\ job' = [job EXCEPT !.renamed = TRUE]
           /\ replies' = replies
  <2> DEFINE replaced == job.effect.target
             newest == job.effect.version
  <2>1. /\ replaced \in Target /\ newest \in Nat
        /\ newest = NewestStaged(replaced)
        /\ job.effect.candidate \in Application /\ job.answer = "dispatched"
    BY <1>1, JobEffect
  <2>2. disk \in [Target -> Stored] BY DEF FInv, FoundationTypeOK
  <2>3. /\ disk'[replaced].visible = newest
        /\ disk'[replaced].recoverable = disk[replaced].recoverable \cup {newest}
        /\ disk'[replaced] \in Stored
        /\ \A target \in Target : target # replaced => disk'[target] = disk[target]
    BY <1>3, <2>1, <2>2 DEF Replaced, Stored
  <2>4. disk' \in [Target -> Stored] BY <1>3, <2>1, <2>2, <2>3
  <2>5. /\ job' \in Job /\ job' # None /\ job'.effect = job.effect
        /\ job'.answer = job.answer /\ job'.id = job.id
        /\ job'.outcome = job.outcome
    BY <1>1, <1>3, FoundationNoneAssumption DEF FInv, FoundationTypeOK, Job
  <2>6. FoundationTypeOK'
    BY <1>1, <1>3, <2>1, <2>4, <2>5 DEF FInv, FoundationTypeOK
  <2>7. FilesInv'
    <3> SUFFICES ASSUME NEW target \in Target
                 PROVE  /\ disk'[target].visible \in disk'[target].recoverable
                        /\ \A version \in disk'[target].recoverable :
                             /\ version >= confirmed[target]
                             /\ version <= NewestStaged(target)
      BY <1>1 DEF FilesInv, NewestStaged
    <3>1. /\ disk[target].visible \in disk[target].recoverable
          /\ \A version \in disk[target].recoverable :
               /\ version >= confirmed[target]
               /\ version <= NewestStaged(target)
      BY DEF FInv, FilesInv
    <3>2. /\ confirmed[target] \in Nat /\ disk[target].visible \in Nat
          /\ NewestStaged(target) \in Nat
      BY <2>2 DEF FInv, FoundationTypeOK, Stored, NewestStaged
    <3>3. CASE target = replaced
      BY <2>1, <2>3, <3>1, <3>2, <3>3
    <3>4. CASE target # replaced BY <2>3, <3>1, <3>4
    <3> QED BY <3>3, <3>4
  <2>8. JobInv' /\ RenamedInv'
    BY <1>1, <2>1, <2>3, <2>5 DEF RenameState, IsLive, JobInv, RenamedInv, NewestStaged
  <2>9. WaitingInv' BY <1>1, <2>5 DEF FInv, WaitingInv, vars, history
  <2>10. IInv' BY <1>1, StutterKeeps DEF FInv
  <2> QED BY <2>6, <2>7, <2>8, <2>9, <2>10 DEF FInv
<1> QED BY <1>2, <1>3 DEF RenameState

LEMMA SyncStateKeeps ==
  ASSUME FInv, SyncState
  PROVE  FInv'
<1>1. /\ job # None /\ job.effect # None /\ job.renamed
      /\ UNCHANGED <<vars, memory, staged, waiting, exiting, restarts>>
      /\ exiting' \in BOOLEAN
  BY DEF SyncState, FInv, FoundationTypeOK, RenamedInv
<1>2. CASE ReplyWith("internal-failure") /\ UNCHANGED <<disk, confirmed>>
  <2>1. "internal-failure" \in Reply BY DEF Reply, Answer
  <2> QED BY <1>1, <1>2, <2>1, UntouchedFiles, ReplyKeeps
<1>3. CASE /\ disk' = [target \in Target |-> Settled(disk[target].visible)]
           /\ confirmed' = [confirmed EXCEPT ![job.effect.target] = job.effect.version]
           /\ ReplyWith(job.answer)
  <2>1. /\ job.effect.target \in Target /\ job.effect.version \in Nat
        /\ job.answer = "dispatched"
        /\ disk[job.effect.target].visible = job.effect.version
    BY <1>1, JobEffect DEF FInv, JobInv
  <2>2. disk \in [Target -> Stored] /\ confirmed \in [Target -> Nat]
    BY DEF FInv, FoundationTypeOK
  <2>3. \A target \in Target :
          /\ disk[target].visible \in Nat
          /\ disk'[target].visible = disk[target].visible
          /\ disk'[target].recoverable = {disk[target].visible}
          /\ disk'[target] \in Stored
    BY <1>3, <2>2 DEF Settled, Stored
  <2>4. disk' \in [Target -> Stored] /\ confirmed' \in [Target -> Nat]
    BY <1>3, <2>1, <2>2, <2>3
  <2>5. \A target \in Target : confirmed'[target] <= disk[target].visible
    <3> SUFFICES ASSUME NEW target \in Target
                 PROVE  confirmed'[target] <= disk[target].visible
      OBVIOUS
    <3>1. disk[target].visible >= confirmed[target]
      BY DEF FInv, FilesInv
    <3> QED BY <1>3, <2>1, <2>2, <2>3, <3>1
  <2>6. FilesInv'
    <3> SUFFICES ASSUME NEW target \in Target
                 PROVE  /\ disk'[target].visible \in disk'[target].recoverable
                        /\ \A version \in disk'[target].recoverable :
                             /\ version >= confirmed'[target]
                             /\ version <= NewestStaged(target)
      BY <1>1 DEF FilesInv, NewestStaged
    <3>1. disk[target].visible <= NewestStaged(target) BY DEF FInv, FilesInv
    <3>2. confirmed'[target] \in Nat BY <2>4
    <3> QED BY <2>3, <2>5, <3>1, <3>2
  <2>7. job.answer \in Reply BY <2>1 DEF Reply, Answer
  <2> QED BY <1>1, <1>3, <2>4, <2>6, <2>7, ReplyKeeps
<1> QED BY <1>2, <1>3 DEF SyncState

LEMMA RestartKeeps ==
  ASSUME FInv, Restart
  PROVE  FInv'
<1>1. /\ host' = NewHost /\ now' = 0
      /\ accepted' = [id \in RequestId |-> None]
      /\ loads' = 0 /\ unfinished' = {}
      /\ outcome' = [id \in RequestId |-> None]
      /\ cancelAnswers' = [id \in RequestId |-> {}]
      /\ acks' = [g \in Generation |-> 0]
      /\ grants' = {} /\ uncounted' = {}
      /\ memory' = None /\ waiting' = {} /\ job' = None /\ exiting' = FALSE
      /\ replies' = [id \in RequestId |-> None]
      /\ staged' = staged /\ confirmed' = confirmed
      /\ restarts' = restarts + 1 /\ restarts < MaxRestarts
  BY DEF Restart
<1>2. IInv'
  <2>1. Init' BY <1>1 DEF Init
  <2>2. Init' => IInv' BY InitEstablishes, PTL
  <2> QED BY <2>1, <2>2
<1>3. disk \in [Target -> Stored] BY DEF FInv, FoundationTypeOK
<1>4. PICK left \in [Target -> Nat] :
        /\ \A target \in Target : left[target] \in disk[target].recoverable
        /\ disk' = disk \/ disk' = [target \in Target |-> Settled(left[target])]
  <2>1. CASE disk' = disk
    <3> DEFINE left == [target \in Target |-> disk[target].visible]
    <3>1. /\ left \in [Target -> Nat]
          /\ \A target \in Target : left[target] \in disk[target].recoverable
      BY <1>3 DEF FInv, FilesInv, Stored
    <3> QED BY <2>1, <3>1
  <2>2. ASSUME NEW w \in disk["welcome"].recoverable, NEW i \in disk["ime"].recoverable,
               disk' = [target \in Target |->
                          Settled(IF target = "welcome" THEN w ELSE i)]
        PROVE  \E left \in [Target -> Nat] :
                 /\ \A target \in Target : left[target] \in disk[target].recoverable
                 /\ disk' = [target \in Target |-> Settled(left[target])]
    <3> DEFINE left == [target \in Target |-> IF target = "welcome" THEN w ELSE i]
    <3>1. w \in Nat /\ i \in Nat BY <1>3 DEF Stored, Target
    <3>2. left \in [Target -> Nat] BY <3>1
    <3>3. \A target \in Target : left[target] \in disk[target].recoverable
      BY DEF Target
    <3>4. disk' = [target \in Target |-> Settled(left[target])] BY <2>2
    <3> HIDE DEF left
    <3> QED BY <3>2, <3>3, <3>4
  <2> QED BY <2>1, <2>2 DEF Restart
<1>5. disk' \in [Target -> Stored]
  BY <1>3, <1>4 DEF Settled, Stored
<1>6. FilesInv'
  <2>1. CASE disk' = disk BY <1>1, <2>1 DEF FInv, FilesInv, NewestStaged
  <2>2. CASE disk' = [target \in Target |-> Settled(left[target])]
    BY <1>1, <1>4, <2>2 DEF FInv, FilesInv, NewestStaged, Settled
  <2> QED BY <1>4, <2>1, <2>2
<1>7. FoundationTypeOK'
  <2>1. restarts' \in 0..MaxRestarts
    BY <1>1, FoundationAssumption DEF FInv, FoundationTypeOK
  <2>2. replies' \in [RequestId -> Reply \cup {None}] BY <1>1
  <2> QED BY <1>1, <1>5, <2>1, <2>2 DEF FInv, FoundationTypeOK
<1>8. WaitingInv' /\ JobInv' /\ RenamedInv'
  BY <1>1 DEF WaitingInv, JobInv, RenamedInv
<1> QED BY <1>2, <1>6, <1>7, <1>8 DEF FInv
-----------------------------------------------------------------------------
LEMMA FoundationNextKeeps ==
  ASSUME FInv, [FoundationNext]_allVars
  PROVE  FInv'
<1>1. CASE LifecycleStep BY <1>1, LifecycleStepKeeps
<1>2. ASSUME NEW context \in SenderContext, NEW request \in UiRequest,
             BeginFoundation(context, request)
      PROVE  FInv'
  BY <1>2, BeginFoundationKeeps
<1>3. ASSUME NEW id \in waiting, DispatchFoundation(id) PROVE FInv'
  BY <1>3, DispatchFoundationKeeps
<1>4. CASE CompleteFoundation BY <1>4, CompleteFoundationKeeps
<1>5. CASE DiscardDispatch BY <1>5, DiscardDispatchKeeps
<1>6. CASE AnswerDispatch BY <1>6, AnswerDispatchKeeps
<1>7. CASE RenameState BY <1>7, RenameStateKeeps
<1>8. CASE SyncState BY <1>8, SyncStateKeeps
<1>9. CASE Restart BY <1>9, RestartKeeps
<1>10. CASE UNCHANGED allVars
  <2>1. IInv' BY <1>10, StutterKeeps DEF FInv, allVars
  <2>2. /\ FoundationTypeOK' /\ WaitingInv' /\ FilesInv' /\ JobInv' /\ RenamedInv'
    BY <1>10
    DEF FInv, allVars, vars, history, foundation, files, FoundationTypeOK,
        WaitingInv, FilesInv, JobInv, RenamedInv, NewestStaged
  <2> QED BY <2>1, <2>2 DEF FInv
<1> QED
  BY <1>1, <1>2, <1>3, <1>4, <1>5, <1>6, <1>7, <1>8, <1>9, <1>10
  DEF FoundationNext, FinishFoundation

LEMMA FoundationInvariantHolds == FoundationSpec => []FInv
<1>1. FoundationInit => FInv BY FoundationInitEstablishes
<1>2. FInv /\ [FoundationNext]_allVars => FInv' BY FoundationNextKeeps
<1> QED BY <1>1, <1>2, PTL DEF FoundationSpec

(* The application, the files, the handlers and the replies stay within    *)
(* their types, for every set of operations (foundation.rs).               *)
THEOREM FoundationTypeCorrect == FoundationSpec => []FoundationTypeOK
<1>1. FInv => FoundationTypeOK BY DEF FInv
<1> QED BY <1>1, FoundationInvariantHolds, PTL

(* The lifecycle keeps its promises when foundation requests and restarts  *)
(* are interleaved with everything else it does.                           *)
THEOREM FoundationKeepsLifecycle ==
  FoundationSpec => [](RetiredWorkIsCancelled /\ AcceptedOnce /\ CancelAnswerIsFinal)
<1>1. FInv => RetiredWorkIsCancelled /\ AcceptedOnce /\ CancelAnswerIsFinal
  BY DEF FInv, IInv, HostInv, OthersAreCancelled, RetiredWorkIsCancelled
<1> QED BY <1>1, FoundationInvariantHolds, PTL

(* Whatever a process crash or a power loss leaves of a state file is at   *)
(* least as new as the last version a request was told is saved, for every *)
(* number of requests, failures and restarts (PreparedEffect::commit).     *)
THEOREM SavedIsDurable == FoundationSpec => []AcknowledgedIsDurable
<1>1. FInv => AcknowledgedIsDurable
  BY DEF FInv, FilesInv, AcknowledgedIsDurable
<1> QED BY <1>1, FoundationInvariantHolds, PTL

(* Nothing that was cancelled, however late, replaces a file or quits the  *)
(* application: the lifecycle's answer to the canceller is the verdict the *)
(* foundation acts on (finish_foundation_dispatch).                        *)
THEOREM CancelledNeverLasts == FoundationSpec => CancelledHasNoDurableEffect
<1> DEFINE Held == /\ job # None
                   /\ cancelAnswers[job.id] # {}
                   /\ restarts' = restarts
                   => UNCHANGED <<disk, exiting>>
<1>1. ASSUME FInv, [FoundationNext]_allVars PROVE Held
  <2>1. ASSUME job # None, IsLive(job) PROVE cancelAnswers[job.id] = {}
    <3>1. /\ job.id \in RequestId /\ job.outcome # None
          /\ outcome[job.id] = job.outcome
      BY <1>1, <2>1, NoneAssumption
      DEF FInv, FoundationTypeOK, Job, WaitingInv, IsLive, Outcome
    <3>2. cancelAnswers[job.id] \subseteq {job.outcome}
      BY <1>1, <3>1 DEF FInv, IInv, CancelAnswerIsFinal
    <3>3. cancelAnswers[job.id] \subseteq Terminal
      BY <1>1, <3>1 DEF FInv, IInv, TypeOK
    <3> QED BY <2>1, <3>2, <3>3 DEF IsLive, Live, Terminal
  <2>2. CASE UNCHANGED <<disk, exiting>> BY <2>2
  <2>3. CASE LifecycleStep BY <2>3 DEF LifecycleStep, foundation, files
  <2>4. CASE job = None BY <2>4
  <2>5. CASE AnswerDispatch \/ RenameState
    BY <2>1, <2>5 DEF AnswerDispatch, RenameState
  <2>6. CASE SyncState
    <3>1. job # None /\ job.renamed /\ IsLive(job) BY <1>1, <2>6 DEF SyncState, FInv, RenamedInv
    <3> QED BY <2>1, <3>1
  <2>7. CASE Restart
    BY <1>1, <2>7, FoundationAssumption DEF Restart, FInv, FoundationTypeOK
  <2> QED
    BY <1>1, <2>2, <2>3, <2>4, <2>5, <2>6, <2>7
    DEF FoundationNext, FinishFoundation, BeginFoundation, DispatchFoundation,
        CompleteFoundation, DiscardDispatch, files, allVars, foundation
<1>2. FInv /\ [FoundationNext]_allVars => [Held]_allVars BY <1>1
<1> QED BY <1>2, FoundationInvariantHolds, PTL
        DEF FoundationSpec, CancelledHasNoDurableEffect
-----------------------------------------------------------------------------
(* What the application shows *)

(* A text is one the file holds, or none. *)
Shown(text) == text \in {0, disk["ime"].visible}

(* The candidate of a prepared effect shows what its own file will hold, or *)
(* what the file of the text holds already.                                 *)
CandidateInv ==
  job # None /\ job.effect # None =>
    IF job.effect.target = "ime"
      THEN job.effect.candidate.text = job.effect.version
      ELSE Shown(job.effect.candidate.text)

LEMMA LoadedIsShown ==
  ASSUME MemoryFollowsDisk, NEW m \in Loaded
  PROVE  Shown(m.text)
BY DEF MemoryFollowsDisk, Loaded, Shown

LEMMA DispatchedIsShown ==
  ASSUME FoundationTypeOK, NEW m \in Application, Shown(m.text),
         NEW operation \in Operation,
         operation.kind # "application-health",
         NEW r \in Dispatched(m, operation)
  PROVE  /\ Shown(r.memory.text)
         /\ r.effect # None =>
              IF r.effect.target = "ime"
                THEN r.effect.candidate.text = r.effect.version
                ELSE Shown(r.effect.candidate.text)
<1> DEFINE kind == operation.kind
<1>0. kind \in OperationKind
  BY OperationAssumption
<1>1. ASSUME NEW a, NEW answer, Shown(a.text), r = Immediate(a, answer)
      PROVE  Shown(r.memory.text) /\ r.effect = None
  BY <1>1 DEF Immediate
<1>2. ASSUME NEW effect, r \in Prepared(m, effect)
      PROVE  Shown(r.memory.text) /\ r.effect \in {None, effect}
  <2>1. CASE r = Immediate(m, "internal-failure") BY <2>1 DEF Immediate
  <2>2. CASE r = [Immediate(m, "dispatched") EXCEPT !.effect = effect]
    BY <2>2 DEF Immediate
  <2> QED BY <1>2, <2>1, <2>2 DEF Prepared
<1>3. CASE kind \in {"foundation-load", "open-foundation-link"}
  <2>1. r \in {Immediate(m, "dispatched"), Immediate(m, "host-unavailable"),
               Immediate(m, "unauthorized")}
    BY <1>3 DEF Dispatched, SurfaceShown
  <2> QED BY <1>1, <2>1
<1>4. CASE kind \in {"show-canvas", "show-about", "show-internal-update"}
  <2> DEFINE a == [m EXCEPT !.surface = SurfaceShown[kind]]
  <2>1. r = Immediate(a, "dispatched") BY <1>4 DEF Dispatched, SurfaceShown
  <2>2. a.text = m.text BY DEF Application
  <2> HIDE DEF a
  <2> QED BY <1>1, <2>1, <2>2
<1>5. CASE kind = "dismiss-welcome"
  <2> DEFINE candidate == [m EXCEPT !.surface = "canvas"]
             effect == [target |-> "welcome", version |-> 1, candidate |-> candidate]
  <2>1. r \in Prepared(m, effect) BY <1>5 DEF Dispatched, SurfaceShown
  <2>2. candidate.text = m.text BY DEF Application
  <2> HIDE DEF candidate
  <2>3. effect.candidate.text = m.text /\ effect.target = "welcome" BY <2>2
  <2> HIDE DEF effect
  <2> QED BY <1>2, <2>1, <2>3
<1>6. CASE kind = "commit-canvas-text"
  <2> DEFINE candidate == [surface |-> "canvas", text |-> staged + 1]
             effect == [target |-> "ime", version |-> staged + 1,
                        candidate |-> candidate]
  <2>1. r = Immediate(m, "payload-too-large") \/ r \in Prepared(m, effect)
    BY <1>6 DEF Dispatched, SurfaceShown
  <2>2. effect.candidate.text = effect.version /\ effect.target = "ime"
    OBVIOUS
  <2> HIDE DEF effect
  <2> QED BY <1>1, <1>2, <2>1, <2>2
<1>7. CASE kind = "quit-application"
  <2>1. r = [Immediate(m, "dispatched") EXCEPT !.quit = TRUE]
    BY <1>7 DEF Dispatched, SurfaceShown
  <2>2. r.memory = m /\ r.effect = None BY <2>1 DEF Immediate
  <2> QED BY <2>2
<1> QED BY <1>0, <1>3, <1>4, <1>5, <1>6, <1>7 DEF OperationKind

LEMMA ShownStays ==
  ASSUME FInv, FInv', MemoryFollowsDisk, CandidateInv, [FoundationNext]_allVars
  PROVE  MemoryFollowsDisk' /\ CandidateInv'
<1>1. CASE UNCHANGED <<memory, disk, job>>
  BY <1>1 DEF MemoryFollowsDisk, CandidateInv, Shown
<1>2. CASE job' = None /\ UNCHANGED <<memory, disk>>
  BY <1>2 DEF MemoryFollowsDisk, CandidateInv
<1>3. ASSUME NEW id \in waiting, DispatchFoundation(id)
      PROVE  MemoryFollowsDisk' /\ CandidateInv'
  <2>1. PICK r \in IF accepted[id].kind = "application-health"
                     THEN {Immediate(memory, "unknown-operation")}
                     ELSE UNION {Dispatched(m, accepted[id]) : m \in Loaded} :
          /\ memory' = r.memory
          /\ job' = [id |-> id, answer |-> r.answer, effect |-> r.effect,
                     quit |-> r.quit, outcome |-> None, renamed |-> FALSE]
    BY <1>3 DEF DispatchFoundation
  <2>2. /\ disk' = disk /\ job'.effect = r.effect
        /\ accepted[id] \in Operation
    BY <1>3, <2>1 DEF DispatchFoundation, FInv, WaitingInv, IInv, TypeOK,
                      FoundationTypeOK
  <2>3. CASE accepted[id].kind = "application-health"
    <3>1. r.memory = memory /\ r.effect = None
      BY <2>1, <2>3 DEF Immediate
    <3> QED BY <2>1, <2>2, <3>1 DEF MemoryFollowsDisk, CandidateInv
  <2>4. CASE accepted[id].kind # "application-health"
    <3>1. PICK m \in Loaded : r \in Dispatched(m, accepted[id]) BY <2>1, <2>4
    <3>2. m \in Application /\ Shown(m.text)
      BY <3>1, LoadedType, LoadedIsShown DEF FInv
    <3>3. /\ Shown(r.memory.text)
          /\ r.effect # None =>
               IF r.effect.target = "ime"
                 THEN r.effect.candidate.text = r.effect.version
                 ELSE Shown(r.effect.candidate.text)
      BY <2>2, <2>4, <3>1, <3>2, DispatchedIsShown DEF FInv
    <3> QED BY <2>1, <2>2, <3>3 DEF MemoryFollowsDisk, CandidateInv, Shown
  <2> QED BY <2>3, <2>4
<1>4. CASE CompleteFoundation
  <2>1. job'.effect = job.effect /\ job # None
        /\ UNCHANGED <<memory, disk>>
    BY <1>4 DEF CompleteFoundation, files, FInv, FoundationTypeOK, Job
  <2> QED BY <2>1 DEF MemoryFollowsDisk, CandidateInv, Shown
<1>5. CASE RenameState
  <2>1. CASE job' = None /\ UNCHANGED <<memory, disk>> BY <1>2, <2>1
  <2>2. CASE /\ disk' = [disk EXCEPT ![job.effect.target] =
                           Replaced(disk[job.effect.target], job.effect.version)]
             /\ memory' = job.effect.candidate
             /\ job' = [job EXCEPT !.renamed = TRUE]
    <3> DEFINE target == job.effect.target
    <3>1. /\ target \in Target /\ job.effect # None /\ job # None
          /\ disk \in [Target -> Stored]
      BY <1>5, JobEffect DEF RenameState, FInv, FoundationTypeOK
    <3>2. job'.effect = job.effect
      BY <2>2, <3>1 DEF FInv, FoundationTypeOK, Job
    <3>3. CASE target = "ime"
      <4>1. disk'["ime"].visible = job.effect.version
        BY <2>2, <3>1, <3>3 DEF Replaced
      <4> QED BY <2>2, <3>1, <3>2, <3>3, <4>1
              DEF MemoryFollowsDisk, CandidateInv
    <3>4. CASE target # "ime"
      <4>1. disk'["ime"] = disk["ime"]
        BY <2>2, <3>1, <3>4 DEF Target
      <4> QED BY <2>2, <3>1, <3>2, <3>4, <4>1
              DEF MemoryFollowsDisk, CandidateInv, Shown
    <3> QED BY <3>3, <3>4
  <2> QED BY <1>5, <2>1, <2>2 DEF RenameState, ReplyWith
<1>6. CASE SyncState
  <2>1. job' = None /\ memory' = memory BY <1>6 DEF SyncState, ReplyWith
  <2>2. disk'["ime"].visible = disk["ime"].visible
    BY <1>6 DEF SyncState, Settled, Target
  <2> QED BY <2>1, <2>2 DEF MemoryFollowsDisk, CandidateInv
<1>7. CASE Restart BY <1>7 DEF Restart, MemoryFollowsDisk, CandidateInv
<1>8. CASE \/ LifecycleStep \/ UNCHANGED allVars
           \/ \E context \in SenderContext, request \in UiRequest :
                BeginFoundation(context, request)
  BY <1>1, <1>8 DEF LifecycleStep, foundation, files, allVars, BeginFoundation
<1>9. CASE DiscardDispatch \/ AnswerDispatch
  BY <1>2, <1>9 DEF DiscardDispatch, AnswerDispatch, ReplyWith, files
<1> QED
  BY <1>3, <1>4, <1>5, <1>6, <1>7, <1>8, <1>9 DEF FoundationNext, FinishFoundation

(* The application never shows a text its file does not hold, whichever    *)
(* call failed on the way, however often the process restarts              *)
(* (PreparedEffect::commit, FoundationHost::application).                  *)
THEOREM MemoryAlwaysFollowsDisk == FoundationSpec => []MemoryFollowsDisk
<1> DEFINE J == FInv /\ MemoryFollowsDisk /\ CandidateInv
<1>1. FoundationInit => J
  BY FoundationInitEstablishes
  DEF FoundationInit, MemoryFollowsDisk, CandidateInv
<1>2. J /\ [FoundationNext]_allVars => J'
  BY FoundationNextKeeps, ShownStays
<1> QED BY <1>1, <1>2, PTL DEF FoundationSpec
=============================================================================
