------------------------------ MODULE WakeRouting ------------------------------
(***************************************************************************)
(* From an event to the issues to wake up                                  *)
(* (src/quality/lifecycle-wakeup-router.mjs, lifecycle-wake.mjs): a        *)
(* resolver reads what it needs twice, page by page, within a budget of    *)
(* requests, and gives up when the two reads differ.  Meanwhile issues and *)
(* pull requests open and close, pull requests are edited to name other    *)
(* issues, and runs run again.                                             *)
(*                                                                         *)
(* The provider lists the newest items first, pull requests among the      *)
(* issues, and stamps an item with updated_at at every change: that the    *)
(* stamp then differs is assumed.  A page holds PageSize items; the source *)
(* reads two of 100.                                                       *)
(***************************************************************************)
EXTENDS Naturals, Sequences, FiniteSets

CONSTANTS
  Issues,       \* the numbers of the issues
  PullRange,    \* the numbers of the pull requests
  PageSize,
  MaxEvents     \* bound: what happens while a resolver reads

ASSUME WakeAssumption ==
  /\ Issues \subseteq Nat \ {0} /\ PullRange \subseteq Nat \ {0}
  /\ IsFiniteSet(Issues) /\ IsFiniteSet(PullRange) /\ Issues \cap PullRange = {}
  /\ PageSize \in Nat \ {0} /\ MaxEvents \in Nat

VARIABLES
  world,     \* open items, the issue each pull request names, stamps, and the source run
  event,     \* the event that is resolved
  reads,     \* what the resolver was answered
  worlds,    \* history: the world of each answer
  events,    \* how much of MaxEvents is used
  result     \* the locators, or why there are none

wakeVars == <<world, event, reads, worlds, events, result>>

Numbers == Issues \cup PullRange

Resolvers == {"issue", "pullRequest", "governance", "evidence", "schedule"}

Budget(resolver) ==
  CASE resolver = "evidence" -> 4 [] resolver = "governance" -> 6 [] resolver = "issue" -> 0
    [] resolver = "pullRequest" -> 2 [] resolver = "schedule" -> 8

(* What a resolver requests, in order.                                     *)
Plan(resolver) ==
  CASE resolver = "issue" -> << >>
    [] resolver = "pullRequest" -> <<"pull", "pull">>
    [] resolver = "governance" -> <<"run", "run", "artifacts", "artifacts", "archive", "archive">>
    [] resolver = "evidence" -> <<"run", "run", "pull", "pull">>
    [] resolver = "schedule" -> <<"issues", "moreIssues", "issues", "moreIssues",
                                  "pulls", "morePulls", "pulls", "morePulls">>

-----------------------------------------------------------------------------
(* What the provider answers in a world.                                   *)

Item(w, n) ==
  [number |-> n, issue |-> IF n \in PullRange THEN w.link[n] ELSE n, updated |-> w.updated[n]]

Items(w, numbers) == {Item(w, n) : n \in w.open \cap numbers}

(* The place of an item in a list that begins with the newest.             *)
Place(item, list) == Cardinality({other \in list : other.number > item.number})

FirstPage(list) == {item \in list : Place(item, list) < PageSize}
SecondPage(list) ==
  {item \in list : Place(item, list) >= PageSize /\ Place(item, list) < PageSize + PageSize}

Answer(w, object) ==
  CASE object = "pull" -> Item(w, event.pull)
    [] object = "run" -> w.run.attempt
    [] object = "artifacts" -> w.run.artifacts
    [] object = "archive" -> reads[4]
    [] object = "issues" -> FirstPage(Items(w, Numbers))
    [] object = "moreIssues" -> SecondPage(Items(w, Numbers))
    [] object = "pulls" -> FirstPage(Items(w, PullRange))
    [] object = "morePulls" -> SecondPage(Items(w, PullRange))

-----------------------------------------------------------------------------
WakeInit ==
  /\ \E open \in SUBSET Numbers, link \in [PullRange -> Issues], issue \in Issues :
       world = [open |-> open, link |-> link, updated |-> [n \in Numbers |-> 0],
                run |-> [attempt |-> 1, artifacts |-> {[attempt |-> 1, issue |-> issue]}]]
  /\ \E resolver \in Resolvers, issue \in Issues, pull \in PullRange :
       event = [resolver |-> resolver, issue |-> issue, pull |-> pull, attempt |-> 1]
  /\ reads = << >> /\ worlds = << >> /\ events = 0
  /\ result = [status |-> "reading", locators |-> {}]

Reading == result.status = "reading"

Meanwhile == /\ Reading /\ events < MaxEvents
             /\ events' = events + 1
             /\ UNCHANGED <<event, reads, worlds, result>>

Close ==
  /\ Meanwhile
  /\ \E n \in world.open :
       world' = [world EXCEPT !.open = @ \ {n}, !.updated[n] = @ + 1]

(* An item that is new or was closed before.                               *)
Open ==
  /\ Meanwhile
  /\ \E n \in Numbers \ world.open :
       world' = [world EXCEPT !.open = @ \cup {n}, !.updated[n] = @ + 1]

EditPull ==
  /\ Meanwhile
  /\ \E p \in PullRange, issue \in Issues :
       /\ world.link[p] # issue
       /\ world' = [world EXCEPT !.link[p] = issue, !.updated[p] = @ + 1]

(* A run that runs again leaves another artifact of the same name, or      *)
(* replaces those of its former attempts.                                  *)
RunAgain ==
  /\ Meanwhile
  /\ \E kept \in {{}, world.run.artifacts}, issue \in Issues :
       world' = [world EXCEPT !.run =
                   [attempt |-> @.attempt + 1,
                    artifacts |-> kept \cup {[attempt |-> @.attempt + 1, issue |-> issue]}]]

-----------------------------------------------------------------------------
(* What the resolver makes of the first n answers.                         *)

(* Two pages as one list: its items with their places.                     *)
Flat(first, second) ==
  {<<Place(item, first), item>> : item \in first}
    \cup {<<Cardinality(first) + Place(item, second), item>> : item \in second}

(* Not the code: the second read is made and not compared.                 *)
SecondReadIgnored(n) == TRUE

(* stableRead.                                                             *)
ReadTwiceAlike(n) ==
  /\ event.resolver = "schedule" /\ n \in {4, 8} =>
       Flat(reads[n - 3], reads[n - 2]) = Flat(reads[n - 1], reads[n])
  /\ event.resolver # "schedule" /\ n \in {2, 4, 6} => reads[n - 1] = reads[n]

(* twoPageStable: a full second page may have a successor.                 *)
Incomplete(n) ==
  event.resolver = "schedule" /\ n \in {2, 4, 6, 8} /\ Cardinality(reads[n]) = PageSize

(* resolveGovernance: exactly one artifact, written by the attempt that    *)
(* was read.                                                               *)
GovernanceRefused(n) ==
  /\ event.resolver = "governance"
  /\ \/ n = 4 /\ Cardinality(reads[4]) # 1
     \/ n = 6 /\ \E artifact \in reads[6] : artifact.attempt # reads[2]

(* resolveEvidence: the run is still at the attempt of the event.          *)
EvidenceRefused(n) == event.resolver = "evidence" /\ n = 2 /\ reads[2] # event.attempt

Named(first, second) == {item.issue : item \in first \cup second}

Locators ==
  CASE event.resolver = "issue" -> {event.issue}
    [] event.resolver = "pullRequest" -> {reads[2].issue}
    [] event.resolver = "governance" -> {artifact.issue : artifact \in reads[6]}
    [] event.resolver = "evidence" -> {reads[4].issue}
    [] event.resolver = "schedule" ->
         {item.number : item \in {i \in reads[3] \cup reads[4] : i.number \notin PullRange}}
           \cup Named(reads[7], reads[8])

(* boundedScheduledLocators: at most 200 issues, two pages of them.        *)
ScheduleRefused(n) ==
  event.resolver = "schedule" /\ n = 8 /\ Cardinality(Locators) > PageSize + PageSize

Refused(n) == GovernanceRefused(n) \/ EvidenceRefused(n) \/ ScheduleRefused(n)

Accepted(n) == ~Incomplete(n) /\ ReadTwiceAlike(n) /\ ~Refused(n)

-----------------------------------------------------------------------------
Stop(status) ==
  /\ result' = [result EXCEPT !.status = status]
  /\ UNCHANGED <<reads, worlds>>

MayAsk == Reading /\ Accepted(Len(reads)) /\ Len(reads) < Len(Plan(event.resolver))

Object == Plan(event.resolver)[Len(reads) + 1]

(* countedProvider: a request over the budget is refused.  An artifact     *)
(* that was replaced has no archive.                                       *)
AskProvider ==
  /\ MayAsk
  /\ IF Len(reads) + 1 > Budget(event.resolver) THEN Stop("resolver-request-budget")
     ELSE /\ Object = "archive" => reads[4] \subseteq world.run.artifacts
          /\ reads' = Append(reads, Answer(world, Object))
          /\ worlds' = Append(worlds, world)
          /\ UNCHANGED result
  /\ UNCHANGED <<world, event, events>>

(* The provider fails.                                                     *)
Reject ==
  /\ MayAsk /\ Stop("rejected")
  /\ UNCHANGED <<world, event, events>>

GiveUp ==
  /\ Reading
  /\ \/ Incomplete(Len(reads)) /\ Stop("schedule-pagination-incomplete")
     \/ ~Incomplete(Len(reads)) /\ ~ReadTwiceAlike(Len(reads)) /\ Stop("resolver-unstable")
     \/ ~Incomplete(Len(reads)) /\ ReadTwiceAlike(Len(reads)) /\ Refused(Len(reads)) /\ Stop("refused")
  /\ UNCHANGED <<world, event, events>>

Resolve ==
  /\ Reading /\ Accepted(Len(reads)) /\ Len(reads) = Len(Plan(event.resolver))
  /\ result' = [status |-> "resolved", locators |-> Locators]
  /\ UNCHANGED <<world, event, reads, worlds, events>>

WakeNext ==
  \/ Close \/ Open \/ EditPull \/ RunAgain
  \/ AskProvider \/ Reject \/ GiveUp \/ Resolve

WakeSpec == WakeInit /\ [][WakeNext]_wakeVars

-----------------------------------------------------------------------------
(* The issues that are woken up are those of one instant of each read: a   *)
(* pull request's issue, the issue an artifact of the run's attempt names,  *)
(* and for a schedule every issue that was open and every issue an open    *)
(* pull request named both when the first read ended and when the second   *)
(* began, and no other, although pages shift while they are read; and no   *)
(* resolver runs out of its budget (resolveLifecycleWakeup).               *)
WakeupsReachTheirIssues ==
  /\ result.status # "resolver-request-budget"
  /\ result.status = "resolved" =>
       /\ event.resolver = "issue" => result.locators = {event.issue}
       /\ event.resolver = "pullRequest" => result.locators = {worlds[2].link[event.pull]}
       /\ event.resolver = "evidence" =>
            /\ result.locators = {worlds[4].link[event.pull]}
            /\ worlds[2].run.attempt = event.attempt
       /\ event.resolver = "governance" =>
            \E artifact \in worlds[4].run.artifacts :
              /\ result.locators = {artifact.issue}
              /\ artifact.attempt = worlds[2].run.attempt
       /\ event.resolver = "schedule" =>
            result.locators =
              (Issues \cap worlds[2].open \cap worlds[3].open)
                \cup {worlds[7].link[p] : p \in PullRange \cap worlds[6].open \cap worlds[7].open}
=============================================================================
