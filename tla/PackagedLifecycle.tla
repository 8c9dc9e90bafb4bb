-------------------------- MODULE PackagedLifecycle --------------------------
(***************************************************************************)
(* One run of the packaged shell by the acceptance gate                    *)
(* (src/quality/native-lifecycle.mjs): spawn, wait for the health          *)
(* acknowledgement, ask for a quit, wait for the exit, count what the      *)
(* process group still holds, and kill the group whatever happened.        *)
(*                                                                         *)
(* The controller is a single thread of callbacks, so what the shell does  *)
(* reaches it late and in any order that the event loop allows; while the  *)
(* quit helper and the cleanup run, it hears nothing.  Members of the      *)
(* group start and end on their own.  Time is only whether the shutdown    *)
(* budget has passed.                                                      *)
(***************************************************************************)
EXTENDS Naturals

CONSTANTS
  MaxMembers,   \* bound: other processes in the group
  MaxKills      \* attempts of the cleanup, 8 in the source

ASSUME PackagedAssumption == MaxMembers \in Nat /\ MaxKills \in Nat \ {0}

VARIABLES
  leader,      \* the shell: "running", "zombie" until the exit is heard, "gone"
  exit,        \* how it ended
  members,     \* the other processes of its group that live
  printed,     \* the acknowledgement was written
  late,        \* the shutdown budget has passed
  at,          \* where runPackagedLifecycle is
  failed,      \* it threw
  kills,       \* attempts of the cleanup
  outcome      \* what the caller gets

packagedVars == <<leader, exit, members, printed, late, at, failed, kills, outcome>>

(* A shell that cannot be spawned has no process group: its identity is    *)
(* undefined, and the cleanup cannot even signal it.                       *)
PackagedInit ==
  /\ leader \in {"running", "none"}
  /\ exit = "none"
  /\ members = 0
  /\ printed = FALSE /\ late = FALSE
  /\ at = "acknowledgement"
  /\ failed = FALSE /\ kills = 0
  /\ outcome = [failed |-> FALSE, cleanup |-> "none"]

-----------------------------------------------------------------------------
(* The shell and its group.                                                *)

Controller == UNCHANGED <<at, failed, kills, outcome>>

Prints ==
  /\ leader = "running" /\ ~printed
  /\ printed' = TRUE
  /\ UNCHANGED <<leader, exit, members, late>> /\ Controller

LeaderEnds ==
  /\ leader = "running"
  /\ leader' = "zombie"
  /\ exit' \in {"normal", "abnormal"}
  /\ UNCHANGED <<members, printed, late>> /\ Controller

MemberStarts ==
  /\ leader = "running" \/ members > 0
  /\ members < MaxMembers
  /\ members' = members + 1
  /\ UNCHANGED <<leader, exit, printed, late>> /\ Controller

MemberEnds ==
  /\ members > 0
  /\ members' = members - 1
  /\ UNCHANGED <<leader, exit, printed, late>> /\ Controller

BudgetPasses ==
  /\ at \in {"quit", "quitting", "exit"} /\ ~late
  /\ late' = TRUE
  /\ UNCHANGED <<leader, exit, members, printed>> /\ Controller

-----------------------------------------------------------------------------
(* The controller.                                                         *)

Outside == UNCHANGED <<exit, members, printed, late>>

Throw == failed' = TRUE /\ at' = "cleanup"

(* What is heard first decides; later events are not listened to.          *)
AwaitAcknowledgement ==
  /\ at = "acknowledgement"
  /\ \/ printed /\ at' = "quit" /\ UNCHANGED <<leader, failed>>
     \/ leader = "zombie" /\ leader' = "gone" /\ Throw
     \/ leader = "none" /\ Throw /\ UNCHANGED leader
     \/ Throw /\ UNCHANGED leader       \* the watchdog of 30 s
  /\ UNCHANGED <<kills, outcome>> /\ Outside

(* A shell whose end was heard is not asked to quit.  The exit may also be *)
(* heard while the acknowledgement is resolved.                            *)
AskToQuit ==
  /\ at = "quit"
  /\ \/ leader \in {"running", "zombie"} /\ at' = "quitting" /\ UNCHANGED leader
     \/ leader = "zombie" /\ leader' = "gone" /\ at' = "exit"
  /\ UNCHANGED <<failed, kills, outcome>> /\ Outside

(* The helper returns within what is left of the budget, fails, or is      *)
(* killed at its end; a return after the deadline is a failure.            *)
QuitReturns ==
  /\ at = "quitting"
  /\ \/ ~late /\ at' = "exit" /\ UNCHANGED failed
     \/ Throw
  /\ UNCHANGED <<leader, kills, outcome>> /\ Outside

(* Not the code: any end is an end.                                        *)
AnyExit == TRUE

NormalExit == exit = "normal"

AwaitExit ==
  /\ at = "exit"
  /\ \/ leader = "zombie" /\ leader' = "gone" /\ UNCHANGED <<at, failed>>
     \/ leader = "gone" /\ ~NormalExit /\ Throw /\ UNCHANGED leader
     \/ leader = "gone" /\ NormalExit /\ at' = "count" /\ UNCHANGED <<leader, failed>>
     \/ leader # "gone" /\ late /\ Throw /\ UNCHANGED leader
  /\ UNCHANGED <<kills, outcome>> /\ Outside

(* The helper that counts may fail.                                        *)
CountDescendants ==
  /\ at = "count"
  /\ \/ members = 0 /\ at' = "cleanup" /\ UNCHANGED failed
     \/ Throw
  /\ UNCHANGED <<leader, kills, outcome>> /\ Outside

End(cleanup) ==
  /\ at' = "ended"
  /\ outcome' = [failed |-> failed, cleanup |-> cleanup]

(* Signals the whole group; nobody is left to start another member.        *)
KillGroup ==
  /\ at = "cleanup" /\ leader # "none" /\ kills < MaxKills
  /\ members' = 0
  /\ leader' = IF leader = "running" THEN "zombie" ELSE leader
  /\ exit' = IF leader = "running" THEN "abnormal" ELSE exit
  /\ kills' = kills + 1
  /\ at' = "remaining"
  /\ UNCHANGED <<printed, late, failed, outcome>>

(* Whether an end that was not heard still counts is up to the tool.       *)
RemainingCounts ==
  \/ members > 0
  \/ leader = "zombie"

ForceCleanup ==
  /\ at = "remaining"
  /\ \/ RemainingCounts /\ kills < MaxKills /\ at' = "cleanup" /\ UNCHANGED outcome
     \/ RemainingCounts /\ kills = MaxKills /\ End("non-convergent")
     \/ members = 0 /\ End("none")
  /\ UNCHANGED <<leader, failed, kills>> /\ Outside

CleanupFails ==
  /\ at \in {"cleanup", "remaining"}
  /\ End("control-failed")
  /\ UNCHANGED <<leader, failed, kills>> /\ Outside

PackagedNext ==
  \/ Prints \/ LeaderEnds \/ MemberStarts \/ MemberEnds \/ BudgetPasses
  \/ AwaitAcknowledgement \/ AskToQuit \/ QuitReturns \/ AwaitExit \/ CountDescendants
  \/ KillGroup \/ ForceCleanup \/ CleanupFails

PackagedSpec == PackagedInit /\ [][PackagedNext]_packagedVars

-----------------------------------------------------------------------------
(* A run that ends without naming a cleanup failure leaves nothing of its  *)
(* group running, whatever it died of; and one that ends as a success was  *)
(* of a shell that acknowledged and ended normally by itself, before the   *)
(* cleanup had anything to kill (runPackagedLifecycle).                    *)
NothingIsLeftRunning ==
  at = "ended" /\ outcome.cleanup = "none" =>
    /\ leader # "running" /\ members = 0
    /\ ~outcome.failed => printed /\ exit = "normal" /\ leader = "gone" /\ kills = 1
=============================================================================
