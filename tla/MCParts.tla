------------------------------- MODULE MCParts -------------------------------
(***************************************************************************)
(* Seven parts that share no state and never call each other, checked side *)
(* by side: a behaviour belongs to one of them, and the others rest in an  *)
(* initial state.                                                          *)
(***************************************************************************)
EXTENDS LifecycleHandoff, MergeGroup, ContractChain, WakeRouting, PackagePublication, PackagedLifecycle, Renderer

VARIABLE part   \* the part that moves

(* A task that is published, fails and is replaced, beside a defect.       *)
PathOf(type, version, revision) == [type |-> type, version |-> version, revision |-> revision]
SomePaths ==
  {PathOf("task", 1, 1), PathOf("task", 1, 2), PathOf("defect", 1, 2), PathOf("task", 2, 1),
   PathOf("task", 3, 1)}

(* Two ordinary heads, and a publication that is pushed over by a head     *)
(* whose kinds of files may not be published together.                     *)
SomeDiffs == {<<{"other"}, {"other"}>>, <<{"contract", "receipt"}, Kinds>>}

(* Numbers of issues and pull requests, mixed as a provider gives them.    *)
SomeIssues == {1, 3}
SomePulls == {2, 4, 5}

PartsInit ==
  /\ part \in {"handoff", "group", "chain", "wake", "publication", "packaged", "renderer"}
  /\ HandoffInit /\ GroupInit /\ ChainInit /\ WakeInit /\ PublicationInit /\ PackagedInit /\ RendererInit
  /\ part # "handoff" => diff[1] = {"other"}
  /\ part # "group" => handoffs = [p \in Pulls |-> NoEvidence]
  /\ event.pull = 2 /\ event.issue = 1
  /\ world.run.artifacts = {[attempt |-> 1, issue |-> 1]}
  /\ world.link = [p \in PullRange |-> IF p = 4 THEN 3 ELSE 1]
  /\ IF event.resolver = "schedule" THEN Cardinality(world.open) \in 3 .. 4 ELSE world.open = PullRange
  /\ part # "wake" => event.resolver = "issue"
  /\ part # "publication" => original = Absent
  /\ part # "packaged" => leader = "running"
  /\ part # "renderer" => host.surface = "canvas"

PartsNext ==
  /\ UNCHANGED part
  /\ \/ /\ part = "handoff" /\ HandoffNext
        /\ UNCHANGED <<groupVars, chainVars, wakeVars, publicationVars, packagedVars, rendererVars>>
     \/ /\ part = "group" /\ GroupNext
        /\ UNCHANGED <<handoffVars, chainVars, wakeVars, publicationVars, packagedVars, rendererVars>>
     \/ /\ part = "chain" /\ ChainNext
        /\ UNCHANGED <<handoffVars, groupVars, wakeVars, publicationVars, packagedVars, rendererVars>>
     \/ /\ part = "wake" /\ WakeNext
        /\ UNCHANGED <<handoffVars, groupVars, chainVars, publicationVars, packagedVars, rendererVars>>
     \/ /\ part = "publication" /\ PublicationNext
        /\ UNCHANGED <<handoffVars, groupVars, chainVars, wakeVars, packagedVars, rendererVars>>
     \/ /\ part = "packaged" /\ PackagedNext
        /\ UNCHANGED <<handoffVars, groupVars, chainVars, wakeVars, publicationVars, rendererVars>>
     \/ /\ part = "renderer" /\ RendererNext
        /\ UNCHANGED <<handoffVars, groupVars, chainVars, wakeVars, publicationVars, packagedVars>>

PartsSpec ==
  /\ PartsInit
  /\ [][PartsNext]_<<part, handoffVars, groupVars, chainVars, wakeVars, publicationVars, packagedVars,
                     rendererVars>>
=============================================================================
