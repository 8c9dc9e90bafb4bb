---------------------------- MODULE ContractChain ----------------------------
(***************************************************************************)
(* The contracts of one issue (src/quality/repository-contract-chain.mjs): *)
(* which sets of published and quarantined contracts form a chain, and     *)
(* what a publication receipt says of the next one                         *)
(* (publication-contract-schema.mjs).                                      *)
(*                                                                         *)
(* A path is a type, a version and a revision.  A contract whose           *)
(* publication was verified is authoritative; one whose publication was    *)
(* not is quarantined and never removed, and the next contract declares it *)
(* as recovered.  A digest identifies the bytes, so copied bytes have the  *)
(* digest of their original.                                               *)
(***************************************************************************)
EXTENDS Naturals, FiniteSets, FiniteSetsExt

CONSTANTS
  Paths,     \* the paths contracts are published under: [type, version, revision]
  MaxNodes   \* bound: contracts that are published

ContractTypes == {"epic", "task", "decision", "defect"}

ASSUME ChainAssumption ==
  /\ Paths \subseteq [type : ContractTypes, version : Nat \ {0}, revision : Nat \ {0}]
  /\ MaxNodes \in Nat

VARIABLES
  contracts,   \* the authoritative contracts
  quarantined  \* the quarantined attempts

chainVars == <<contracts, quarantined>>

NoBinding == [digest |-> "none"]

BindingOf(node) == [path |-> node.path, digest |-> node.digest]

Before(left, right) ==
  \/ left.version < right.version
  \/ left.version = right.version /\ left.revision < right.revision

-----------------------------------------------------------------------------
(* The validator.                                                          *)

DuplicateIdentity(nodes) ==
  \E left, right \in nodes :
    left # right /\ (left.path = right.path \/ left.digest = right.digest)

PrepareChain ==
  /\ contracts # {}
  /\ ~DuplicateIdentity(contracts)
  /\ ~DuplicateIdentity(quarantined)
  /\ \A node \in contracts, attempt \in quarantined :
       node.path # attempt.path /\ node.digest # attempt.digest

Predecessor(node) == {other \in contracts : BindingOf(other) = node.supersedes}

PredecessorsPresent ==
  \A node \in contracts : node.supersedes # NoBinding => Predecessor(node) # {}

(* chainCycle: from no contract does one come back to it.                  *)
CycleFree ==
  \A nodes \in (SUBSET contracts) \ {{}} : \E node \in nodes : Predecessor(node) \cap nodes = {}

Successors(node) == {other \in contracts : other.supersedes = BindingOf(node)}

(* One root and no fork: with no cycle and every predecessor present, the  *)
(* walk from the root along the successors visits every contract, each     *)
(* after the one it supersedes.                                            *)
ChainTopology ==
  /\ Cardinality({node \in contracts : node.supersedes = NoBinding}) = 1
  /\ \A node \in contracts : Cardinality(Successors(node)) <= 1

LastContract == CHOOSE node \in contracts : Successors(node) = {}

(* Not the code: the next version may be of another type, and so may this. *)
AnyTypeTransition(previous, current) ==
  current.version \in {previous.version, previous.version + 1}

(* Not the code: off by one, the next version is one too many.             *)
NoNextVersion(previous, current) ==
  current.version = previous.version /\ current.type = previous.type

SemanticTransition(previous, current) ==
  /\ current.version >= previous.version
  /\ current.version <= previous.version + 1
  /\ current.version = previous.version => current.type = previous.type

FirstRevision(node) ==
  IF node.supersedes # NoBinding /\ node.supersedes.path.version = node.path.version
  THEN node.supersedes.path.revision + 1
  ELSE 1

AttemptsInGap(node) ==
  {attempt \in quarantined :
     /\ attempt.path.version = node.path.version
     /\ attempt.path.type = node.path.type
     /\ attempt.path.revision >= FirstRevision(node)
     /\ attempt.path.revision < node.path.revision}

(* Every revision since the predecessor was attempted, and the contract    *)
(* recovers exactly these attempts.                                        *)
ExpectedGap(node) ==
  /\ node.supersedes # NoBinding => SemanticTransition(node.supersedes.path, node.path)
  /\ FirstRevision(node) <= node.path.revision
  /\ Cardinality(AttemptsInGap(node)) = node.path.revision - FirstRevision(node)
  /\ node.recoveries = {BindingOf(attempt) : attempt \in AttemptsInGap(node)}

Pending == quarantined \ UNION {AttemptsInGap(node) : node \in contracts}

(* What no contract recovered yet follows the last contract without a gap. *)
PendingQuarantine ==
  LET terminal == LastContract.path
      first == (CHOOSE attempt \in Pending :
                  \A other \in Pending : ~Before(other.path, attempt.path)).path
      start == IF first.version = terminal.version THEN terminal.revision + 1 ELSE 1 IN
  Pending # {} =>
    /\ \/ first.version = terminal.version /\ first.type = terminal.type
       \/ first.version = terminal.version + 1
    /\ \A attempt \in Pending :
         attempt.path.version = first.version /\ attempt.path.type = first.type
    /\ {attempt.path.revision : attempt \in Pending} = start .. start + Cardinality(Pending) - 1

ValidateContractChain ==
  /\ PrepareChain /\ PredecessorsPresent /\ CycleFree /\ ChainTopology
  /\ \A node \in contracts : ExpectedGap(node)
  /\ PendingQuarantine

-----------------------------------------------------------------------------
(* What a receipt says of a candidate: its predecessor and recoveries were *)
(* observed, and its own numbers fit them.  A migration receipt may begin  *)
(* a history at any revision.                                              *)
HistoryAccepted(candidate, migration) ==
  LET current == candidate.path
      prior == candidate.supersedes
      start == CASE prior # NoBinding /\ prior.path.version = current.version ->
                      prior.path.revision + 1
                 [] prior = NoBinding /\ migration -> current.revision
                 [] OTHER -> 1 IN
  /\ prior # NoBinding =>
       /\ current.version \in {prior.path.version, prior.path.version + 1}
       /\ prior.path.version = current.version => prior.path.type = current.type
       /\ prior.digest # candidate.digest
  /\ start <= current.revision
  /\ Cardinality(candidate.recoveries) = current.revision - start
  /\ \A recovery \in candidate.recoveries :
       /\ recovery.path.type = current.type
       /\ recovery.path.version = current.version
       /\ recovery.path.revision \in start .. current.revision - 1
       /\ recovery.digest \notin {candidate.digest}
             \cup (IF prior = NoBinding THEN {} ELSE {prior.digest})
  /\ \A left, right \in candidate.recoveries : left.digest = right.digest => left = right

-----------------------------------------------------------------------------
ChainInit == contracts = {} /\ quarantined = {}

(* Bytes are new, or those of an earlier contract copied to another path.  *)
Digests(path) == {path} \cup {node.digest : node \in contracts \cup quarantined}

Room == Cardinality(contracts) + Cardinality(quarantined) < MaxNodes

(* A contract is merged and verified.  What it declares is what its author *)
(* wrote: any contract or none as its predecessor, any attempts as         *)
(* recovered.                                                              *)
PublishContract ==
  /\ Room
  /\ \E path \in Paths, recoveries \in SUBSET {BindingOf(attempt) : attempt \in quarantined},
        supersedes \in {NoBinding} \cup {BindingOf(node) : node \in contracts} :
       \E digest \in Digests(path) :
         contracts' = contracts \cup {[path |-> path, digest |-> digest, supersedes |-> supersedes,
                                       recoveries |-> recoveries]}
  /\ contracts' # contracts
  /\ UNCHANGED quarantined

(* A contract is merged and its publication is not verified.               *)
QuarantineContract ==
  /\ Room
  /\ \E path \in Paths : \E digest \in Digests(path) :
       quarantined' = quarantined \cup {[path |-> path, digest |-> digest]}
  /\ quarantined' # quarantined
  /\ UNCHANGED contracts

ChainNext == PublishContract \/ QuarantineContract

ChainSpec == ChainInit /\ [][ChainNext]_chainVars

-----------------------------------------------------------------------------
(* The history a reader of the files would call complete: every attempt    *)
(* has its own place and its own bytes; the versions follow each other,    *)
(* each of one type, with its revisions counted from one; a version is     *)
(* left only by publishing a contract; and each contract names the one     *)
(* before it and the attempts in between.                                  *)
Published == {BindingOf(node) : node \in contracts}
Attempted == {BindingOf(attempt) : attempt \in quarantined}
History == Published \cup Attempted

Versions == {entry.path.version : entry \in History}
OfVersion(v) == {entry \in History : entry.path.version = v}
Latest(entries) == CHOOSE entry \in entries : \A other \in entries : ~Before(entry.path, other.path)
Earlier(node) == {entry \in Published : Before(entry.path, node.path)}

GaplessVersion(v) ==
  /\ Cardinality({entry.path.type : entry \in OfVersion(v)}) = 1
  /\ {entry.path.revision : entry \in OfVersion(v)} = 1 .. Cardinality(OfVersion(v))
  /\ v # Max(Versions) => v + 1 \in Versions /\ Latest(OfVersion(v)) \in Published

InItsPlace(node) ==
  /\ node.supersedes = IF Earlier(node) = {} THEN NoBinding ELSE Latest(Earlier(node))
  /\ node.recoveries = {entry \in History \ Published :
       /\ entry.path.version = node.path.version /\ Before(entry.path, node.path)
       /\ Earlier(node) # {} => Before(Latest(Earlier(node)).path, entry.path)}

GaplessHistory ==
  /\ contracts # {}
  /\ Cardinality(History) = Cardinality(contracts) + Cardinality(quarantined)
  /\ \A left, right \in History : left # right => left.digest # right.digest
  /\ \A v \in Versions : GaplessVersion(v)
  /\ \A node \in contracts : InItsPlace(node)

(* The validator accepts exactly the complete histories, whatever was      *)
(* published and quarantined in whatever order (validateContractChain).    *)
ChainsAreGapless == ValidateContractChain <=> GaplessHistory

(* A contract whose receipt was accepted extends the chain that was        *)
(* observed: when its predecessor is the last contract, its bytes are new  *)
(* and no other attempt was left behind, the chain with it is accepted     *)
(* (validateSnapshotReceipt against validateContractChain).                *)
ReceiptsExtendChains ==
  [][ /\ ValidateContractChain
      /\ \E candidate \in contracts' \ contracts :
           /\ HistoryAccepted(candidate, FALSE)
           /\ candidate.supersedes = BindingOf(LastContract)
           /\ \A node \in contracts \cup quarantined :
                /\ node.digest # candidate.digest
                /\ Before(node.path, candidate.path)
           /\ \A q \in quarantined : q.path.version < candidate.path.version =>
                  Before(q.path, candidate.supersedes.path)
      => ValidateContractChain' ]_chainVars
=============================================================================
