------------------------------ MODULE MergeGroup ------------------------------
(***************************************************************************)
(* Merge groups (src/quality/merge-group.mjs): a group is published when   *)
(* two complete reads of it agree, its commit and trees are composed of    *)
(* its members in order, and each member's handoff evidence still          *)
(* evaluates to a success for the head in the group.                       *)
(*                                                                         *)
(* The source holds the evaluator.  Its caller collects the two reads      *)
(* while the queue forms new groups, people push, handoffs come and go and *)
(* the base moves; it stores the snapshot, reads it back, and keeps the    *)
(* ledger of invalidated snapshots.  A tree is the base and the heads that *)
(* were applied to it, a commit is its tree and parents, and its identity  *)
(* is its content.                                                         *)
(***************************************************************************)
EXTENDS Naturals, Sequences, SequencesExt, Functions

CONSTANTS
  Pulls,            \* the pull requests of the queue
  MaxMoves          \* bound: what happens to the repository

ASSUME MergeGroupAssumption == MaxMoves \in Nat

VARIABLES
  tip,          \* the tip of the base branch
  head,         \* the head of each pull request
  handoffs,     \* the handoff evidence of each pull request
  moves,        \* how much of MaxMoves is used
  queue,        \* the group that the queue offers
  reading,      \* the read that is being collected
  firstRead, secondRead,
  between,      \* history: the world when the second read began
  snapshot,     \* the snapshot that is stored
  invalidated,  \* the ledger of invalidated snapshots
  released      \* the last group that was published

groupVars ==
  <<tip, head, handoffs, moves, queue, reading, firstRead, secondRead, between, snapshot, invalidated,
    released>>

NoEvidence == [head |-> << >>, run |-> 0]
Nothing == [none |-> TRUE]

Tree(base, members) == <<base>> \o [i \in DOMAIN members |-> members[i].head]

Parents(base, members) == Tree(base, members)

Commit(base, members) == [tree |-> Tree(base, members), parents |-> Parents(base, members)]

-----------------------------------------------------------------------------
(* The evaluator.                                                          *)

(* A member is certified when its evidence evaluates to a success for the  *)
(* head it has in the group.                                               *)
ClassifyMergeGroupConstituent(member) ==
  member.evidence # NoEvidence /\ member.evidence.head = member.head

(* Not the code: two complete reads, the same or not.                      *)
AnyTwoReads == firstRead # Nothing /\ secondRead # Nothing

(* Both reads are complete and the same.                                   *)
StableRead == firstRead # Nothing /\ firstRead = secondRead

(* No pull request and no head twice, and every page found its place.      *)
MemberSetCurrent(read) ==
  /\ IsInjective([i \in DOMAIN read.members |-> read.members[i].pull])
  /\ IsInjective([i \in DOMAIN read.members |-> read.members[i].head])

ClassifiedMembers(read) ==
  /\ read.members # << >>
  /\ MemberSetCurrent(read)
  /\ \A i \in DOMAIN read.members : ClassifyMergeGroupConstituent(read.members[i])

VerifyGroupCommitTree(read) ==
  /\ read.commit.tree = read.tree
  /\ read.commit.parents = Parents(read.base, read.members)

(* Each member takes the tree its predecessor left.                        *)
VerifyCombinedGroupTree(read) ==
  LET members == read.members
      tree[i \in 0 .. Len(members)] == IF i = 0 THEN <<read.base>> ELSE members[i].output IN
  /\ members # << >>
  /\ \A i \in DOMAIN members : members[i].input = tree[i - 1]
  /\ tree[Len(members)] = read.tree

BindMergeGroupSnapshot ==
  /\ StableRead
  /\ VerifyGroupCommitTree(secondRead)
  /\ ClassifiedMembers(secondRead)
  /\ VerifyCombinedGroupTree(secondRead)

EvaluateMergeGroup ==
  /\ BindMergeGroupSnapshot
  /\ snapshot = secondRead
  /\ secondRead \notin invalidated

-----------------------------------------------------------------------------
GroupInit ==
  /\ tip = 1
  /\ head = [p \in Pulls |-> <<p, 1>>]
  /\ handoffs \in {f \in [Pulls -> {NoEvidence} \cup {[head |-> head[p], run |-> 0] : p \in Pulls}] :
                     \A p \in Pulls : f[p] # NoEvidence => f[p].head = head[p]}
  /\ moves = 0
  /\ queue = [base |-> 1, members |-> << >>]
  /\ reading = Nothing /\ firstRead = Nothing /\ secondRead = Nothing
  /\ between = Nothing /\ snapshot = Nothing
  /\ invalidated = {} /\ released = Nothing

(* What happens to the repository, until the one pair of reads that the    *)
(* model follows is published (bound).                                     *)
World ==
  /\ released = Nothing
  /\ moves < MaxMoves
  /\ moves' = moves + 1
  /\ UNCHANGED <<reading, firstRead, secondRead, between, snapshot, invalidated, released>>

PushMember ==
  /\ \E p \in Pulls : head' = [head EXCEPT ![p] = <<p, @[2] + 1>>]
  /\ UNCHANGED <<tip, handoffs, queue>>
  /\ World

AdvanceBase ==
  /\ tip' = tip + 1
  /\ UNCHANGED <<head, handoffs, queue>>
  /\ World

(* Evidence names the runs it rests on, so a handoff that succeeds again    *)
(* leaves other evidence.                                                  *)
Certify ==
  /\ \E p \in Pulls : handoffs' = [handoffs EXCEPT ![p] = [head |-> head[p], run |-> moves + 1]]
  /\ UNCHANGED <<tip, head, queue>>
  /\ World

Withdraw ==
  /\ \E p \in Pulls :
       /\ handoffs[p] # NoEvidence
       /\ handoffs' = [handoffs EXCEPT ![p] = NoEvidence]
  /\ UNCHANGED <<tip, head, queue>>
  /\ World

FormGroup ==
  /\ \E pulls \in (SUBSET Pulls) \ {{}} : \E order \in SetToSeqs(pulls) :
       queue' = [base |-> tip,
                 members |-> [i \in DOMAIN order |-> [pull |-> order[i], head |-> head[order[i]]]]]
  /\ queue' # queue
  /\ UNCHANGED <<tip, head, handoffs>>
  /\ World

(* The reader.  The commit is read first and the members page by page, so  *)
(* what is read belongs to the groups of several moments.                  *)
Reader == UNCHANGED <<tip, head, handoffs, moves, queue, invalidated>>

BeginRead ==
  /\ reading = Nothing /\ secondRead = Nothing
  /\ queue.members # << >>
  /\ reading' = [base |-> queue.base, commit |-> Commit(queue.base, queue.members),
                 tree |-> Tree(queue.base, queue.members), members |-> << >>]
  /\ between' = IF firstRead = Nothing THEN Nothing ELSE [tip |-> tip, evidence |-> handoffs]
  /\ UNCHANGED <<firstRead, secondRead, snapshot, released>>
  /\ Reader

ReadMember ==
  LET i == Len(reading.members) + 1
      prefix == SubSeq(queue.members, 1, i - 1) IN
  /\ reading # Nothing
  /\ i \in DOMAIN queue.members
  /\ reading' = [reading EXCEPT !.members =
       Append(@, [pull |-> queue.members[i].pull, head |-> head[queue.members[i].pull],
                  evidence |-> handoffs[queue.members[i].pull],
                  input |-> Tree(queue.base, prefix),
                  output |-> Tree(queue.base, SubSeq(queue.members, 1, i))])]
  /\ UNCHANGED <<firstRead, secondRead, between, snapshot, released>>
  /\ Reader

EndRead ==
  /\ reading # Nothing
  /\ Len(reading.members) >= Len(queue.members)
  /\ reading' = Nothing
  /\ IF firstRead = Nothing
     THEN firstRead' = reading /\ UNCHANGED secondRead
     ELSE secondRead' = reading /\ UNCHANGED firstRead
  /\ UNCHANGED <<between, snapshot, released>>
  /\ Reader

StoreSnapshot ==
  /\ BindMergeGroupSnapshot
  /\ snapshot' = secondRead
  /\ snapshot' # snapshot
  /\ UNCHANGED <<reading, firstRead, secondRead, between, released>>
  /\ Reader

Invalidate ==
  /\ snapshot # Nothing
  /\ snapshot \notin invalidated
  /\ invalidated' = invalidated \cup {snapshot}
  /\ UNCHANGED <<tip, head, handoffs, moves, queue, reading, firstRead, secondRead, between, snapshot,
                 released>>

PublishGroup ==
  /\ EvaluateMergeGroup
  /\ released' = [read |-> secondRead, at |-> between, stale |-> secondRead \in invalidated]
  /\ released' # released
  /\ UNCHANGED <<reading, firstRead, secondRead, between, snapshot>>
  /\ Reader

GroupNext ==
  \/ PushMember \/ AdvanceBase \/ Certify \/ Withdraw \/ FormGroup
  \/ BeginRead \/ ReadMember \/ EndRead
  \/ StoreSnapshot \/ Invalidate \/ PublishGroup

GroupSpec == GroupInit /\ [][GroupNext]_groupVars

-----------------------------------------------------------------------------
(* A published group was certified as a whole at one instant: when the     *)
(* second read began, every member had the handoff evidence it was         *)
(* published with, and that evidence is for the head the commit merges;    *)
(* the commit is the members' heads on the base in their order; and the    *)
(* snapshot had not been invalidated (evaluateMergeGroup,                  *)
(* bindMergeGroupSnapshot).                                                *)
GroupsAreCertified ==
  released # Nothing =>
    LET read == released.read IN
    /\ read.members # << >>
    /\ \A i \in DOMAIN read.members :
         /\ released.at.evidence[read.members[i].pull] = read.members[i].evidence
         /\ read.members[i].evidence.head = read.commit.parents[i + 1]
    /\ read.commit = Commit(read.base, read.members)
    /\ \A i, j \in DOMAIN read.members : read.members[i].pull = read.members[j].pull => i = j
    /\ ~released.stale
=============================================================================
