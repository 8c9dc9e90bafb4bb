--------------------------- MODULE EpicMergeProofs ---------------------------
(***************************************************************************)
(* What the guarded merge never does, for every number of operations, pull *)
(* requests, brokers and maintainers.  The argument: whoever prepared an   *)
(* operation is the only broker that ever acts on it under its claim; an   *)
(* operation has its claim exactly as long as its outcome is open, and no  *)
(* two claims have the same base; only the owner marks an operation, once, *)
(* and only a marked one is sent; whoever settles an open operation has    *)
(* either the provider's answer or an observation that stays true.         *)
(***************************************************************************)
EXTENDS EpicMergeRefinement, FiniteSetTheorems, SequenceTheorems, TLAPS

(* From its preparation to its settlement a broker acts under a claim; it  *)
(* owns the operation then, and once it has sent a request for ever.       *)
UnderClaim == {"recheck", "cancel", "mark", "marked", "call", "await", "verify",
               "settle", "reject"}
Owns(b) == run[b].phase \in UnderClaim \/ calls[b] # "none"

Row(r) == [pull |-> r.pull, base |-> r.context.base, head |-> r.context.head]

OwnerInv ==
  /\ \A b \in Broker : Owns(b) => operations[run[b].operation] = Row(run[b])
  /\ \A b, c \in Broker :
       Owns(b) /\ Owns(c) /\ run[b].operation = run[c].operation => b = c

(* The phase of a run tells which request it made and what became of it.   *)
PhaseOf(b) ==
  /\ run[b].phase # "idle" => run[b].operation \in Operation /\ run[b].pull \in PullRequest
  /\ run[b].phase = "idle" => run[b].context = NoContext
  /\ run[b].phase \in {"idle", "load", "prepare", "recheck", "cancel", "mark", "marked", "call"}
       => calls[b] = "none"
  /\ run[b].phase = "await" => calls[b] # "none"
  /\ run[b].phase \in {"verify", "settle", "merged"} => calls[b] = "accepted"
  /\ run[b].phase = "reject" => calls[b] = "rejected"
  /\ run[b].phase = "denied" => calls[b] \in {"none", "rejected"}
  /\ run[b].phase = "prepare" => run[b].step = 1

PhaseInv == \A b \in Broker : PhaseOf(b)

(* A claim is held exactly while the outcome is open, and one per base. *)
ClaimInv ==
  /\ \A o \in Operation :
       operations[o] # None => (o \in active <=> Latest(o) \in {None, "indeterminate"})
  /\ \A o, p \in active : operations[o].base = operations[p].base => o = p

(* Marked once, by its owner, and before the request. *)
MarkOf(b) ==
  /\ run[b].phase \in {"recheck", "cancel", "mark"} => run[b].operation \notin submissions
  /\ calls[b] # "none" \/ run[b].phase \in {"marked", "call"} => run[b].operation \in submissions
  /\ calls[b] = "sent" \/ run[b].phase \in {"marked", "call"} =>
       run[b].operation \in active \/ pulls[run[b].pull].merged # 0

MarkInv == \A b \in Broker : MarkOf(b)

(* What a settlement says was so when it was made. *)
SettlementInv ==
  \A o \in Operation :
    /\ operations[o] = None => settlements[o] = <<>>
    /\ Latest(o) = "cancelled" => o \notin submissions
    /\ Latest(o) = "rejected" =>
         \E b \in Broker : run[b].operation = o /\ calls[b] = "rejected"

(* The provider's merges are the commits on the target. *)
ProviderInv ==
  \A p \in PullRequest :
    /\ pulls[p].base <= Tip
    /\ pulls[p].merged # 0 => pulls[p].merged <= Tip /\ target[pulls[p].merged].pull = p

(* The commit that a prepared operation asks for. *)
IsMergeOf(row) ==
  Tip > row.base /\ target[row.base + 1] = [pull |-> row.pull, head |-> row.head, exact |-> TRUE]

(* What was verified or observed of a merge stays true. *)
EvidenceOf(m) ==
  reconciling[m] # None =>
    /\ operations[reconciling[m].operation] # None
    /\ (reconciling[m].seen.pull # None /\ reconciling[m].seen.pull.merged # 0) =>
         LET pull == operations[reconciling[m].operation].pull
             merged == reconciling[m].seen.pull.merged
         IN  /\ pulls[pull].merged # 0
             /\ merged <= Tip
             /\ target[merged].pull = pull

EvidenceInv ==
  /\ \A b \in Broker : run[b].phase = "settle" => IsMergeOf(Row(run[b]))
  /\ \A m \in Maintainer : EvidenceOf(m)

(* The base a run loaded is a commit of the target.                        *)
LoadedOf(b) == run[b].phase # "idle" => run[b].context.base <= Tip

LoadedInv == \A b \in Broker : LoadedOf(b)

(* What had changed when a run prepared, and was not changed back, is to   *)
(* be noticed by a read that its recheck has still to make.                *)
ToBeNoticed(change, r) ==
  /\ change.pull = r.pull
  /\ change.context = r.context
  /\ \E n \in 1..5 : r.step <= n /\ Rechecks[n] = change.read

NoticedOf(b) ==
  \A change \in stale :
    change.operation = run[b].operation =>
      /\ run[b].phase = "recheck" => ToBeNoticed(change, run[b])
      /\ run[b].phase # "mark"

StaleInv ==
  /\ \A b \in Broker : NoticedOf(b)
  /\ \A change \in stale : operations[change.operation] # None /\ Differs(change)

EpicInv ==
  /\ TypeOK
  /\ OwnerInv
  /\ PhaseInv
  /\ ClaimInv
  /\ MarkInv
  /\ SettlementInv
  /\ ProviderInv
  /\ EvidenceInv
  /\ LoadedInv
  /\ StaleInv
  /\ MergedIsExact
  /\ StaleIsNeverSubmitted
-----------------------------------------------------------------------------
(* What the helpers do *)

(* Whether something differs depends on what the provider shows alone. *)
LEMMA DiffersStays ==
  ASSUME UNCHANGED <<target, pulls, facts>>
  PROVE  \A change \in stale : Differs(change)' <=> Differs(change)
BY DEF Differs, Tip

(* A step to another phase changes the phase of that run and nothing else. *)
LEMMA GotoEffect ==
  ASSUME run \in [Broker -> Run], NEW b \in Broker, NEW phase \in Phase,
         Goto(b, phase)
  PROVE  /\ run' \in [Broker -> Run]
         /\ run'[b].phase = phase
         /\ run'[b].step = run[b].step
         /\ run'[b].operation = run[b].operation
         /\ run'[b].pull = run[b].pull
         /\ run'[b].context = run[b].context
         /\ \A c \in Broker : c # b => run'[c] = run[c]
  BY DEF Goto, Run

(* A read moves on to the next one, or to the phase after the list. *)
LEMMA AdvanceEffect ==
  ASSUME run \in [Broker -> Run], NEW b \in Broker, NEW phase \in Phase,
         NEW reads, Len(reads) \in Nat, NEW context \in Context,
         Advance(b, reads, phase, context)
  PROVE  /\ run' \in [Broker -> Run]
         /\ run'[b].operation = run[b].operation
         /\ run'[b].pull = run[b].pull
         /\ run'[b].context = context
         /\ run[b].step < Len(reads) =>
              run'[b].phase = run[b].phase /\ run'[b].step = run[b].step + 1
         /\ ~(run[b].step < Len(reads)) =>
              run'[b].phase = phase /\ run'[b].step = 1
         /\ \A c \in Broker : c # b => run'[c] = run[c]
<1> DEFINE r == run[b]
           more == r.step < Len(reads)
<1>1. r \in Run /\ r.step \in Nat BY DEF Run
<1>2. CASE more
  <2>1. run' = [run EXCEPT ![b] = [r EXCEPT !.step = r.step + 1, !.phase = r.phase,
                                            !.context = context]]
    BY <1>2 DEF Advance
  <2>2. r.step + 1 \in Nat BY <1>1
  <2>3. [r EXCEPT !.step = r.step + 1, !.phase = r.phase, !.context = context] \in Run
    BY <1>1, <2>2 DEF Run
  <2> QED BY <1>1, <1>2, <2>1, <2>3 DEF Run
<1>3. CASE ~more
  <2>1. run' = [run EXCEPT ![b] = [r EXCEPT !.step = 1, !.phase = phase,
                                            !.context = context]]
    BY <1>3 DEF Advance
  <2> QED BY <1>1, <1>3, <2>1 DEF Run
<1> QED BY <1>2, <1>3

(* The last settlement of an operation, for each history there is. *)
LEMMA LatestCases ==
  ASSUME settlements \in [Operation -> History], NEW o \in Operation
  PROVE  /\ Latest(o) = None <=> settlements[o] = <<>>
         /\ Latest(o) = "indeterminate" <=> settlements[o] = <<"indeterminate">>
         /\ Latest(o) \in Result \cup {None}
<1> None \notin Result BY EpicNoneAssumption
<1>1. settlements[o] \in History OBVIOUS
<1>2. CASE settlements[o] = <<>> BY <1>2 DEF Latest, Result
<1>3. ASSUME NEW result \in Result, settlements[o] = <<result>>
      PROVE  Latest(o) = result /\ settlements[o] # <<>>
  BY <1>3 DEF Latest
<1>4. ASSUME NEW result \in {"merged", "cancelled"},
             settlements[o] = <<"indeterminate", result>>
      PROVE  /\ Latest(o) = result /\ settlements[o] # <<>>
             /\ settlements[o] # <<"indeterminate">>
  BY <1>4 DEF Latest
<1> QED BY <1>1, <1>2, <1>3, <1>4 DEF History, Result

LEMMA AppendToOne ==
  ASSUME NEW S, NEW first \in S, NEW second \in S
  PROVE  Append(<<first>>, second) = <<first, second>>
<1> DEFINE s == Append(<<first>>, second)
           t == <<first, second>>
<1>1. s \in Seq(S) /\ Len(s) = 2 /\ s[1] = first /\ s[2] = second
  BY AppendProperties
<1>2. t \in Seq(S) /\ Len(t) = 2 /\ t[1] = first /\ t[2] = second OBVIOUS
<1> HIDE DEF s, t
<1>3. \A i \in 1..Len(s) : s[i] = t[i] BY <1>1, <1>2
<1>4. s = t BY <1>1, <1>2, <1>3, SeqEqual
<1> QED BY <1>4 DEF s, t

(* Settling an open operation adds its last settlement, and no other's. *)
LEMMA SettleEffect ==
  ASSUME settlements \in [Operation -> History], NEW o \in Operation,
         NEW result \in Result,
         \/ settlements[o] = <<>>
         \/ settlements[o] = <<"indeterminate">> /\ result \in {"merged", "cancelled"},
         Settle(o, result)
  PROVE  /\ settlements' \in [Operation -> History]
         /\ Latest(o)' = result
         /\ settlements'[o] # <<>>
         /\ \A p \in Operation : p # o =>
              settlements'[p] = settlements[p] /\ Latest(p)' = Latest(p)
<1>1. settlements' = [settlements EXCEPT ![o] = Append(settlements[o], result)]
  BY DEF Settle
<1>2. CASE settlements[o] = <<>>
  <2>1. settlements'[o] = <<result>> BY <1>1, <1>2
  <2>2. settlements'[o] \in History BY <2>1 DEF History
  <2> QED BY <1>1, <2>1, <2>2 DEF Latest
<1>3. CASE settlements[o] = <<"indeterminate">> /\ result \in {"merged", "cancelled"}
  <2> "indeterminate" \in Result BY DEF Result
  <2>1. settlements'[o] = <<"indeterminate", result>> BY <1>1, <1>3, AppendToOne
  <2>2. settlements'[o] \in History BY <1>3, <2>1 DEF History
  <2> QED BY <1>1, <2>1, <2>2 DEF Latest
<1> QED BY <1>2, <1>3
-----------------------------------------------------------------------------
(* Steps of a run that leave the store and the provider as they are *)

LEMMA RunStepKeeps ==
  ASSUME EpicInv, NEW b \in Broker,
         run' \in [Broker -> Run],
         calls' \in [Broker -> {"none", "sent", "accepted", "rejected"}],
         run[b].phase # "idle",
         run'[b].operation = run[b].operation,
         run'[b].pull = run[b].pull,
         \A c \in Broker : c # b => run'[c] = run[c] /\ calls'[c] = calls[c],
         UNCHANGED <<target, pulls, facts, store, reconciling, stale>>,
         Owns(b)' => Owns(b) /\ run'[b].context = run[b].context,
         calls[b] = "rejected" => calls'[b] = "rejected",
         PhaseOf(b)', MarkOf(b)', LoadedOf(b)', NoticedOf(b)',
         run'[b].phase = "settle" => IsMergeOf(Row(run'[b]))
  PROVE  EpicInv'
<1>1. /\ target' = target /\ pulls' = pulls /\ facts' = facts
      /\ operations' = operations /\ active' = active /\ submissions' = submissions
      /\ settlements' = settlements /\ reconciling' = reconciling /\ stale' = stale
      /\ Tip' = Tip
      /\ \A o \in Operation : Latest(o)' = Latest(o)
  BY DEF store, Tip, Latest
<1>2. \A c \in Broker : c # b =>
        /\ Owns(c)' = Owns(c) /\ Row(run[c])' = Row(run[c])
        /\ PhaseOf(c) => PhaseOf(c)'
        /\ MarkOf(c) => MarkOf(c)'
        /\ LoadedOf(c) => LoadedOf(c)'
        /\ NoticedOf(c) => NoticedOf(c)'
  BY <1>1 DEF Owns, Row, PhaseOf, MarkOf, LoadedOf, NoticedOf, ToBeNoticed
<1>3. TypeOK' BY <1>1 DEF EpicInv, TypeOK
<1>4. OwnerInv'
  <2>1. Owns(b)' => Row(run[b])' = Row(run[b]) BY DEF Row
  <2> QED BY <1>1, <1>2, <2>1 DEF EpicInv, OwnerInv
<1>5. PhaseInv' /\ MarkInv' /\ LoadedInv'
  BY <1>2 DEF EpicInv, PhaseInv, MarkInv, LoadedInv
<1>6. StaleInv' BY <1>1, <1>2, DiffersStays DEF EpicInv, StaleInv
<1>7. ClaimInv' BY <1>1 DEF EpicInv, ClaimInv
<1>8. SettlementInv'
  <2>1. \A c \in Broker :
          run'[c].operation = run[c].operation
          /\ (calls[c] = "rejected" => calls'[c] = "rejected")
    OBVIOUS
  <2> QED BY <1>1, <2>1 DEF EpicInv, SettlementInv
<1>9. ProviderInv' BY <1>1 DEF EpicInv, ProviderInv
<1>10. EvidenceInv'
  <2>1. run'[b].phase = "settle" => IsMergeOf(Row(run[b]))'
    BY <1>1 DEF IsMergeOf, Row
  <2>2. \A c \in Broker : c # b => IsMergeOf(Row(run[c]))' = IsMergeOf(Row(run[c]))
    BY <1>1 DEF IsMergeOf, Row
  <2> QED BY <1>1, <2>1, <2>2 DEF EpicInv, EvidenceInv, EvidenceOf
<1>11. MergedIsExact' BY <1>1 DEF EpicInv, MergedIsExact, TypeOK
<1>12. StaleIsNeverSubmitted' BY <1>1 DEF EpicInv, StaleIsNeverSubmitted
<1> QED
  BY <1>3, <1>4, <1>5, <1>6, <1>7, <1>8, <1>9, <1>10, <1>11, <1>12 DEF EpicInv
(* A step to a phase outside the claim, when no marker is needed there. *)
LEMMA LeavingKeeps ==
  ASSUME EpicInv, NEW b \in Broker, NEW phase \in Phase \ (UnderClaim \cup {"idle", "prepare", "load"}),
         Goto(b, phase), run[b].phase # "idle",
         UNCHANGED <<provider, store, reconciling, stale>>,
         phase = "merged" => calls[b] = "accepted",
         phase = "denied" => calls[b] \in {"none", "rejected"}
  PROVE  EpicInv'
<1>1. /\ run \in [Broker -> Run]
      /\ calls \in [Broker -> {"none", "sent", "accepted", "rejected"}]
  BY DEF EpicInv, TypeOK
<1>2. /\ run' \in [Broker -> Run] /\ run'[b].phase = phase
      /\ run'[b].operation = run[b].operation /\ run'[b].pull = run[b].pull
      /\ run'[b].context = run[b].context
      /\ \A c \in Broker : c # b => run'[c] = run[c]
  BY <1>1, GotoEffect
<1>3. /\ calls' = calls /\ pulls' = pulls /\ target' = target /\ facts' = facts
      /\ submissions' = submissions /\ active' = active
  BY DEF provider, store
<1>4. PhaseOf(b) /\ MarkOf(b) /\ LoadedOf(b)
  BY DEF EpicInv, PhaseInv, MarkInv, LoadedInv
<1>5. PhaseOf(b)' /\ MarkOf(b)' /\ NoticedOf(b)'
  BY <1>2, <1>3, <1>4 DEF PhaseOf, MarkOf, NoticedOf, UnderClaim, Phase
<1>6. LoadedOf(b)' BY <1>2, <1>3, <1>4 DEF LoadedOf, Tip
<1>7. Owns(b)' => Owns(b) BY <1>2, <1>3 DEF Owns
<1>8. run'[b].phase # "settle" BY <1>2 DEF UnderClaim
<1> QED BY <1>1, <1>2, <1>3, <1>5, <1>6, <1>7, <1>8, RunStepKeeps DEF provider

LEMMA LoadKeeps ==
  ASSUME EpicInv, NEW b \in Broker, Load(b)
  PROVE  EpicInv'
<1> DEFINE r == run[b]
           read == Loads[r.step]
<1>1. /\ run \in [Broker -> Run] /\ r \in Run /\ r.phase = "load"
      /\ r.step \in Nat /\ r.context \in Context /\ r.pull \in PullRequest
      /\ pulls[r.pull] \in Pull /\ pulls[r.pull].base <= Tip
      /\ facts \in [Fact -> Content]
      /\ calls[b] = "none" /\ calls \in [Broker -> {"none", "sent", "accepted", "rejected"}]
  BY DEF Load, EpicInv, TypeOK, Run, PhaseInv, PhaseOf, ProviderInv
<1>2. CASE LoadPasses(r, read)
  <2> DEFINE context == Loaded(r, read)
  <2>1. context \in Context /\ context.base <= Tip
    <3>1. r.context.base <= Tip BY <1>1 DEF EpicInv, LoadedInv, LoadedOf
    <3>2. CASE read = "authorization"
      <4>1. context = [r.context EXCEPT !.base = pulls[r.pull].base,
                                        !.head = pulls[r.pull].head,
                                        !.facts[read] = facts[read]]
        BY <3>2 DEF Loaded
      <4>2. read \in Fact BY <3>2 DEF Fact
      <4>3. pulls[r.pull].base \in Nat /\ pulls[r.pull].head \in Nat BY <1>1 DEF Pull
      <4>4. context = [base |-> pulls[r.pull].base, head |-> pulls[r.pull].head,
                       facts |-> [r.context.facts EXCEPT ![read] = facts[read]]]
        BY <1>1, <4>1 DEF Context
      <4>5. [r.context.facts EXCEPT ![read] = facts[read]] \in [Fact -> Content \cup {None}]
        BY <1>1, <4>2 DEF Context
      <4> HIDE DEF context
      <4> QED BY <1>1, <4>3, <4>4, <4>5 DEF Context
    <3>3. CASE read \in Fact \ {"authorization"}
      <4>1. context = [r.context EXCEPT !.facts[read] = facts[read]]
        BY <3>3 DEF Loaded
      <4> QED BY <1>1, <3>1, <3>3, <4>1 DEF Context, Fact
    <3>4. CASE read \notin Fact
      <4>1. context = r.context BY <3>4 DEF Loaded, Fact
      <4> QED BY <1>1, <3>1, <4>1
    <3> QED BY <3>2, <3>3, <3>4
  <2>2. Advance(b, Loads, "prepare", context) BY <1>2 DEF Load
  <2>3. Len(Loads) \in Nat /\ "prepare" \in Phase BY DEF Loads, Phase
  <2> HIDE DEF context
  <2>4. /\ run' \in [Broker -> Run]
        /\ run'[b].operation = r.operation /\ run'[b].pull = r.pull
        /\ run'[b].context = context
        /\ run'[b].phase = "load" \/ (run'[b].phase = "prepare" /\ run'[b].step = 1)
        /\ \A c \in Broker : c # b => run'[c] = run[c]
    BY <1>1, <2>1, <2>2, <2>3, AdvanceEffect
  <2>5. /\ calls' = calls /\ pulls' = pulls /\ target' = target /\ facts' = facts
        /\ stale' = stale /\ reconciling' = reconciling /\ UNCHANGED store
    BY DEF Load, provider
  <2>6. PhaseOf(b)' /\ MarkOf(b)' /\ NoticedOf(b)' /\ ~Owns(b)'
    BY <1>1, <2>4, <2>5
    DEF PhaseOf, MarkOf, NoticedOf, Owns, UnderClaim, EpicInv, PhaseInv
  <2>7. LoadedOf(b)' BY <2>1, <2>4, <2>5 DEF LoadedOf, Tip
  <2> QED BY <1>1, <2>4, <2>5, <2>6, <2>7, RunStepKeeps
<1>3. CASE ~LoadPasses(r, read)
  <2>1. Goto(b, "denied") BY <1>3 DEF Load
  <2>2. "denied" \in Phase \ (UnderClaim \cup {"idle", "prepare", "load"})
    BY DEF Phase, UnderClaim
  <2> QED BY <1>1, <2>1, <2>2, LeavingKeeps DEF Load
<1> QED BY <1>2, <1>3

(* Fail and Crash, from any phase. *)
LEMMA FailKeeps ==
  ASSUME EpicInv, NEW b \in Broker, Fail(b) \/ Crash(b)
  PROVE  EpicInv'
<1>1. /\ run[b].phase # "idle"
      /\ run[b].phase = "load" => calls[b] = "none"
  BY DEF Fail, Crash, EpicInv, PhaseInv, PhaseOf
<1>2. {"denied", "failed", "crashed"} \subseteq
        Phase \ (UnderClaim \cup {"idle", "prepare", "load"})
  BY DEF Phase, UnderClaim
<1>3. PICK phase \in {"denied", "failed", "crashed"} :
        Goto(b, phase) /\ (phase = "denied" => run[b].phase = "load")
  BY DEF Fail, Crash
<1>4. UNCHANGED <<provider, store, reconciling, stale>> BY DEF Fail, Crash
<1> QED BY <1>1, <1>2, <1>3, <1>4, LeavingKeeps
-----------------------------------------------------------------------------
(* Steps of a run under its claim *)

LEMMA RecheckKeeps ==
  ASSUME EpicInv, NEW b \in Broker, Recheck(b)
  PROVE  EpicInv'
<1> DEFINE r == run[b]
<1>1. /\ run \in [Broker -> Run] /\ r.phase = "recheck" /\ r.step \in Nat
      /\ r.context \in Context /\ r.pull \in PullRequest /\ r.operation \in Operation
      /\ calls[b] = "none" /\ calls \in [Broker -> {"none", "sent", "accepted", "rejected"}]
      /\ r.operation \notin submissions /\ Owns(b)
  BY DEF Recheck, EpicInv, TypeOK, Run, PhaseInv, PhaseOf, MarkInv, MarkOf, Owns, UnderClaim
<1>2. /\ calls' = calls /\ pulls' = pulls /\ target' = target /\ facts' = facts
      /\ submissions' = submissions /\ stale' = stale /\ reconciling' = reconciling
      /\ UNCHANGED store
  BY DEF Recheck, provider, store
<1>3. LoadedOf(b) /\ NoticedOf(b) BY DEF EpicInv, LoadedInv, StaleInv
<1>4. CASE RecheckPasses(r, Rechecks[r.step])
  <2>1. Len(Rechecks) = 5 /\ "mark" \in Phase BY DEF Rechecks, Phase
  <2>2. Advance(b, Rechecks, "mark", r.context) BY <1>4 DEF Recheck
  <2>3. /\ run' \in [Broker -> Run]
        /\ run'[b].operation = r.operation /\ run'[b].pull = r.pull
        /\ run'[b].context = r.context
        /\ r.step < 5 => run'[b].phase = "recheck" /\ run'[b].step = r.step + 1
        /\ ~(r.step < 5) => run'[b].phase = "mark"
        /\ \A c \in Broker : c # b => run'[c] = run[c]
    <3>1. Len(Rechecks) \in Nat BY <2>1
    <3>2. /\ run' \in [Broker -> Run]
          /\ run'[b].operation = r.operation /\ run'[b].pull = r.pull
          /\ run'[b].context = r.context
          /\ r.step < Len(Rechecks) =>
               run'[b].phase = r.phase /\ run'[b].step = r.step + 1
          /\ ~(r.step < Len(Rechecks)) => run'[b].phase = "mark"
          /\ \A c \in Broker : c # b => run'[c] = run[c]
      <4> HIDE DEF r
      <4>1. run[b] = r BY DEF r
      <4>2. Advance(b, Rechecks, "mark", run[b].context) BY <2>2, <4>1
      <4>3. run[b].context \in Context BY <1>1, <4>1
      <4>4. run \in [Broker -> Run] BY <1>1
      <4>5. /\ run' \in [Broker -> Run]
            /\ run'[b].operation = run[b].operation
            /\ run'[b].pull = run[b].pull
            /\ run'[b].context = run[b].context
            /\ run[b].step < Len(Rechecks) =>
                 run'[b].phase = run[b].phase /\ run'[b].step = run[b].step + 1
            /\ ~(run[b].step < Len(Rechecks)) =>
                 run'[b].phase = "mark" /\ run'[b].step = 1
            /\ \A c \in Broker : c # b => run'[c] = run[c]
        BY ONLY b \in Broker, <2>1, <3>1, <4>2, <4>3, <4>4, AdvanceEffect, Zenon
      <4> QED BY <4>1, <4>5
    <3> QED BY <1>1, <2>1, <3>2
  <2>4. ASSUME NEW change \in stale, change.operation = r.operation
        PROVE  r.step < 5 /\ \E n \in 1..5 : r.step + 1 <= n /\ Rechecks[n] = change.read
    <3>1. ToBeNoticed(change, r) /\ Differs(change)
      BY <1>1, <1>3, <2>4 DEF NoticedOf, EpicInv, StaleInv
    <3>2. PICK n \in 1..5 : r.step <= n /\ Rechecks[n] = change.read
      BY <3>1 DEF ToBeNoticed
    <3>3. r.step # n
      <4> SUFFICES ASSUME r.step = n PROVE FALSE OBVIOUS
      <4>1. RecheckPasses(r, change.read) BY <1>4, <3>2
      <4>2. change.read \in {"refs", "protection", "policy", "authorization", "pull-request"}
        BY <3>2 DEF Rechecks
      <4>3. change.pull = r.pull /\ change.context = r.context BY <3>1 DEF ToBeNoticed
      <4> HIDE DEF r
      <4> QED BY <3>1, <4>1, <4>2, <4>3 DEF RecheckPasses, Differs, RefsCurrent, SamePull
    <3> QED BY <1>1, <3>2, <3>3
  <2>5. NoticedOf(b)'
    <3> SUFFICES ASSUME NEW change \in stale, change.operation = r.operation
                 PROVE  run'[b].phase = "recheck" /\ ToBeNoticed(change, run[b])'
      BY <1>2, <2>3 DEF NoticedOf
    <3>1. ToBeNoticed(change, r) BY <1>1, <1>3 DEF NoticedOf
    <3>2. run'[b].phase = "recheck" /\ run'[b].step = r.step + 1 BY <2>3, <2>4
    <3> HIDE DEF r
    <3> QED BY <2>3, <2>4, <3>1, <3>2 DEF ToBeNoticed
  <2>6. PhaseOf(b)' /\ MarkOf(b)' BY <1>1, <1>2, <2>3 DEF PhaseOf, MarkOf
  <2>7. LoadedOf(b)' BY <1>1, <1>2, <1>3, <2>3 DEF LoadedOf, Tip
  <2>8. run'[b].phase # "settle" BY <1>1, <2>3
  <2> QED BY <1>1, <1>2, <2>3, <2>5, <2>6, <2>7, <2>8, RunStepKeeps
<1>5. CASE ~RecheckPasses(r, Rechecks[r.step])
  <2>1. Goto(b, "cancel") /\ "cancel" \in Phase BY <1>5 DEF Recheck, Phase
  <2>2. /\ run' \in [Broker -> Run] /\ run'[b].phase = "cancel"
        /\ run'[b].operation = r.operation /\ run'[b].pull = r.pull
        /\ run'[b].context = r.context
        /\ \A c \in Broker : c # b => run'[c] = run[c]
    BY <1>1, <2>1, GotoEffect
  <2>3. PhaseOf(b)' /\ MarkOf(b)' /\ NoticedOf(b)'
    BY <1>1, <1>2, <2>2 DEF PhaseOf, MarkOf, NoticedOf
  <2>4. LoadedOf(b)' BY <1>1, <1>2, <1>3, <2>2 DEF LoadedOf, Tip
  <2> QED BY <1>1, <1>2, <2>2, <2>3, <2>4, RunStepKeeps
<1> QED BY <1>4, <1>5

(* A step from one phase under the claim to another, past the marker. *)
LEMMA MarkedStepKeeps ==
  ASSUME EpicInv, NEW b \in Broker,
         NEW phase \in {"call", "await", "verify", "reject", "settle"},
         Goto(b, phase), Owns(b), run[b].phase # "idle",
         calls' \in [Broker -> {"none", "sent", "accepted", "rejected"}],
         \A c \in Broker : c # b => calls'[c] = calls[c],
         UNCHANGED <<target, pulls, facts, store, reconciling, stale>>,
         calls[b] = "rejected" => calls'[b] = "rejected",
         run[b].operation \in submissions,
         phase = "call" \/ calls'[b] = "sent" =>
           run[b].operation \in active \/ pulls[run[b].pull].merged # 0,
         PhaseOf(b)',
         phase = "settle" => IsMergeOf(Row(run[b]))
  PROVE  EpicInv'
<1>1. run \in [Broker -> Run] /\ phase \in Phase BY DEF EpicInv, TypeOK, Phase
<1>2. /\ run' \in [Broker -> Run] /\ run'[b].phase = phase
      /\ run'[b].operation = run[b].operation /\ run'[b].pull = run[b].pull
      /\ run'[b].context = run[b].context
      /\ \A c \in Broker : c # b => run'[c] = run[c]
  BY <1>1, GotoEffect
<1>3. /\ pulls' = pulls /\ target' = target /\ facts' = facts
      /\ submissions' = submissions /\ active' = active
  BY DEF store
<1>4. MarkOf(b)' /\ NoticedOf(b)' BY <1>2, <1>3 DEF MarkOf, NoticedOf
<1>5. LoadedOf(b)' BY <1>2, <1>3 DEF EpicInv, LoadedInv, LoadedOf, Tip
<1>6. phase = "settle" => IsMergeOf(Row(run'[b]))
  BY <1>2 DEF IsMergeOf, Row
<1> QED BY <1>2, <1>4, <1>5, <1>6, RunStepKeeps

LEMMA ReadMarkKeeps ==
  ASSUME EpicInv, NEW b \in Broker, ReadMark(b)
  PROVE  EpicInv'
<1>1. /\ run \in [Broker -> Run] /\ run[b].phase = "marked" /\ PhaseOf(b) /\ MarkOf(b)
      /\ calls \in [Broker -> {"none", "sent", "accepted", "rejected"}]
      /\ calls' = calls
      /\ UNCHANGED <<target, pulls, facts, store, reconciling, stale>>
  BY DEF ReadMark, EpicInv, TypeOK, PhaseInv, MarkInv, provider
<1>2. CASE Goto(b, "call")
  <2>1. run'[b].phase = "call" /\ run'[b].operation = run[b].operation
        /\ run'[b].pull = run[b].pull
    BY <1>1, <1>2, GotoEffect DEF Phase
  <2>2. PhaseOf(b)' BY <1>1, <2>1 DEF PhaseOf
  <2> QED BY <1>1, <1>2, <2>2, MarkedStepKeeps DEF Owns, UnderClaim, PhaseOf, MarkOf
<1>3. CASE Goto(b, "failed")
  BY <1>1, <1>3, LeavingKeeps DEF ReadMark, UnderClaim, Phase
<1> QED BY <1>2, <1>3 DEF ReadMark

LEMMA CallKeeps ==
  ASSUME EpicInv, NEW b \in Broker, Call(b)
  PROVE  EpicInv'
<1>1. /\ run \in [Broker -> Run] /\ run[b].phase = "call" /\ PhaseOf(b) /\ MarkOf(b)
      /\ calls \in [Broker -> {"none", "sent", "accepted", "rejected"}]
      /\ calls' = [calls EXCEPT ![b] = "sent"]
      /\ Goto(b, "await")
      /\ UNCHANGED <<target, pulls, facts, store, reconciling, stale>>
  BY DEF Call, EpicInv, TypeOK, PhaseInv, MarkInv
<1>2. run'[b].phase = "await" /\ run'[b].operation = run[b].operation
      /\ run'[b].pull = run[b].pull
  BY <1>1, GotoEffect DEF Phase
<1>3. PhaseOf(b)' BY <1>1, <1>2 DEF PhaseOf
<1>4. /\ calls' \in [Broker -> {"none", "sent", "accepted", "rejected"}]
      /\ calls'[b] = "sent" /\ calls[b] = "none"
      /\ \A c \in Broker : c # b => calls'[c] = calls[c]
  BY <1>1 DEF PhaseOf
<1> QED BY <1>1, <1>3, <1>4, MarkedStepKeeps DEF Owns, UnderClaim, MarkOf

LEMMA ReceiveKeeps ==
  ASSUME EpicInv, NEW b \in Broker, Receive(b)
  PROVE  EpicInv'
<1>1. /\ run \in [Broker -> Run] /\ run[b].phase = "await" /\ PhaseOf(b) /\ MarkOf(b)
      /\ calls \in [Broker -> {"none", "sent", "accepted", "rejected"}]
      /\ calls' = calls /\ calls[b] \in {"accepted", "rejected"}
      /\ UNCHANGED <<target, pulls, facts, store, reconciling, stale>>
  BY DEF Receive, EpicInv, TypeOK, PhaseInv, MarkInv, provider
<1>2. PICK phase \in {"verify", "reject"} :
        Goto(b, phase) /\ (phase = "verify" <=> calls[b] = "accepted")
  BY DEF Receive
<1>3. run'[b].phase = phase /\ run'[b].operation = run[b].operation
      /\ run'[b].pull = run[b].pull
  BY <1>1, <1>2, GotoEffect DEF Phase
<1>4. PhaseOf(b)' BY <1>1, <1>2, <1>3 DEF PhaseOf
<1> QED BY <1>1, <1>2, <1>4, MarkedStepKeeps DEF Owns, UnderClaim, MarkOf

(* What the target shows of a merge that matches a row is that merge. *)
LEMMA MatchIsMerge ==
  ASSUME target \in Seq(Commit), NEW row, NEW pull, NEW p, NEW tip,
         row.base \in Nat, OutcomeMatches(row, pull, tip),
         pull.merged <= Tip, target[pull.merged].pull = p
  PROVE  IsMergeOf([pull |-> p, base |-> row.base, head |-> row.head])
<1>1. /\ pull.merged = row.base + 1 /\ target[pull.merged].head = row.head
      /\ target[pull.merged].exact
  BY DEF OutcomeMatches
<1>2. row.base + 1 \in 1..Len(target) /\ Len(target) \in Nat BY <1>1 DEF Tip
<1>3. target[row.base + 1] \in Commit BY <1>2
<1>4. target[row.base + 1] = [pull |-> p, head |-> row.head, exact |-> TRUE]
  BY <1>1, <1>3 DEF Commit
<1> QED BY <1>2, <1>4 DEF IsMergeOf, Tip

LEMMA VerifyKeeps ==
  ASSUME EpicInv, NEW b \in Broker, Verify(b)
  PROVE  EpicInv'
<1> DEFINE r == run[b]
<1>1. /\ run \in [Broker -> Run] /\ r.phase = "verify" /\ PhaseOf(b) /\ MarkOf(b)
      /\ r.context \in Context /\ r.pull \in PullRequest
      /\ calls \in [Broker -> {"none", "sent", "accepted", "rejected"}]
      /\ calls' = calls
      /\ UNCHANGED <<target, pulls, facts, store, reconciling, stale>>
  BY DEF Verify, EpicInv, TypeOK, PhaseInv, PhaseOf, MarkInv, provider, Run
<1>2. CASE OutcomeMatches(r.context, pulls[r.pull], Tip)
  <2>1. Goto(b, "settle") BY <1>2 DEF Verify
  <2>2. run'[b].phase = "settle" /\ run'[b].operation = r.operation
        /\ run'[b].pull = r.pull
    BY <1>1, <2>1, GotoEffect DEF Phase
  <2>3. PhaseOf(b)' BY <1>1, <2>2 DEF PhaseOf
  <2>4. /\ pulls[r.pull].merged <= Tip /\ target[pulls[r.pull].merged].pull = r.pull
        /\ target \in Seq(Commit) /\ r.context.base \in Nat
    BY <1>1, <1>2 DEF EpicInv, ProviderInv, OutcomeMatches, TypeOK, Context
  <2>5. IsMergeOf([pull |-> r.pull, base |-> r.context.base, head |-> r.context.head])
    BY <1>2, <2>4, MatchIsMerge
  <2>6. IsMergeOf(Row(r)) BY <2>5 DEF Row
  <2> QED BY <1>1, <2>1, <2>3, <2>6, MarkedStepKeeps DEF Owns, UnderClaim, PhaseOf, MarkOf
<1>3. CASE ~OutcomeMatches(r.context, pulls[r.pull], Tip)
  <2>1. Goto(b, "failed") BY <1>3 DEF Verify
  <2> QED BY <1>1, <2>1, LeavingKeeps DEF Verify, UnderClaim, Phase
<1> QED BY <1>2, <1>3
-----------------------------------------------------------------------------
(* Steps of the provider and of the people who work with it *)

(* Commits are only added, what was merged stays merged, and only an open  *)
(* request is answered.                                                    *)
LEMMA ProviderStepKeeps ==
  ASSUME EpicInv,
         target' \in Seq(Commit), Tip <= Tip',
         \A n \in 1..Tip : target'[n] = target[n],
         pulls' \in [PullRequest -> Pull],
         \A p \in PullRequest : pulls[p].merged # 0 => pulls'[p].merged # 0,
         facts' \in [Fact -> Content],
         calls' \in [Broker -> {"none", "sent", "accepted", "rejected"}],
         \A b \in Broker : \/ calls'[b] = calls[b]
                           \/ calls[b] = "sent" /\ calls'[b] \in {"accepted", "rejected"},
         ProviderInv',
         UNCHANGED <<store, run, reconciling>>,
         KeepStale
  PROVE  EpicInv'
<1>1. /\ operations' = operations /\ active' = active /\ submissions' = submissions
      /\ settlements' = settlements /\ run' = run /\ reconciling' = reconciling
      /\ stale' \subseteq stale
      /\ \A o \in Operation : Latest(o)' = Latest(o)
      /\ Tip \in Nat /\ Tip' \in Nat /\ target \in Seq(Commit)
  BY DEF store, Latest, EpicInv, TypeOK, Tip, KeepStale
<1>2. \A b \in Broker : Owns(b)' = Owns(b) /\ Row(run[b])' = Row(run[b])
  BY <1>1 DEF Owns, Row
<1>3. TypeOK' BY <1>1 DEF EpicInv, TypeOK
<1>4. OwnerInv' BY <1>1, <1>2 DEF EpicInv, OwnerInv
<1>5. PhaseInv' BY <1>1 DEF EpicInv, PhaseInv, PhaseOf
<1>6. ClaimInv' BY <1>1 DEF EpicInv, ClaimInv
<1>7. MarkInv'
  <2> SUFFICES ASSUME NEW b \in Broker PROVE MarkOf(b)' BY DEF MarkInv
  <2>1. /\ MarkOf(b) /\ PhaseOf(b)
        /\ calls[b] # "none" => run[b].phase # "idle"
        /\ run[b].phase \in {"marked", "call"} => run[b].phase # "idle"
    BY DEF EpicInv, MarkInv, PhaseInv, PhaseOf
  <2>2. calls'[b] # "none" <=> calls[b] # "none" OBVIOUS
  <2>3. calls'[b] = "sent" => calls[b] = "sent" OBVIOUS
  <2> QED BY <1>1, <2>1, <2>2, <2>3 DEF MarkOf, PhaseOf
<1>8. SettlementInv'
  <2>1. \A b \in Broker : calls[b] = "rejected" => calls'[b] = "rejected" OBVIOUS
  <2> QED BY <1>1, <2>1 DEF EpicInv, SettlementInv
<1>9. EvidenceInv'
  <2>1. \A b \in Broker : run[b].phase = "settle" => IsMergeOf(Row(run[b]))'
    <3> SUFFICES ASSUME NEW b \in Broker, run[b].phase = "settle"
                 PROVE  IsMergeOf(Row(run[b]))'
      OBVIOUS
    <3>1. IsMergeOf(Row(run[b])) BY DEF EpicInv, EvidenceInv
    <3> DEFINE n == run[b].context.base
               commit == [pull |-> run[b].pull, head |-> run[b].context.head, exact |-> TRUE]
    <3>2. n \in Nat BY DEF EpicInv, TypeOK, Run, Context
    <3>3. Tip > n /\ target[n + 1] = commit BY <3>1 DEF IsMergeOf, Row
    <3>4. Tip' > n /\ target'[n + 1] = commit
      <4> HIDE DEF n, commit
      <4> QED BY <1>1, <3>2, <3>3
    <3> QED BY <1>1, <3>4 DEF IsMergeOf, Row
  <2>2. ASSUME NEW m \in Maintainer, reconciling[m] # None,
               reconciling[m].seen.pull # None, reconciling[m].seen.pull.merged # 0
        PROVE  LET pull == operations[reconciling[m].operation].pull
                   merged == reconciling[m].seen.pull.merged
               IN  /\ pulls'[pull].merged # 0
                   /\ merged <= Tip'
                   /\ target'[merged].pull = pull
    <3> DEFINE c == reconciling[m]
               row == operations[c.operation]
    <3>1. /\ c \in Reconciliation /\ row # None /\ row \in Preparation
      BY <2>2 DEF EpicInv, TypeOK, EvidenceInv, EvidenceOf, Reconciliation
    <3>2. row.pull \in PullRequest /\ c.seen.pull \in Pull
      BY <2>2, <3>1 DEF Preparation, Reconciliation, Observation
    <3>3. c.seen.pull.merged \in 1..Tip
      BY <1>1, <2>2, <3>2 DEF EpicInv, EvidenceInv, EvidenceOf, Pull
    <3>4. pulls[row.pull].merged # 0 /\ target[c.seen.pull.merged].pull = row.pull
      BY <2>2 DEF EpicInv, EvidenceInv, EvidenceOf
    <3> HIDE DEF c, row
    <3>5. c.seen.pull.merged <= Tip' BY <1>1, <3>3
    <3> QED BY <3>2, <3>3, <3>4, <3>5 DEF c, row
  <2> QED BY <1>1, <2>1, <2>2 DEF EpicInv, EvidenceInv, EvidenceOf
<1>10. LoadedInv'
  <2> SUFFICES ASSUME NEW b \in Broker, run[b].phase # "idle" PROVE LoadedOf(b)'
    BY <1>1 DEF LoadedInv, LoadedOf
  <2>1. run[b].context.base \in Nat /\ LoadedOf(b)
    BY DEF EpicInv, TypeOK, LoadedInv, Run, Context
  <2> QED BY <1>1, <2>1 DEF LoadedOf
<1>11. StaleInv'
  <2>1. \A b \in Broker : NoticedOf(b)'
    BY <1>1 DEF EpicInv, StaleInv, NoticedOf, ToBeNoticed
  <2>2. \A change \in stale' : Differs(change)' BY DEF KeepStale
  <2> QED BY <1>1, <2>1, <2>2 DEF EpicInv, StaleInv
<1>12. MergedIsExact'
  <2> SUFFICES ASSUME NEW o \in Operation, Latest(o) = "merged"
               PROVE  IsMergeOf(operations[o])'
    BY <1>1 DEF MergedIsExact, IsMergeOf
  <2>1. operations[o] # None
    BY LatestCases, EpicNoneAssumption DEF EpicInv, TypeOK, SettlementInv, Result
  <2>2. operations[o].base \in Nat BY <2>1 DEF EpicInv, TypeOK, Preparation
  <2>3. IsMergeOf(operations[o]) BY DEF EpicInv, MergedIsExact, IsMergeOf
  <2> QED BY <1>1, <2>2, <2>3 DEF IsMergeOf
<1>13. StaleIsNeverSubmitted' BY <1>1 DEF EpicInv, StaleIsNeverSubmitted
<1> QED
  BY <1>3, <1>4, <1>5, <1>6, <1>7, <1>8, <1>9, <1>10, <1>11, <1>12, <1>13 DEF EpicInv

(* A merge of an open pull request is the new last commit. *)
LEMMA MergedEffect ==
  ASSUME EpicInv, NEW pull \in PullRequest, pulls[pull].merged = 0, Merged(pull)
  PROVE  /\ target' \in Seq(Commit) /\ Tip <= Tip'
         /\ \A n \in 1..Tip : target'[n] = target[n]
         /\ pulls' \in [PullRequest -> Pull]
         /\ \A p \in PullRequest : pulls[p].merged # 0 => pulls'[p].merged # 0
         /\ ProviderInv'
<1> DEFINE commit == [pull |-> pull, head |-> pulls[pull].head,
                      exact |-> pulls[pull].current /\ pulls[pull].base = Tip]
<1>1. /\ target \in Seq(Commit) /\ Tip \in Nat /\ pulls \in [PullRequest -> Pull]
      /\ \A p \in PullRequest :
           /\ pulls[p].head \in Nat /\ pulls[p].base \in Nat /\ pulls[p].merged \in Nat
           /\ pulls[p].current \in BOOLEAN
  BY DEF EpicInv, TypeOK, Tip, Pull
<1>2. commit \in Commit /\ commit.pull = pull BY <1>1 DEF Commit
<1>3. /\ target' = Append(target, commit)
      /\ pulls' = [pulls EXCEPT ![pull].merged = Tip + 1]
  BY DEF Merged
<1> HIDE DEF commit
<1>4. /\ target' \in Seq(Commit) /\ Tip' = Tip + 1
      /\ \A n \in 1..Tip : target'[n] = target[n]
      /\ target'[Tip + 1] = commit
  BY <1>1, <1>2, <1>3 DEF Tip
<1>5. pulls' \in [PullRequest -> Pull]
  <2>1. Tip + 1 \in Nat BY <1>1
  <2>2. [pulls[pull] EXCEPT !.merged = Tip + 1] \in Pull BY <1>1, <2>1 DEF Pull
  <2> QED BY <1>1, <1>3, <2>2
<1>6. \A p \in PullRequest :
        /\ pulls'[p].head = pulls[p].head /\ pulls'[p].base = pulls[p].base
        /\ pulls'[p].merged = IF p = pull THEN Tip + 1 ELSE pulls[p].merged
  BY <1>1, <1>3 DEF Pull
<1>7. ProviderInv'
  <2> SUFFICES ASSUME NEW p \in PullRequest
               PROVE  /\ pulls'[p].base <= Tip'
                      /\ pulls'[p].merged # 0 =>
                           pulls'[p].merged <= Tip' /\ target'[pulls'[p].merged].pull = p
    BY DEF ProviderInv
  <2>1. /\ pulls[p].base <= Tip
        /\ pulls[p].merged # 0 => pulls[p].merged <= Tip /\ target[pulls[p].merged].pull = p
    BY DEF EpicInv, ProviderInv
  <2>2. CASE p = pull BY <1>1, <1>2, <1>4, <1>6, <2>1, <2>2
  <2>3. CASE p # pull
    <3>1. pulls'[p].base = pulls[p].base /\ pulls'[p].merged = pulls[p].merged BY <1>6, <2>3
    <3>2. pulls[p].base \in Nat /\ pulls[p].merged \in Nat /\ Tip \in Nat BY <1>1
    <3>3. pulls[p].merged # 0 => target'[pulls[p].merged] = target[pulls[p].merged]
      <4>1. pulls[p].merged # 0 => pulls[p].merged \in 1..Tip BY <2>1, <3>2
      <4> QED BY <1>4, <4>1
    <3> QED BY <1>4, <2>1, <3>1, <3>2, <3>3
  <2> QED BY <2>2, <2>3
<1>8. Tip <= Tip' BY <1>1, <1>4
<1>9. \A p \in PullRequest : pulls[p].merged # 0 => pulls'[p].merged # 0 BY <1>1, <1>6
<1> QED BY <1>4, <1>5, <1>7, <1>8, <1>9

LEMMA HumanMergesKeeps ==
  ASSUME EpicInv, NEW pull \in PullRequest, HumanMerges(pull)
  PROVE  EpicInv'
<1>1. /\ pulls[pull].merged = 0 /\ Merged(pull)
      /\ facts' = facts /\ calls' = calls /\ UNCHANGED <<store, run, reconciling>> /\ KeepStale
  BY DEF HumanMerges
<1>2. /\ facts \in [Fact -> Content]
      /\ calls \in [Broker -> {"none", "sent", "accepted", "rejected"}]
  BY DEF EpicInv, TypeOK
<1> QED BY <1>1, <1>2, MergedEffect, ProviderStepKeeps

LEMMA ProviderAnswersKeeps ==
  ASSUME EpicInv, NEW b \in Broker, ProviderAnswers(b)
  PROVE  EpicInv'
<1>1. /\ calls[b] = "sent" /\ facts' = facts /\ UNCHANGED <<store, run, reconciling>> /\ KeepStale
      /\ facts \in [Fact -> Content]
      /\ calls \in [Broker -> {"none", "sent", "accepted", "rejected"}]
      /\ pulls \in [PullRequest -> Pull] /\ target \in Seq(Commit) /\ Tip \in Nat
      /\ run[b].pull \in PullRequest
  BY DEF ProviderAnswers, EpicInv, TypeOK, Tip, PhaseInv, PhaseOf, Run, Phase
<1>3. CASE calls' = [calls EXCEPT ![b] = "rejected"] /\ UNCHANGED <<target, pulls>>
  <2>1. /\ calls' \in [Broker -> {"none", "sent", "accepted", "rejected"}]
        /\ \A c \in Broker : \/ calls'[c] = calls[c]
                             \/ calls[c] = "sent" /\ calls'[c] \in {"accepted", "rejected"}
    BY <1>1, <1>3
  <2>2. ProviderInv' BY <1>3 DEF EpicInv, ProviderInv, Tip
  <2>3. Tip' = Tip /\ target' = target /\ pulls' = pulls BY <1>3 DEF Tip
  <2>4. Tip <= Tip' BY <1>1, <2>3
  <2> QED BY <1>1, <2>1, <2>2, <2>3, <2>4, ProviderStepKeeps
<1>4. CASE /\ pulls[run[b].pull].merged = 0
           /\ Merged(run[b].pull)
           /\ calls' = [calls EXCEPT ![b] = "accepted"]
  <2>1. /\ calls' \in [Broker -> {"none", "sent", "accepted", "rejected"}]
        /\ \A c \in Broker : \/ calls'[c] = calls[c]
                             \/ calls[c] = "sent" /\ calls'[c] \in {"accepted", "rejected"}
    BY <1>1, <1>4
  <2> QED BY <1>1, <1>4, <2>1, MergedEffect, ProviderStepKeeps
<1> QED BY <1>3, <1>4 DEF ProviderAnswers

LEMMA PushKeeps ==
  ASSUME EpicInv, NEW pull \in PullRequest, Push(pull)
  PROVE  EpicInv'
<1>1. /\ pulls[pull].merged = 0
      /\ target' = target /\ facts' = facts /\ calls' = calls
      /\ UNCHANGED <<store, run, reconciling>> /\ KeepStale
      /\ facts \in [Fact -> Content]
      /\ calls \in [Broker -> {"none", "sent", "accepted", "rejected"}]
      /\ pulls \in [PullRequest -> Pull] /\ target \in Seq(Commit)
      /\ Tip \in Nat /\ Tip' = Tip
  BY DEF Push, EpicInv, TypeOK, Tip
<1>2. \A p \in PullRequest :
        /\ pulls[p].head \in Nat /\ pulls[p].base \in Nat /\ pulls[p].merged \in Nat
        /\ pulls[p].base <= Tip
        /\ pulls[p].merged # 0 => pulls[p].merged <= Tip /\ target[pulls[p].merged].pull = p
  BY <1>1 DEF Pull, EpicInv, ProviderInv
<1>3. PICK head \in 0..MaxHead, base \in {pulls[pull].base, Tip}, current \in BOOLEAN :
        pulls' = [pulls EXCEPT ![pull] = [head |-> head, base |-> base,
                                          current |-> current, merged |-> 0]]
  BY DEF Push
<1>4. base \in Nat /\ base <= Tip /\ head \in Nat BY <1>1, <1>2, EpicMergeAssumption
<1>5. /\ pulls' \in [PullRequest -> Pull]
      /\ \A p \in PullRequest : p # pull => pulls'[p] = pulls[p]
      /\ pulls'[pull].base = base /\ pulls'[pull].merged = 0
  BY <1>1, <1>2, <1>3, <1>4 DEF Pull
<1>6. \A p \in PullRequest :
        pulls[p].merged # 0 => pulls'[p].merged # 0
  BY <1>1, <1>2, <1>5
<1>7. ProviderInv' BY <1>1, <1>2, <1>4, <1>5 DEF ProviderInv
<1>8. Tip <= Tip' BY <1>1
<1> QED BY <1>1, <1>5, <1>6, <1>7, <1>8, ProviderStepKeeps

LEMMA ChangeFactKeeps ==
  ASSUME EpicInv, NEW fact \in Fact, ChangeFact(fact)
  PROVE  EpicInv'
<1>1. /\ target' = target /\ pulls' = pulls /\ calls' = calls
      /\ \E content \in Content : facts' = [facts EXCEPT ![fact] = content]
      /\ UNCHANGED <<store, run, reconciling>> /\ KeepStale
      /\ facts \in [Fact -> Content]
      /\ calls \in [Broker -> {"none", "sent", "accepted", "rejected"}]
      /\ pulls \in [PullRequest -> Pull] /\ target \in Seq(Commit)
      /\ Tip \in Nat /\ Tip' = Tip
  <2>1. target' = target /\ UNCHANGED <<store, run, reconciling>> /\ KeepStale
    BY DEF ChangeFact
  <2>2. Tip' = Tip BY <2>1 DEF Tip
  <2>3. target \in Seq(Commit) BY DEF EpicInv, TypeOK
  <2>4. Tip \in Nat BY <2>3 DEF Tip
  <2> QED BY <2>1, <2>2, <2>3, <2>4 DEF ChangeFact, EpicInv, TypeOK
<1>2. facts' \in [Fact -> Content] BY <1>1
<1>3. ProviderInv' BY <1>1 DEF EpicInv, ProviderInv
<1>4. Tip <= Tip' BY <1>1
<1> QED BY <1>1, <1>2, <1>3, <1>4, ProviderStepKeeps
-----------------------------------------------------------------------------
(* Steps of a maintainer that leave the store as it is *)

LEMMA MaintainerStepKeeps ==
  ASSUME EpicInv,
         reconciling' \in [Maintainer -> Reconciliation \cup {None}],
         \A m \in Maintainer : EvidenceOf(m)',
         UNCHANGED <<provider, store, run, stale>>
  PROVE  EpicInv'
<1>1. /\ target' = target /\ pulls' = pulls /\ facts' = facts /\ calls' = calls
      /\ operations' = operations /\ active' = active /\ submissions' = submissions
      /\ settlements' = settlements /\ run' = run /\ stale' = stale
      /\ Tip' = Tip
      /\ \A o \in Operation : Latest(o)' = Latest(o)
  BY DEF provider, store, Tip, Latest
<1>2. \A b \in Broker :
        /\ Owns(b)' = Owns(b) /\ Row(run[b])' = Row(run[b]) /\ PhaseOf(b)' = PhaseOf(b)
        /\ MarkOf(b)' = MarkOf(b) /\ LoadedOf(b)' = LoadedOf(b)
        /\ NoticedOf(b)' = NoticedOf(b)
        /\ IsMergeOf(Row(run[b]))' = IsMergeOf(Row(run[b]))
  BY <1>1 DEF Owns, Row, PhaseOf, MarkOf, LoadedOf, NoticedOf, ToBeNoticed, IsMergeOf
<1>3. TypeOK' BY <1>1 DEF EpicInv, TypeOK
<1>4. OwnerInv' /\ PhaseInv' /\ MarkInv' /\ LoadedInv' /\ StaleInv'
  BY <1>1, <1>2, DiffersStays DEF EpicInv, OwnerInv, PhaseInv, MarkInv, LoadedInv, StaleInv
<1>5. ClaimInv' /\ SettlementInv' /\ ProviderInv'
  BY <1>1 DEF EpicInv, ClaimInv, SettlementInv, ProviderInv
<1>6. EvidenceInv' BY <1>1, <1>2 DEF EpicInv, EvidenceInv
<1>7. MergedIsExact' /\ StaleIsNeverSubmitted'
  BY <1>1 DEF EpicInv, MergedIsExact, StaleIsNeverSubmitted
<1> QED BY <1>3, <1>4, <1>5, <1>6, <1>7 DEF EpicInv

LEMMA ReconcileKeeps ==
  ASSUME EpicInv, NEW m \in Maintainer, Reconcile(m)
  PROVE  EpicInv'
<1>1. PICK o \in Operation :
        /\ operations[o] # None /\ StateOf(o) \in Open
        /\ reconciling' = [reconciling EXCEPT ![m] =
             [operation |-> o, from |-> StateOf(o),
              submitted |-> o \in submissions, seen |-> NoObservation]]
  BY DEF Reconcile
<1> DEFINE c == [operation |-> o, from |-> StateOf(o),
                 submitted |-> o \in submissions, seen |-> NoObservation]
<1>2. c \in Reconciliation /\ c.seen.pull = None /\ c.operation = o
  BY <1>1 DEF Reconciliation, NoObservation, Observation, Open
<1> HIDE DEF c
<1>3. /\ reconciling \in [Maintainer -> Reconciliation \cup {None}]
      /\ UNCHANGED <<provider, store, run, stale>>
      /\ target' = target /\ pulls' = pulls /\ operations' = operations
  BY DEF Reconcile, EpicInv, TypeOK, provider, store
<1>4. reconciling' = [reconciling EXCEPT ![m] = c] BY <1>1 DEF c
<1>5. \A n \in Maintainer : EvidenceOf(n)'
  BY <1>1, <1>2, <1>3, <1>4 DEF EpicInv, EvidenceInv, EvidenceOf, Tip
<1>6. reconciling' \in [Maintainer -> Reconciliation \cup {None}] BY <1>2, <1>3, <1>4
<1> QED BY <1>3, <1>5, <1>6, MaintainerStepKeeps

(* An observation of a merged pull request is of a commit on the target. *)
LEMMA ObserveKeeps ==
  ASSUME EpicInv, NEW m \in Maintainer, ObservePull(m) \/ ObserveTip(m)
  PROVE  EpicInv'
<1> DEFINE c == reconciling[m]
           row == operations[c.operation]
<1>1. /\ c \in Reconciliation /\ row # None /\ row \in Preparation
      /\ c.operation \in Operation /\ c.seen \in Observation
      /\ row.pull \in PullRequest /\ pulls[row.pull] \in Pull /\ Tip \in Nat
      /\ reconciling \in [Maintainer -> Reconciliation \cup {None}]
      /\ EvidenceOf(m)
  BY DEF ObservePull, ObserveTip, EpicInv, TypeOK, EvidenceInv, EvidenceOf,
         Reconciliation, Preparation, Tip
<1>2. /\ target' = target /\ pulls' = pulls /\ operations' = operations
      /\ UNCHANGED <<provider, store, run, stale>>
  BY DEF ObservePull, ObserveTip, provider, store
<1>3. CASE ObservePull(m)
  <2> DEFINE d == [c EXCEPT !.seen.pull = pulls[row.pull]]
  <2>1. /\ d \in Reconciliation /\ d.operation = c.operation
        /\ d.seen.pull = pulls[row.pull]
    BY <1>1 DEF Reconciliation, Observation
  <2>2. reconciling' = [reconciling EXCEPT ![m] = d] BY <1>1, <1>3 DEF ObservePull
  <2>3. pulls[row.pull].merged # 0 =>
          pulls[row.pull].merged <= Tip /\ target[pulls[row.pull].merged].pull = row.pull
    BY <1>1 DEF EpicInv, ProviderInv
  <2> HIDE DEF d
  <2>4. \A n \in Maintainer : n # m => EvidenceOf(n)'
    BY <1>2, <2>2 DEF EpicInv, EvidenceInv, EvidenceOf, Tip
  <2>5. EvidenceOf(m)'
    BY <1>1, <1>2, <2>1, <2>2, <2>3 DEF EvidenceOf, Tip
  <2> QED BY <1>1, <1>2, <2>1, <2>2, <2>4, <2>5, MaintainerStepKeeps
<1>4. CASE ObserveTip(m)
  <2> DEFINE d == [c EXCEPT !.seen.tip = Tip]
  <2>1. d \in Reconciliation /\ d.operation = c.operation /\ d.seen.pull = c.seen.pull
    BY <1>1 DEF Reconciliation, Observation
  <2>2. reconciling' = [reconciling EXCEPT ![m] = d] BY <1>1, <1>4 DEF ObserveTip
  <2> HIDE DEF d
  <2>3. \A n \in Maintainer : n # m => EvidenceOf(n)'
    BY <1>2, <2>2 DEF EpicInv, EvidenceInv, EvidenceOf, Tip
  <2>4. EvidenceOf(m)'
    BY <1>1, <1>2, <1>4, <2>1, <2>2 DEF EvidenceOf, Tip, ObserveTip
  <2> QED BY <1>1, <1>2, <2>1, <2>2, <2>3, <2>4, MaintainerStepKeeps
<1> QED BY <1>3, <1>4

LEMMA AbandonReconciliationKeeps ==
  ASSUME EpicInv, NEW m \in Maintainer, reconciling' = [reconciling EXCEPT ![m] = None],
         UNCHANGED <<provider, store, run, stale>>
  PROVE  EpicInv'
<1>1. /\ reconciling \in [Maintainer -> Reconciliation \cup {None}]
      /\ target' = target /\ pulls' = pulls /\ operations' = operations
  BY DEF EpicInv, TypeOK, provider, store
<1>2. \A n \in Maintainer : EvidenceOf(n)'
  BY <1>1 DEF EpicInv, EvidenceInv, EvidenceOf, Tip
<1> QED BY <1>1, <1>2, MaintainerStepKeeps
-----------------------------------------------------------------------------
(* Steps of a run that begin an operation, or change the store *)

LEMMA StartKeeps ==
  ASSUME EpicInv, NEW b \in Broker, Start(b)
  PROVE  EpicInv'
<1>1. PICK o \in Operation, pull \in PullRequest :
        run' = [run EXCEPT ![b] = [run[b] EXCEPT !.phase = "load", !.step = 1,
                                                 !.operation = o, !.pull = pull]]
  BY DEF Start
<1>2. /\ run \in [Broker -> Run] /\ run[b] \in Run /\ run[b].phase = "idle"
      /\ run[b].context = NoContext /\ calls[b] = "none"
      /\ pulls[pull] \in Pull /\ Tip \in Nat
  BY DEF Start, EpicInv, TypeOK, PhaseInv, PhaseOf, Tip
<1>3. /\ run' \in [Broker -> Run]
      /\ run'[b].phase = "load" /\ run'[b].operation = o /\ run'[b].pull = pull
      /\ run'[b].context = NoContext
      /\ \A c \in Broker : c # b => run'[c] = run[c]
  <2>1. "load" \in Phase /\ 1 \in Nat BY DEF Phase
  <2>2. [run[b] EXCEPT !.phase = "load", !.step = 1, !.operation = o, !.pull = pull] \in Run
    BY <1>2, <2>1 DEF Run
  <2> QED BY <1>1, <1>2, <2>2 DEF Run
<1>4. /\ target' = target /\ pulls' = pulls /\ facts' = facts /\ calls' = calls
      /\ operations' = operations /\ active' = active /\ submissions' = submissions
      /\ settlements' = settlements /\ reconciling' = reconciling /\ stale' = stale
      /\ Tip' = Tip
      /\ \A p \in Operation : Latest(p)' = Latest(p)
  BY DEF Start, provider, store, Tip, Latest
<1>5. \A c \in Broker : c # b =>
        /\ Owns(c)' = Owns(c) /\ Row(run[c])' = Row(run[c])
        /\ PhaseOf(c) => PhaseOf(c)'
        /\ MarkOf(c) => MarkOf(c)'
        /\ LoadedOf(c) => LoadedOf(c)'
        /\ NoticedOf(c) => NoticedOf(c)'
        /\ IsMergeOf(Row(run[c]))' = IsMergeOf(Row(run[c]))
  <2> SUFFICES ASSUME NEW c \in Broker, run'[c] = run[c]
               PROVE  /\ Owns(c)' = Owns(c) /\ Row(run[c])' = Row(run[c])
                      /\ PhaseOf(c) => PhaseOf(c)'
                      /\ MarkOf(c) => MarkOf(c)'
                      /\ LoadedOf(c) => LoadedOf(c)'
                      /\ NoticedOf(c) => NoticedOf(c)'
                      /\ IsMergeOf(Row(run[c]))' = IsMergeOf(Row(run[c]))
    BY <1>3
  <2>1. /\ Owns(c)' = Owns(c) /\ Row(run[c])' = Row(run[c])
        /\ IsMergeOf(Row(run[c]))' = IsMergeOf(Row(run[c]))
    BY <1>4 DEF Owns, Row, IsMergeOf
  <2>2. (PhaseOf(c) => PhaseOf(c)') /\ (MarkOf(c) => MarkOf(c)') /\ (LoadedOf(c) => LoadedOf(c)')
    BY <1>4 DEF PhaseOf, MarkOf, LoadedOf
  <2>3. NoticedOf(c) => NoticedOf(c)'
    BY <1>4 DEF NoticedOf, ToBeNoticed
  <2> QED BY <2>1, <2>2, <2>3
<1>6. ~Owns(b)' /\ PhaseOf(b)' /\ MarkOf(b)' /\ NoticedOf(b)'
  BY <1>2, <1>3, <1>4 DEF Owns, UnderClaim, PhaseOf, MarkOf, NoticedOf
<1>7. LoadedOf(b)'
  <2>1. NoContext.base = 0 BY DEF NoContext
  <2> QED BY <1>2, <1>3, <1>4, <2>1 DEF LoadedOf
<1>8. TypeOK' BY <1>3, <1>4 DEF EpicInv, TypeOK
<1>9. OwnerInv' BY <1>3, <1>4, <1>5, <1>6 DEF EpicInv, OwnerInv
<1>10. PhaseInv' /\ MarkInv' /\ LoadedInv' /\ StaleInv'
  BY <1>4, <1>5, <1>6, <1>7, DiffersStays DEF EpicInv, PhaseInv, MarkInv, LoadedInv, StaleInv
<1>11. ClaimInv' /\ ProviderInv' BY <1>4 DEF EpicInv, ClaimInv, ProviderInv
<1>12. SettlementInv'
  <2>1. \A c \in Broker : calls[c] = "rejected" => c # b /\ run'[c] = run[c]
    BY <1>2, <1>3
  <2> QED BY <1>4, <2>1 DEF EpicInv, SettlementInv
<1>13. EvidenceInv'
  <2>1. run'[b].phase # "settle" BY <1>3
  <2> QED BY <1>3, <1>4, <1>5, <2>1 DEF EpicInv, EvidenceInv, EvidenceOf
<1>14. MergedIsExact' /\ StaleIsNeverSubmitted'
  BY <1>4 DEF EpicInv, MergedIsExact, StaleIsNeverSubmitted
<1> QED
  BY <1>8, <1>9, <1>10, <1>11, <1>12, <1>13, <1>14 DEF EpicInv

LEMMA PrepareKeeps ==
  ASSUME EpicInv, NEW b \in Broker, Prepare(b)
  PROVE  EpicInv'
<1> DEFINE r == run[b]
           o == r.operation
<1>1. /\ run \in [Broker -> Run] /\ r \in Run /\ r.phase = "prepare" /\ r.step = 1
      /\ o \in Operation /\ r.pull \in PullRequest /\ r.context \in Context
      /\ calls \in [Broker -> {"none", "sent", "accepted", "rejected"}]
      /\ calls[b] = "none" /\ LoadedOf(b)
  BY DEF Prepare, EpicInv, TypeOK, PhaseInv, PhaseOf, LoadedInv, Run
<1>2. /\ target' = target /\ pulls' = pulls /\ facts' = facts /\ calls' = calls
      /\ reconciling' = reconciling /\ Tip' = Tip
  BY DEF Prepare, provider, Tip
<1>3. CASE operations[o] # None \/ Contended(r)
  <2>1. Goto(b, "denied") /\ UNCHANGED <<provider, store, reconciling, stale>>
    BY <1>3 DEF Prepare
  <2> QED BY <1>1, <2>1, LeavingKeeps DEF Phase, UnderClaim
<1>4. CASE ~(operations[o] # None \/ Contended(r))
  <2>1. /\ operations[o] = None /\ ~Contended(r)
        /\ operations' = [operations EXCEPT ![o] = Row(r)]
        /\ active' = active \cup {o}
        /\ stale' = stale \cup Changes(r)
        /\ Goto(b, "recheck")
        /\ submissions' = submissions /\ settlements' = settlements
    BY <1>4 DEF Prepare, Row
  <2>2. Row(r) \in Preparation /\ Row(r) # None /\ Row(r).base = r.context.base
    BY <1>1, EpicNoneAssumption DEF Row, Preparation, Context
  <2>3. /\ operations \in [Operation -> Preparation \cup {None}]
        /\ \A p \in Operation : operations'[p] = IF p = o THEN Row(r) ELSE operations[p]
        /\ active \subseteq {p \in Operation : operations[p] # None}
        /\ submissions \subseteq {p \in Operation : operations[p] # None}
        /\ o \notin active /\ o \notin submissions
        /\ \A p \in Operation : Latest(p)' = Latest(p)
        /\ settlements[o] = <<>> /\ Latest(o) = None
    BY <1>1, <2>1 DEF EpicInv, TypeOK, SettlementInv, Latest
  <2>4. /\ run' \in [Broker -> Run] /\ run'[b].phase = "recheck" /\ run'[b].step = 1
        /\ run'[b].operation = o /\ run'[b].pull = r.pull /\ run'[b].context = r.context
        /\ \A c \in Broker : c # b => run'[c] = run[c]
    BY <1>1, <2>1, GotoEffect DEF Phase
  <2> HIDE DEF o
  <2>5. /\ \A c \in Broker : Owns(c) => run[c].operation # o
        /\ \A c \in Broker : c # b => Owns(c)' = Owns(c) /\ Row(run[c])' = Row(run[c])
        /\ Row(run[b])' = Row(r)
    <3>1. ASSUME NEW c \in Broker, Owns(c) PROVE Row(run[c]) # None
      <4>1. run[c] \in Run /\ run[c].pull \in PullRequest
        BY <3>1 DEF EpicInv, TypeOK, PhaseInv, PhaseOf, Owns, UnderClaim
      <4>2. Row(run[c]) \in Preparation BY <4>1 DEF Row, Run, Context, Preparation
      <4> QED BY <4>2, EpicNoneAssumption
    <3>2. \A c \in Broker : Owns(c) => run[c].operation # o
      <4>1. \A c \in Broker : Owns(c) => operations[run[c].operation] = Row(run[c])
        BY DEF EpicInv, OwnerInv
      <4> QED BY <2>1, <3>1, <4>1
    <3>3. \A c \in Broker : c # b => Owns(c)' = Owns(c) /\ Row(run[c])' = Row(run[c])
      BY <1>2, <2>4 DEF Owns, Row
    <3>4. Row(run[b])' = Row(r) BY <2>4 DEF Row
    <3> QED BY <3>2, <3>3, <3>4
  <2>6. TypeOK'
    <3>1. operations' \in [Operation -> Preparation \cup {None}] BY <2>1, <2>2, <2>3
    <3>2. /\ active' \subseteq {p \in Operation : operations'[p] # None}
          /\ submissions' \subseteq {p \in Operation : operations'[p] # None}
      BY <1>1, <2>1, <2>2, <2>3 DEF o
    <3>3. stale' \subseteq Change BY <1>1, <2>1 DEF o, EpicInv, TypeOK, Changes, Change
    <3> QED BY <1>2, <2>1, <2>4, <3>1, <3>2, <3>3 DEF EpicInv, TypeOK
  <2>7. OwnerInv'
    <3>1. ASSUME NEW c \in Broker, c # b, Owns(c)'
          PROVE  /\ operations'[run'[c].operation] = Row(run[c])'
                 /\ run'[c].operation # o
      <4>1. /\ Owns(c) /\ run'[c] = run[c] /\ run[c].operation # o
            /\ operations[run[c].operation] = Row(run[c])
        BY <2>4, <2>5, <3>1 DEF EpicInv, OwnerInv
      <4>2. run[c].operation \in Operation
        BY <4>1 DEF EpicInv, PhaseInv, PhaseOf, Owns, UnderClaim
      <4> QED BY <2>3, <2>5, <3>1, <4>1, <4>2
    <3>2. operations'[run'[b].operation] = Row(run[b])'
      BY <1>1, <2>3, <2>4, <2>5 DEF o
    <3>3. \A c, d \in Broker :
            Owns(c)' /\ Owns(d)' /\ run'[c].operation = run'[d].operation => c = d
      BY <2>4, <2>5, <3>1 DEF EpicInv, OwnerInv
    <3> QED BY <3>1, <3>2, <3>3 DEF OwnerInv
  <2>8. PhaseInv'
    BY <1>1, <1>2, <2>4 DEF o, EpicInv, PhaseInv, PhaseOf
  <2>9. ClaimInv'
    <3>1. \A p \in Operation : p \in active' <=> p \in active \/ p = o BY <1>1, <2>1 DEF o
    <3>2. \A p \in active : operations[p].base # Row(r).base
      BY <2>1, <2>2 DEF Contended
    <3>3. \A p \in active : p # o /\ operations'[p] = operations[p] BY <2>3
    <3>4. \A p, q \in active' : operations'[p].base = operations'[q].base => p = q
      BY <1>1, <2>1, <2>3, <3>2, <3>3 DEF EpicInv, ClaimInv, o
    <3>5. \A p \in Operation : operations'[p] # None =>
            (p \in active' <=> Latest(p)' \in {None, "indeterminate"})
      BY <2>3, <3>1 DEF EpicInv, ClaimInv
    <3> QED BY <3>4, <3>5 DEF ClaimInv
  <2>10. MarkInv'
    <3>1. \A c \in Broker : c # b => (MarkOf(c) => MarkOf(c)')
      BY <1>2, <2>1, <2>4 DEF MarkOf
    <3>2. MarkOf(b)' BY <1>1, <1>2, <2>1, <2>3, <2>4 DEF MarkOf
    <3> QED BY <3>1, <3>2 DEF EpicInv, MarkInv
  <2>11. SettlementInv'
    <3>1. \A c \in Broker : run'[c].operation = run[c].operation BY <2>4 DEF o
    <3> QED BY <1>2, <2>1, <2>3, <3>1 DEF EpicInv, SettlementInv
  <2>12. ProviderInv' BY <1>2 DEF EpicInv, ProviderInv
  <2>13. EvidenceInv'
    <3>1. run'[b].phase # "settle" BY <2>4
    <3>2. \A c \in Broker : c # b => IsMergeOf(Row(run[c]))' = IsMergeOf(Row(run[c]))
      BY <1>2, <2>4 DEF IsMergeOf, Row
    <3>3. \A m \in Maintainer : reconciling[m] # None =>
            reconciling[m].operation \in Operation
      BY DEF EpicInv, TypeOK, Reconciliation
    <3>4. \A m \in Maintainer : EvidenceOf(m)'
      BY <1>2, <2>1, <2>3, <3>3 DEF EpicInv, EvidenceInv, EvidenceOf
    <3> QED BY <2>4, <3>1, <3>2, <3>4 DEF EpicInv, EvidenceInv
  <2>14. LoadedInv'
    <3>1. \A c \in Broker : c # b => (LoadedOf(c) => LoadedOf(c)')
      BY <1>2, <2>4 DEF LoadedOf
    <3>2. LoadedOf(b)' BY <1>1, <1>2, <2>4 DEF LoadedOf
    <3> QED BY <3>1, <3>2 DEF EpicInv, LoadedInv
  <2>15. StaleInv'
    <3>1. /\ \A change \in stale : /\ change.operation # o
                                   /\ change.operation \in Operation
                                   /\ operations[change.operation] # None
                                   /\ Differs(change)
          /\ \A change \in Changes(r) : /\ change.operation = o
                                        /\ change.pull = r.pull
                                        /\ change.context = r.context
                                        /\ change.read \in Range(Rechecks)
                                        /\ Differs(change)
      BY <2>1 DEF EpicInv, StaleInv, TypeOK, Change, Changes, o
    <3>2. ASSUME NEW c \in Broker, c # b PROVE NoticedOf(c)'
      <4>1. /\ NoticedOf(c) /\ run'[c] = run[c]
            /\ run[c].phase \in {"recheck", "mark"} => run[c].operation # o
        BY <2>4, <2>5, <3>2 DEF EpicInv, StaleInv, Owns, UnderClaim
      <4> QED BY <2>1, <3>1, <4>1 DEF NoticedOf, ToBeNoticed
    <3>3. ASSUME NEW change \in Changes(r) PROVE ToBeNoticed(change, run'[b])
      <4>1. PICK n \in 1..5 : Rechecks[n] = change.read
        BY <3>1, <3>3 DEF Range, Rechecks
      <4> QED BY <2>4, <3>1, <3>3, <4>1 DEF ToBeNoticed
    <3>4. NoticedOf(b)'
      <4> SUFFICES ASSUME NEW change \in stale', change.operation = o
                   PROVE  ToBeNoticed(change, run'[b])
        BY <2>4 DEF NoticedOf
      <4> QED BY <2>1, <3>1, <3>3
    <3>5. \A change \in stale' : Differs(change)
      BY <2>1, <3>1
    <3>6. \A change \in stale' : Differs(change)'
      BY <1>2, <3>5 DEF Differs, Tip
    <3>7. \A change \in stale' : operations'[change.operation] # None
      BY <1>1, <2>1, <2>2, <2>3, <3>1 DEF o
    <3> QED BY <3>2, <3>4, <3>6, <3>7 DEF StaleInv
  <2>16. MergedIsExact'
    <3>1. \A p \in Operation : Latest(p)' = "merged" => p # o
      BY <2>3, EpicNoneAssumption DEF Result
    <3> QED BY <1>2, <2>3, <3>1 DEF EpicInv, MergedIsExact
  <2>17. StaleIsNeverSubmitted'
    <3>1. \A change \in Changes(r) : change.operation = o BY DEF Changes, o
    <3> QED BY <2>1, <2>3, <3>1 DEF EpicInv, StaleIsNeverSubmitted
  <2> QED
    BY <2>6, <2>7, <2>8, <2>9, <2>10, <2>11, <2>12, <2>13, <2>14, <2>15, <2>16, <2>17
    DEF EpicInv
<1> QED BY <1>3, <1>4

LEMMA MarkKeeps ==
  ASSUME EpicInv, NEW b \in Broker, Mark(b)
  PROVE  EpicInv'
<1> DEFINE r == run[b]
           o == r.operation
<1>1. /\ run \in [Broker -> Run] /\ r.phase = "mark" /\ Owns(b) /\ o \in Operation
      /\ calls[b] = "none" /\ PhaseOf(b) /\ NoticedOf(b)
      /\ calls \in [Broker -> {"none", "sent", "accepted", "rejected"}]
  BY DEF Mark, EpicInv, TypeOK, PhaseInv, PhaseOf, StaleInv, Owns, UnderClaim
<1>2. /\ target' = target /\ pulls' = pulls /\ facts' = facts /\ calls' = calls
      /\ operations' = operations /\ active' = active /\ settlements' = settlements
      /\ reconciling' = reconciling /\ stale' = stale /\ Tip' = Tip
      /\ \A p \in Operation : Latest(p)' = Latest(p)
  BY DEF Mark, provider, Tip, Latest
<1>3. CASE ~Markable(r)
  <2>1. Goto(b, "failed") /\ UNCHANGED <<provider, store, reconciling, stale>>
    BY <1>3 DEF Mark, store
  <2> QED BY <1>1, <2>1, LeavingKeeps DEF Phase, UnderClaim
<1>4. CASE Markable(r)
  <2>1. /\ submissions' = submissions \cup {o} /\ Goto(b, "marked")
        /\ operations[o] # None /\ o \in active /\ settlements[o] = <<>>
    BY <1>4 DEF Mark, Markable, OwnsClaim
  <2>2. /\ run' \in [Broker -> Run] /\ run'[b].phase = "marked"
        /\ run'[b].operation = o /\ run'[b].pull = r.pull /\ run'[b].context = r.context
        /\ \A c \in Broker : c # b => run'[c] = run[c]
    BY <1>1, <2>1, GotoEffect DEF Phase
  <2>3. \A c \in Broker : c # b /\ Owns(c) => run[c].operation # o
    BY <1>1 DEF EpicInv, OwnerInv
  <2>4. \A c \in Broker : Owns(c)' = Owns(c) /\ Row(run[c])' = Row(run[c])
    BY <1>1, <1>2, <2>2 DEF Owns, UnderClaim, Row
  <2>5. TypeOK' BY <1>1, <1>2, <2>1, <2>2 DEF EpicInv, TypeOK
  <2>6. OwnerInv'
    <3>1. \A c \in Broker : run'[c].operation = run[c].operation BY <2>2
    <3> QED BY <1>2, <2>4, <3>1 DEF EpicInv, OwnerInv
  <2>7. PhaseInv' BY <1>1, <1>2, <2>2 DEF EpicInv, PhaseInv, PhaseOf
  <2>8. ClaimInv' /\ ProviderInv' BY <1>2 DEF EpicInv, ClaimInv, ProviderInv
  <2>9. MarkInv'
    <3>1. ASSUME NEW c \in Broker, c # b PROVE MarkOf(c)'
      <4>1. MarkOf(c) /\ run'[c] = run[c] BY <2>2, <3>1 DEF EpicInv, MarkInv
      <4>2. run[c].phase \in {"recheck", "cancel", "mark"} => run[c].operation # o
        BY <2>3, <3>1 DEF Owns, UnderClaim
      <4> QED BY <1>2, <2>1, <4>1, <4>2 DEF MarkOf
    <3>2. MarkOf(b)' BY <1>1, <1>2, <2>1, <2>2 DEF MarkOf
    <3> QED BY <3>1, <3>2 DEF MarkInv
  <2>10. SettlementInv'
    <3>1. \A c \in Broker : run'[c].operation = run[c].operation BY <2>2
    <3>2. Latest(o) # "cancelled"
      BY <2>1, EpicNoneAssumption DEF Latest, Result
    <3> QED BY <1>2, <2>1, <3>1, <3>2 DEF EpicInv, SettlementInv
  <2>11. EvidenceInv'
    <3>1. run'[b].phase # "settle" BY <2>2
    <3>2. \A c \in Broker : c # b => IsMergeOf(Row(run[c]))' = IsMergeOf(Row(run[c]))
      BY <1>2, <2>2 DEF IsMergeOf, Row
    <3> QED BY <1>2, <2>2, <3>1, <3>2 DEF EpicInv, EvidenceInv, EvidenceOf
  <2>12. LoadedInv'
    <3>1. \A c \in Broker : c # b => (LoadedOf(c) => LoadedOf(c)')
      BY <1>2, <2>2 DEF LoadedOf
    <3>2. LoadedOf(b)' BY <1>1, <1>2, <2>2 DEF LoadedOf, EpicInv, LoadedInv
    <3> QED BY <3>1, <3>2 DEF EpicInv, LoadedInv
  <2>13. StaleInv'
    <3>1. \A c \in Broker : c # b => (NoticedOf(c) => NoticedOf(c)')
      BY <1>2, <2>2 DEF NoticedOf, ToBeNoticed
    <3>2. NoticedOf(b)' BY <2>2 DEF NoticedOf
    <3> QED BY <1>2, <3>1, <3>2, DiffersStays DEF EpicInv, StaleInv
  <2>14. MergedIsExact' BY <1>2 DEF EpicInv, MergedIsExact
  <2>15. StaleIsNeverSubmitted'
    <3>1. \A change \in stale : change.operation # o BY <1>1 DEF NoticedOf
    <3> QED BY <1>2, <2>1, <3>1 DEF EpicInv, StaleIsNeverSubmitted
  <2> QED
    BY <2>5, <2>6, <2>7, <2>8, <2>9, <2>10, <2>11, <2>12, <2>13, <2>14, <2>15 DEF EpicInv
<1> QED BY <1>3, <1>4

(* A settlement that is true when it is made: an operation is cancelled    *)
(* when it was not submitted, rejected when the provider said so, merged   *)
(* when its commit is there; and none of them leaves a request open.       *)
LEMMA SettlementKeeps ==
  ASSUME EpicInv, NEW o \in Operation, NEW result \in Result,
         operations[o] # None,
         \/ settlements[o] = <<>>
         \/ settlements[o] = <<"indeterminate">> /\ result \in {"merged", "cancelled"},
         Settle(o, result),
         UNCHANGED <<provider, stale>>,
         result = "cancelled" => o \notin submissions,
         result = "rejected" =>
           \E b \in Broker : run[b].operation = o /\ calls[b] = "rejected",
         result = "merged" => IsMergeOf(operations[o]),
         result # "indeterminate" =>
           \A b \in Broker :
             run[b].operation = o /\ (calls[b] = "sent" \/ run[b].phase \in {"marked", "call"}) =>
               pulls[run[b].pull].merged # 0,
         run' \in [Broker -> Run],
         \A b \in Broker :
           \/ run'[b] = run[b]
           \/ /\ run[b].phase # "idle"
              /\ run'[b].operation = run[b].operation /\ run'[b].pull = run[b].pull
              /\ run'[b].context = run[b].context
              /\ run'[b].phase \in {"denied", "merged", "indeterminate"}
              /\ run'[b].phase = "denied" => calls[b] \in {"none", "rejected"}
              /\ run'[b].phase = "merged" => calls[b] = "accepted",
         \A m \in Maintainer : reconciling'[m] \in {None, reconciling[m]},
         reconciling' \in [Maintainer -> Reconciliation \cup {None}]
  PROVE  EpicInv'
<1>1. /\ target' = target /\ pulls' = pulls /\ facts' = facts /\ calls' = calls
      /\ operations' = operations /\ submissions' = submissions
      /\ active' = IF result = "indeterminate" THEN active ELSE active \ {o}
      /\ stale' = stale /\ Tip' = Tip
  BY DEF Settle, provider, Tip
<1>2. settlements \in [Operation -> History] BY DEF EpicInv, TypeOK
<1>3. /\ settlements' \in [Operation -> History] /\ Latest(o)' = result
      /\ settlements'[o] # <<>>
      /\ \A p \in Operation : p # o =>
           settlements'[p] = settlements[p] /\ Latest(p)' = Latest(p)
  BY <1>2, SettleEffect
<1>4. \A b \in Broker :
        /\ run'[b].operation = run[b].operation /\ run'[b].pull = run[b].pull
        /\ run'[b].context = run[b].context
        /\ Row(run[b])' = Row(run[b])
        /\ Owns(b)' => Owns(b)
        /\ run'[b].phase \in UnderClaim => run'[b] = run[b]
        /\ run'[b].phase = "idle" => run'[b] = run[b]
  BY <1>1 DEF Row, Owns, UnderClaim
<1>5. TypeOK' BY <1>1, <1>3 DEF EpicInv, TypeOK
<1>6. OwnerInv' BY <1>1, <1>4 DEF EpicInv, OwnerInv
<1>7. PhaseInv'
  <2> SUFFICES ASSUME NEW b \in Broker PROVE PhaseOf(b)' BY DEF PhaseInv
  <2>1. PhaseOf(b) BY DEF EpicInv, PhaseInv
  <2>2. CASE run'[b] = run[b] BY <1>1, <2>1, <2>2 DEF PhaseOf
  <2>3. CASE run'[b] # run[b] BY <1>1, <2>1, <2>3 DEF PhaseOf
  <2> QED BY <2>2, <2>3
<1>8. ClaimInv'
  <2>1. o \in active
    BY <1>2, LatestCases DEF EpicInv, ClaimInv
  <2>2. o \in active' <=> Latest(o)' \in {None, "indeterminate"}
    BY <1>1, <1>3, <2>1, EpicNoneAssumption
  <2>3. \A p \in Operation : p # o => (p \in active' <=> p \in active) BY <1>1
  <2>4. active' \subseteq active BY <1>1
  <2>5. \A p \in Operation : operations'[p] # None =>
          (p \in active' <=> Latest(p)' \in {None, "indeterminate"})
    BY <1>1, <1>3, <2>2, <2>3 DEF EpicInv, ClaimInv
  <2> QED BY <1>1, <2>4, <2>5 DEF EpicInv, ClaimInv
<1>9. MarkInv'
  <2> SUFFICES ASSUME NEW b \in Broker PROVE MarkOf(b)' BY DEF MarkInv
  <2>1. MarkOf(b) BY DEF EpicInv, MarkInv
  <2>2. /\ run'[b].phase \in {"recheck", "cancel", "mark"} => run[b].phase = run'[b].phase
        /\ run'[b].phase \in {"marked", "call"} => run[b].phase = run'[b].phase
    BY <1>4 DEF UnderClaim
  <2>3. run[b].operation \in active =>
          \/ run[b].operation \in active'
          \/ run[b].operation = o /\ result # "indeterminate"
    BY <1>1
  <2>4. (calls[b] = "sent" \/ run[b].phase \in {"marked", "call"}) =>
          run[b].operation \in active' \/ pulls[run[b].pull].merged # 0
    BY <2>1, <2>3 DEF MarkOf
  <2> QED BY <1>1, <1>4, <2>1, <2>2, <2>4 DEF MarkOf
<1>10. SettlementInv' BY <1>1, <1>3, <1>4 DEF EpicInv, SettlementInv
<1>11. ProviderInv' BY <1>1 DEF EpicInv, ProviderInv
<1>12. EvidenceInv'
  <2>1. \A b \in Broker : IsMergeOf(Row(run[b]))' = IsMergeOf(Row(run[b]))
    BY <1>1, <1>4 DEF IsMergeOf
  <2>2. \A b \in Broker : run'[b].phase = "settle" => run[b].phase = "settle"
    BY <1>4 DEF UnderClaim
  <2>3. \A m \in Maintainer : EvidenceOf(m)'
    BY <1>1 DEF EpicInv, EvidenceInv, EvidenceOf
  <2> QED BY <2>1, <2>2, <2>3 DEF EpicInv, EvidenceInv
<1>13. LoadedInv' BY <1>1, <1>4 DEF EpicInv, LoadedInv, LoadedOf
<1>14. StaleInv'
  <2>1. \A b \in Broker : NoticedOf(b)'
    <3> SUFFICES ASSUME NEW b \in Broker PROVE NoticedOf(b)' OBVIOUS
    <3>1. NoticedOf(b) BY DEF EpicInv, StaleInv
    <3>2. run'[b].phase \in {"recheck", "mark"} => run'[b] = run[b] BY <1>4 DEF UnderClaim
    <3>3. CASE run'[b] = run[b]
      BY <1>1, <3>1, <3>3 DEF NoticedOf, ToBeNoticed
    <3>4. CASE run'[b] # run[b] BY <3>2, <3>4 DEF NoticedOf
    <3> QED BY <3>3, <3>4
  <2> QED BY <1>1, <2>1, DiffersStays DEF EpicInv, StaleInv
<1>15. MergedIsExact'
  BY <1>1, <1>3 DEF EpicInv, MergedIsExact, IsMergeOf
<1>16. StaleIsNeverSubmitted' BY <1>1 DEF EpicInv, StaleIsNeverSubmitted
<1> QED
  BY <1>5, <1>6, <1>7, <1>8, <1>9, <1>10, <1>11, <1>12, <1>13, <1>14, <1>15, <1>16
  DEF EpicInv

(* Cancel, SettleMerged and SettleRejected: only the owner settles so. *)
LEMMA SettleTerminalKeeps ==
  ASSUME EpicInv, NEW b \in Broker, NEW result \in {"cancelled", "merged", "rejected"},
         NEW reply \in {"denied", "merged"}, SettleTerminal(b, result, reply),
         \/ run[b].phase = "cancel" /\ result = "cancelled" /\ reply = "denied"
         \/ run[b].phase = "settle" /\ result = "merged" /\ reply = "merged"
         \/ run[b].phase = "reject" /\ result = "rejected" /\ reply = "denied"
  PROVE  EpicInv'
<1> DEFINE r == run[b]
           o == r.operation
<1>1. /\ run \in [Broker -> Run] /\ Owns(b) /\ o \in Operation /\ r.phase # "idle"
      /\ operations[o] = Row(r) /\ PhaseOf(b) /\ MarkOf(b)
      /\ UNCHANGED <<provider, reconciling, stale>>
      /\ reconciling \in [Maintainer -> Reconciliation \cup {None}]
  BY DEF EpicInv, TypeOK, PhaseInv, PhaseOf, MarkInv, OwnerInv, Owns, UnderClaim, SettleTerminal
<1>2. CASE ~Settleable(r)
  <2>1. Goto(b, "failed") /\ UNCHANGED <<provider, store, reconciling, stale>>
    BY <1>1, <1>2 DEF SettleTerminal
  <2> QED BY <1>1, <2>1, LeavingKeeps DEF Phase, UnderClaim
<1>3. CASE Settleable(r)
  <2>1. /\ Settle(o, result) /\ Goto(b, reply) /\ operations[o] # None
        /\ settlements[o] = <<>> /\ result \in Result /\ reply \in Phase
    BY <1>3 DEF SettleTerminal, Settleable, OwnsClaim, Result, Phase
  <2>2. /\ run' \in [Broker -> Run] /\ run'[b].phase = reply
        /\ run'[b].operation = o /\ run'[b].pull = r.pull /\ run'[b].context = r.context
        /\ \A c \in Broker : c # b => run'[c] = run[c]
    BY <1>1, <2>1, GotoEffect
  <2>3. /\ r.phase \notin {"marked", "call"} /\ calls[b] # "sent"
        /\ reply = "denied" => calls[b] \in {"none", "rejected"}
        /\ reply = "merged" => calls[b] = "accepted"
        /\ result = "rejected" => calls[b] = "rejected"
    BY <1>1 DEF PhaseOf
  <2>4. \A c \in Broker :
          ~(run[c].operation = o /\ (calls[c] = "sent" \/ run[c].phase \in {"marked", "call"}))
    BY <1>1, <2>3 DEF EpicInv, OwnerInv, Owns, UnderClaim
  <2>5. result = "cancelled" => o \notin submissions BY <1>1 DEF MarkOf
  <2>6. result = "merged" => IsMergeOf(operations[o]) BY <1>1 DEF EpicInv, EvidenceInv
  <2>7. \A c \in Broker :
          \/ run'[c] = run[c]
          \/ /\ run[c].phase # "idle"
             /\ run'[c].operation = run[c].operation /\ run'[c].pull = run[c].pull
             /\ run'[c].context = run[c].context
             /\ run'[c].phase \in {"denied", "merged", "indeterminate"}
             /\ run'[c].phase = "denied" => calls[c] \in {"none", "rejected"}
             /\ run'[c].phase = "merged" => calls[c] = "accepted"
    BY <1>1, <2>2, <2>3
  <2>8. result = "rejected" => \E c \in Broker : run[c].operation = o /\ calls[c] = "rejected"
    BY <2>3
  <2> HIDE DEF o, r
  <2> QED
    BY <1>1, <2>1, <2>2, <2>4, <2>5, <2>6, <2>7, <2>8, SettlementKeeps
<1> QED BY <1>2, <1>3

LEMMA GiveUpKeeps ==
  ASSUME EpicInv, NEW b \in Broker, GiveUp(b)
  PROVE  EpicInv'
<1> DEFINE r == run[b]
           o == r.operation
<1>1. /\ run \in [Broker -> Run] /\ r.phase = "failed" /\ o \in Operation
      /\ Goto(b, "indeterminate") /\ UNCHANGED <<provider, reconciling, stale>>
      /\ reconciling \in [Maintainer -> Reconciliation \cup {None}]
  BY DEF GiveUp, EpicInv, TypeOK, PhaseInv, PhaseOf
<1>2. CASE UNCHANGED store
  BY <1>1, <1>2, LeavingKeeps DEF Phase, UnderClaim
<1>3. CASE Settleable(r) /\ Settle(o, "indeterminate")
  <2>1. /\ operations[o] # None /\ settlements[o] = <<>> /\ "indeterminate" \in Result
    BY <1>3 DEF Settleable, OwnsClaim, Result
  <2>2. /\ run' \in [Broker -> Run] /\ run'[b].phase = "indeterminate"
        /\ run'[b].operation = o /\ run'[b].pull = r.pull /\ run'[b].context = r.context
        /\ \A c \in Broker : c # b => run'[c] = run[c]
    BY <1>1, GotoEffect DEF Phase
  <2>3. \A c \in Broker :
          \/ run'[c] = run[c]
          \/ /\ run[c].phase # "idle"
             /\ run'[c].operation = run[c].operation /\ run'[c].pull = run[c].pull
             /\ run'[c].context = run[c].context
             /\ run'[c].phase \in {"denied", "merged", "indeterminate"}
             /\ run'[c].phase = "denied" => calls[c] \in {"none", "rejected"}
             /\ run'[c].phase = "merged" => calls[c] = "accepted"
    BY <1>1, <2>2
  <2> HIDE DEF o, r
  <2> QED BY <1>1, <1>3, <2>1, <2>2, <2>3, SettlementKeeps
<1> QED BY <1>1, <1>2, <1>3 DEF GiveUp

LEMMA StateOfOpen ==
  ASSUME settlements \in [Operation -> History], NEW o \in Operation, StateOf(o) \in Open
  PROVE  settlements[o] = <<>> \/ settlements[o] = <<"indeterminate">>
<1>1. Latest(o) # None => Latest(o) = "indeterminate"
  BY LatestCases DEF StateOf, Open, Result
<1> QED BY <1>1, LatestCases

LEMMA SettleReconciliationKeeps ==
  ASSUME EpicInv, NEW m \in Maintainer, SettleReconciliation(m)
  PROVE  EpicInv'
<1> DEFINE c == reconciling[m]
           o == c.operation
           row == operations[o]
           result == IF ProvesMerged(c) THEN "merged" ELSE "cancelled"
<1>1. /\ c \in Reconciliation /\ o \in Operation /\ row # None /\ row \in Preparation
      /\ c.seen.pull # None /\ EvidenceOf(m)
      /\ reconciling \in [Maintainer -> Reconciliation \cup {None}]
      /\ reconciling' = [reconciling EXCEPT ![m] = None]
      /\ UNCHANGED <<provider, run, stale>>
      /\ run \in [Broker -> Run] /\ settlements \in [Operation -> History]
      /\ target \in Seq(Commit)
  BY DEF SettleReconciliation, EpicInv, TypeOK, EvidenceInv, EvidenceOf, Reconciliation
<1>2. CASE UNCHANGED store BY <1>1, <1>2, AbandonReconciliationKeeps
<1>3. CASE /\ ProvesMerged(c) \/ ProvesNoEffect(c)
           /\ Permitted(c, result)
           /\ Settle(o, result)
  <2>1. result \in Result /\ result \in {"merged", "cancelled"} BY DEF Result
  <2>2. \/ settlements[o] = <<>>
        \/ settlements[o] = <<"indeterminate">>
    BY <1>1, <1>3, StateOfOpen DEF Permitted, Open, Reconciliation
  <2>3. result = "cancelled" => o \notin submissions BY <1>3 DEF Permitted
  <2>4. ASSUME result = "merged"
        PROVE  IsMergeOf(row) /\ pulls[row.pull].merged # 0
    <3>1. OutcomeMatches(row, c.seen.pull, c.seen.tip)
      BY <2>4 DEF ProvesMerged
    <3>2. /\ c.seen.pull.merged # 0 /\ c.seen.pull.merged <= Tip
          /\ target[c.seen.pull.merged].pull = row.pull
          /\ pulls[row.pull].merged # 0
      BY <1>1, <3>1, EpicNoneAssumption DEF EvidenceOf, OutcomeMatches
    <3>3. row.base \in Nat /\ row = [pull |-> row.pull, base |-> row.base, head |-> row.head]
      BY <1>1 DEF Preparation
    <3>4. IsMergeOf([pull |-> row.pull, base |-> row.base, head |-> row.head])
      <4> HIDE DEF c, row
      <4> QED BY <1>1, <3>1, <3>2, <3>3, MatchIsMerge
    <3>5. \A x, y : x = y => (IsMergeOf(x) <=> IsMergeOf(y)) BY DEF IsMergeOf
    <3> QED BY <3>2, <3>3, <3>4, <3>5
  <2>5. ASSUME NEW b \in Broker, run[b].operation = o,
               calls[b] = "sent" \/ run[b].phase \in {"marked", "call"}
        PROVE  pulls[run[b].pull].merged # 0
    <3>1. o \in submissions BY <2>5 DEF EpicInv, MarkInv, MarkOf
    <3>2. result = "merged" BY <2>1, <2>3, <3>1
    <3>3. row = Row(run[b]) BY <2>5 DEF EpicInv, OwnerInv, Owns, UnderClaim
    <3>4. row.pull = run[b].pull BY <3>3 DEF Row
    <3> QED BY <2>4, <3>2, <3>4
  <2>6. /\ \A n \in Maintainer : reconciling'[n] \in {None, reconciling[n]}
        /\ reconciling' \in [Maintainer -> Reconciliation \cup {None}]
        /\ run' = run /\ UNCHANGED <<provider, stale>>
    BY <1>1
  <2>7. /\ Settle(o, result) /\ row # None /\ o \in Operation /\ run' \in [Broker -> Run]
        /\ result # "rejected" /\ result # "indeterminate"
    BY <1>1, <1>3, <2>1
  <2>8. result = "merged" => IsMergeOf(row) BY <2>4
  <2> HIDE DEF result, o, c
  <2> QED BY <2>1, <2>2, <2>3, <2>5, <2>6, <2>7, <2>8, SettlementKeeps
<1> QED BY <1>2, <1>3 DEF SettleReconciliation

-----------------------------------------------------------------------------
(* The theorems *)

LEMMA EpicInitEstablishes == Init => EpicInv
<1> SUFFICES ASSUME Init PROVE EpicInv OBVIOUS
<1>1. /\ \A o \in Operation : Latest(o) = None /\ operations[o] = None
      /\ target = <<>> /\ Tip = 0
  BY DEF Init, Latest, Tip
<1>2. /\ \A p \in PullRequest :
           pulls[p].head = 0 /\ pulls[p].base = 0 /\ pulls[p].merged = 0
      /\ pulls \in [PullRequest -> Pull]
  BY DEF Init, Pull
<1>3. NoContext \in Context BY DEF NoContext, Context
<1>4. \A b \in Broker :
        /\ run[b].phase = "idle" /\ run[b].context = NoContext /\ calls[b] = "none"
        /\ run[b].operation = None
  BY DEF Init, IdleRun
<1>5. TypeOK
  <2>1. IdleRun \in Run BY <1>3 DEF IdleRun, Run, Phase
  <2>2. settlements \in [Operation -> History] BY DEF Init, History
  <2>3. facts \in [Fact -> Content] BY EpicMergeAssumption DEF Init
  <2>4. stale = {} /\ stale \subseteq Change BY DEF Init
  <2> QED BY <1>2, <2>1, <2>2, <2>3, <2>4 DEF Init, TypeOK
<1>6. OwnerInv /\ PhaseInv /\ MarkInv /\ LoadedInv
  BY <1>4 DEF OwnerInv, Owns, UnderClaim, PhaseInv, PhaseOf, MarkInv, MarkOf, LoadedInv, LoadedOf
<1>7. ClaimInv /\ SettlementInv /\ StaleInv
  BY <1>1, EpicNoneAssumption DEF Init, ClaimInv, SettlementInv, StaleInv, NoticedOf, Result
<1>8. ProviderInv BY <1>1, <1>2 DEF ProviderInv
<1>9. EvidenceInv BY <1>4 DEF Init, EvidenceInv, EvidenceOf
<1>10. MergedIsExact /\ StaleIsNeverSubmitted
  BY <1>1, EpicNoneAssumption DEF Init, MergedIsExact, StaleIsNeverSubmitted, Result
<1> QED BY <1>5, <1>6, <1>7, <1>8, <1>9, <1>10 DEF EpicInv

LEMMA EpicNextKeeps == EpicInv /\ [Next]_vars => EpicInv'
<1> SUFFICES ASSUME EpicInv, [Next]_vars PROVE EpicInv' OBVIOUS
<1>1. ASSUME NEW b \in Broker, BrokerStep(b) PROVE EpicInv'
  <2>1. CASE Start(b) BY <2>1, StartKeeps
  <2>2. CASE Load(b) BY <2>2, LoadKeeps
  <2>3. CASE Prepare(b) BY <2>3, PrepareKeeps
  <2>4. CASE Recheck(b) BY <2>4, RecheckKeeps
  <2>5. CASE Cancel(b) BY <2>5, SettleTerminalKeeps DEF Cancel
  <2>6. CASE Mark(b) BY <2>6, MarkKeeps
  <2>7. CASE ReadMark(b) BY <2>7, ReadMarkKeeps
  <2>8. CASE Call(b) BY <2>8, CallKeeps
  <2>9. CASE Receive(b) BY <2>9, ReceiveKeeps
  <2>10. CASE Verify(b) BY <2>10, VerifyKeeps
  <2>11. CASE SettleMerged(b) BY <2>11, SettleTerminalKeeps DEF SettleMerged
  <2>12. CASE SettleRejected(b) BY <2>12, SettleTerminalKeeps DEF SettleRejected
  <2>13. CASE Fail(b) \/ Crash(b) BY <2>13, FailKeeps
  <2>14. CASE GiveUp(b) BY <2>14, GiveUpKeeps
  <2> QED
    BY <1>1, <2>1, <2>2, <2>3, <2>4, <2>5, <2>6, <2>7, <2>8, <2>9, <2>10, <2>11,
       <2>12, <2>13, <2>14 DEF BrokerStep
<1>2. ASSUME NEW m \in Maintainer, MaintainerStep(m) PROVE EpicInv'
  <2>1. CASE Reconcile(m) BY <2>1, ReconcileKeeps
  <2>2. CASE ObservePull(m) \/ ObserveTip(m) BY <2>2, ObserveKeeps
  <2>3. CASE SettleReconciliation(m) BY <2>3, SettleReconciliationKeeps
  <2>4. CASE AbandonReconciliation(m)
    BY <2>4, AbandonReconciliationKeeps DEF AbandonReconciliation
  <2> QED BY <1>2, <2>1, <2>2, <2>3, <2>4 DEF MaintainerStep
<1>3. CASE UNCHANGED vars
  <2>1. /\ UNCHANGED <<provider, store, run, stale>>
        /\ reconciling' = reconciling /\ target' = target /\ pulls' = pulls
        /\ operations' = operations
    BY <1>3 DEF vars, provider, store
  <2>2. reconciling' \in [Maintainer -> Reconciliation \cup {None}]
    BY <2>1 DEF EpicInv, TypeOK
  <2>3. \A m \in Maintainer : EvidenceOf(m)'
    BY <2>1 DEF EpicInv, EvidenceInv, EvidenceOf, Tip
  <2> QED BY <2>1, <2>2, <2>3, MaintainerStepKeeps
<1> QED
  BY <1>1, <1>2, <1>3, ProviderAnswersKeeps, HumanMergesKeeps, PushKeeps, ChangeFactKeeps
  DEF Next

LEMMA EpicInvariant == Spec => []EpicInv
BY EpicInitEstablishes, EpicNextKeeps, PTL DEF Spec

(* The state of the provider, the store and every process keeps its shape. *)
THEOREM EpicTypeCorrect == Spec => []TypeOK
<1>1. EpicInv => TypeOK BY DEF EpicInv
<1> QED BY <1>1, EpicInvariant, PTL

(* A request that may still be carried out holds the claim of its base:    *)
(* neither cancelling nor giving up nor reconciling releases it, whichever *)
(* processes die (settleOperation, settleReconciliation).                  *)
THEOREM PendingCallsHoldTheirClaim == Spec => []PendingCallHoldsClaim
<1>1. EpicInv => PendingCallHoldsClaim
  BY DEF EpicInv, MarkInv, MarkOf, PendingCallHoldsClaim
<1> QED BY <1>1, EpicInvariant, PTL

(* An operation is sent to the provider at most once, and not before it is *)
(* marked as submitted (markOperationSubmitted, performMerge).             *)
THEOREM OperationsAreCalledOnce == Spec => []OneCallPerOperation
<1>1. EpicInv => OneCallPerOperation
  BY DEF EpicInv, OwnerInv, Owns, MarkInv, MarkOf, OneCallPerOperation
<1> QED BY <1>1, EpicInvariant, PTL

(* Two submitted operations whose outcome is open never have the same base *)
(* (the claim of persistPreparation and of the settlements).               *)
THEOREM OpenSubmissionsDiffer == Spec => []OneOpenSubmissionPerBase
<1>1. EpicInv => OneOpenSubmissionPerBase
  <2> SUFFICES ASSUME EpicInv PROVE OneOpenSubmissionPerBase OBVIOUS
  <2>1. ASSUME NEW o \in submissions, StateOf(o) \in Open PROVE o \in active
    <3>1. o \in Operation /\ operations[o] # None BY DEF EpicInv, TypeOK
    <3>2. settlements \in [Operation -> History] BY DEF EpicInv, TypeOK
    <3>3. Latest(o) \in {None, "indeterminate"} BY <2>1, <3>1, <3>2, StateOfOpen, LatestCases
    <3> QED BY <3>1, <3>3 DEF EpicInv, ClaimInv
  <2> QED BY <2>1 DEF EpicInv, ClaimInv, OneOpenSubmissionPerBase
<1> QED BY <1>1, EpicInvariant, PTL

(* What is recorded as merged is the one commit on the authorized base,    *)
(* with the authorized head's tree, and stays it                           *)
(* (epicMergeOutcomeMatchesOperation).                                     *)
THEOREM MergesAreExact == Spec => []MergedIsExact
<1>1. EpicInv => MergedIsExact BY DEF EpicInv
<1> QED BY <1>1, EpicInvariant, PTL

(* A run that was denied, and an operation that is recorded as cancelled   *)
(* or rejected, has had no effect on the target (cancelPrepared,           *)
(* settleEpicMergeOperation).                                              *)
THEOREM DenialsHaveNoEffect == Spec => []DeniedHadNoEffect
<1>1. EpicInv => DeniedHadNoEffect
  <2> SUFFICES ASSUME EpicInv PROVE DeniedHadNoEffect OBVIOUS
  <2>1. ASSUME NEW b \in Broker, run[b].phase = "denied"
        PROVE  calls[b] \in {"none", "rejected"}
    BY <2>1 DEF EpicInv, PhaseInv, PhaseOf
  <2>2. ASSUME NEW b \in Broker, run[b].operation # None,
               Latest(run[b].operation) \in {"cancelled", "rejected"}
        PROVE  calls[b] \in {"none", "rejected"}
    <3> SUFFICES ASSUME calls[b] # "none" PROVE calls[b] = "rejected" OBVIOUS
    <3>1. run[b].operation \in Operation BY <2>2 DEF EpicInv, TypeOK, Run
    <3>2. run[b].operation \in submissions BY DEF EpicInv, MarkInv, MarkOf
    <3>3. Latest(run[b].operation) = "rejected"
      BY <2>2, <3>1, <3>2 DEF EpicInv, SettlementInv
    <3>4. PICK c \in Broker : run[c].operation = run[b].operation /\ calls[c] = "rejected"
      BY <3>1, <3>3 DEF EpicInv, SettlementInv
    <3>5. c = b BY <3>4 DEF EpicInv, OwnerInv, Owns
    <3> QED BY <3>4, <3>5
  <2> QED BY <2>1, <2>2 DEF DeniedHadNoEffect
<1> QED BY <1>1, EpicInvariant, PTL

(* An operation whose context had changed when it was prepared is never    *)
(* submitted: what revalidatePrepared reads again under the claim cannot   *)
(* change back.                                                            *)
THEOREM StaleOperationsAreNeverSubmitted == Spec => []StaleIsNeverSubmitted
<1>1. EpicInv => StaleIsNeverSubmitted BY DEF EpicInv
<1> QED BY <1>1, EpicInvariant, PTL

-----------------------------------------------------------------------------
(* EpicMerge implements MergeLedger *)

(* Each pull request is merged once: the target has as many commits as     *)
(* there are merged pull requests.                                         *)
MergedPulls == {p \in PullRequest : pulls[p].merged # 0}
CountInv == Tip = Cardinality(MergedPulls)

LEMMA CountInvariant == Spec => []CountInv
<1>1. Init => CountInv
  <2> SUFFICES ASSUME Init PROVE CountInv OBVIOUS
  <2>1. MergedPulls = {} BY DEF Init, MergedPulls
  <2> QED BY <2>1, FS_EmptySet DEF Init, CountInv, Tip
<1>2. EpicInv /\ CountInv /\ [Next]_vars => CountInv'
  <2> SUFFICES ASSUME EpicInv, CountInv, [Next]_vars PROVE CountInv' OBVIOUS
  <2>1. ASSUME NEW pull \in PullRequest, pulls[pull].merged = 0, Merged(pull)
        PROVE  CountInv'
    <3>1. /\ pulls \in [PullRequest -> Pull] /\ target \in Seq(Commit) /\ Tip \in Nat
      BY DEF EpicInv, TypeOK, Tip
    <3>2. Tip' = Tip + 1 BY <2>1, <3>1 DEF Merged, Tip
    <3>3. MergedPulls' = MergedPulls \cup {pull}
      <4>1. \A p \in PullRequest :
              pulls'[p].merged = IF p = pull THEN Tip + 1 ELSE pulls[p].merged
        BY <2>1, <3>1 DEF Merged, Pull
      <4> QED BY <3>1, <4>1 DEF MergedPulls
    <3>4. IsFiniteSet(MergedPulls)
      BY FS_Subset, EpicMergeAssumption DEF MergedPulls
    <3>5. pull \notin MergedPulls BY <2>1 DEF MergedPulls
    <3> QED BY <3>2, <3>3, <3>4, <3>5, FS_AddElement DEF CountInv
  <2>2. CASE target' = target /\ pulls' = pulls
    BY <2>2 DEF CountInv, MergedPulls, Tip
  <2>3. ASSUME NEW pull \in PullRequest, Push(pull) PROVE CountInv'
    <3>1. /\ pulls \in [PullRequest -> Pull] /\ pulls[pull].merged = 0 /\ target' = target
      BY <2>3 DEF EpicInv, TypeOK, Push
    <3>2. PICK head \in 0..MaxHead, base \in {pulls[pull].base, Tip}, current \in BOOLEAN :
            pulls' = [pulls EXCEPT ![pull] = [head |-> head, base |-> base,
                                              current |-> current, merged |-> 0]]
      BY <2>3 DEF Push
    <3>3. \A p \in PullRequest : pulls'[p].merged = pulls[p].merged BY <3>1, <3>2
    <3>4. MergedPulls' = MergedPulls BY <3>3 DEF MergedPulls
    <3> QED BY <3>1, <3>4 DEF CountInv, Tip
  <2>4. ASSUME NEW b \in Broker, ProviderAnswers(b) PROVE CountInv'
    <3>1. run[b].pull \in PullRequest
      BY <2>4 DEF ProviderAnswers, EpicInv, PhaseInv, PhaseOf
    <3> QED BY <2>1, <2>2, <2>4, <3>1 DEF ProviderAnswers
  <2>5. ASSUME NEW pull \in PullRequest, HumanMerges(pull) PROVE CountInv'
    BY <2>1, <2>5 DEF HumanMerges
  <2>6. ASSUME NEW b \in Broker, BrokerStep(b) PROVE target' = target /\ pulls' = pulls
    BY <2>6 DEF BrokerStep, Start, Load, Prepare, Recheck, Cancel, Mark, ReadMark, Call,
       Receive, Verify, SettleMerged, SettleRejected, SettleTerminal, Fail, GiveUp, Crash,
       provider
  <2>7. ASSUME NEW m \in Maintainer, MaintainerStep(m)
        PROVE  target' = target /\ pulls' = pulls
    BY <2>7 DEF MaintainerStep, Reconcile, ObservePull, ObserveTip, SettleReconciliation,
       AbandonReconciliation, provider
  <2>8. ASSUME NEW fact \in Fact, ChangeFact(fact) PROVE target' = target /\ pulls' = pulls
    BY <2>8 DEF ChangeFact
  <2>9. CASE UNCHANGED vars BY <2>2, <2>9 DEF vars, provider
  <2> QED BY <2>2, <2>3, <2>4, <2>5, <2>6, <2>7, <2>8, <2>9 DEF Next
<1> QED BY <1>1, <1>2, EpicInvariant, PTL DEF Spec

LEMMA BasesAreCounted ==
  ASSUME EpicInv, CountInv, NEW b \in Broker, run[b].phase # "idle"
  PROVE  run[b].context.base \in 0..Cardinality(PullRequest)
<1>1. Cardinality(MergedPulls) <= Cardinality(PullRequest)
  BY FS_Subset, EpicMergeAssumption DEF MergedPulls
<1>2. Cardinality(PullRequest) \in Nat BY FS_CardinalityType, EpicMergeAssumption
<1>3. run[b].context.base \in Nat /\ run[b].context.base <= Tip /\ Tip \in Nat
  BY DEF EpicInv, TypeOK, Run, Context, LoadedInv, LoadedOf, Tip
<1> QED BY <1>1, <1>2, <1>3 DEF CountInv

(* The ledger sees a step only when it changes what the store says. *)
LEMMA LedgerStutters ==
  ASSUME operations' = operations, submissions' = submissions, settlements' = settlements
  PROVE  UNCHANGED <<LedgerBase, LedgerState>>
BY DEF LedgerBase, LedgerState, LedgerStateOf, StateOf, Latest

LEMMA LedgerMoves ==
  ASSUME EpicInv, NEW o \in Operation, operations' = operations, operations[o] # None,
         \A p \in Operation : p # o => LedgerStateOf(p)' = LedgerStateOf(p)
  PROVE  /\ LedgerBase' = LedgerBase
         /\ LedgerState' = [LedgerState EXCEPT ![o] = LedgerStateOf(o)']
BY DEF LedgerBase, LedgerState

(* A settlement of an open operation is a step of the ledger. *)
LEMMA SettlementInLedger ==
  ASSUME EpicInv, NEW o \in Operation, NEW result \in Result, operations[o] # None,
         \/ settlements[o] = <<>>
         \/ settlements[o] = <<"indeterminate">> /\ result \in {"merged", "cancelled"},
         Settle(o, result),
         result = "cancelled" => o \notin submissions,
         result \in {"merged", "rejected"} => o \in submissions
  PROVE  Ledger!Next
<1>1. settlements \in [Operation -> History] BY DEF EpicInv, TypeOK
<1>2. /\ Latest(o)' = result /\ result # None
      /\ \A p \in Operation : p # o => Latest(p)' = Latest(p)
      /\ operations' = operations /\ submissions' = submissions
  BY <1>1, SettleEffect, EpicNoneAssumption DEF Settle
<1>3. \A p \in Operation : p # o => LedgerStateOf(p)' = LedgerStateOf(p)
  BY <1>2 DEF LedgerStateOf, StateOf
<1>4. /\ LedgerBase' = LedgerBase
      /\ LedgerState' = [LedgerState EXCEPT ![o] = LedgerStateOf(o)']
  BY <1>2, <1>3, LedgerMoves
<1>5. LedgerState[o] = LedgerStateOf(o) BY DEF LedgerState
<1>6. /\ settlements[o] = <<>> => Latest(o) = None
      /\ settlements[o] = <<"indeterminate">> => Latest(o) = "indeterminate"
  BY <1>1, LatestCases
<1>7. /\ settlements[o] = <<>> =>
           LedgerStateOf(o) = IF o \in submissions THEN "submitted" ELSE "prepared"
      /\ settlements[o] = <<"indeterminate">> =>
           LedgerStateOf(o) = IF o \in submissions THEN "ambiguous" ELSE "doubtful"
  BY <1>6, EpicNoneAssumption DEF LedgerStateOf, StateOf, Result
<1>8. LedgerStateOf(o)' =
        IF result = "indeterminate" THEN IF o \in submissions THEN "ambiguous" ELSE "doubtful"
        ELSE result
  BY <1>2 DEF LedgerStateOf, StateOf
<1>9. LedgerState'[o] # LedgerState[o]
  BY <1>4, <1>5, <1>7, <1>8 DEF LedgerState, Result
<1>10. CASE result = "indeterminate"
  <2>1. Ledger!Doubt(o)
    BY <1>4, <1>5, <1>7, <1>8, <1>10 DEF Ledger!Doubt, Ledger!Move
  <2> QED BY <1>9, <2>1 DEF Ledger!Next
<1>11. CASE result = "merged"
  <2>1. Ledger!Merge(o)
    BY <1>4, <1>5, <1>7, <1>8, <1>11 DEF Ledger!Merge, Ledger!Move
  <2> QED BY <1>9, <2>1 DEF Ledger!Next
<1>12. CASE result = "rejected"
  <2>1. Ledger!Reject(o)
    BY <1>4, <1>5, <1>7, <1>8, <1>12 DEF Ledger!Reject, Ledger!Move
  <2> QED BY <1>9, <2>1 DEF Ledger!Next
<1>13. CASE result = "cancelled"
  <2>1. Ledger!Cancel(o)
    BY <1>4, <1>5, <1>7, <1>8, <1>13 DEF Ledger!Cancel, Ledger!Move
  <2> QED BY <1>9, <2>1 DEF Ledger!Next
<1> QED BY <1>10, <1>11, <1>12, <1>13 DEF Result

LEMMA PrepareInLedger ==
  ASSUME EpicInv, CountInv, NEW b \in Broker, Prepare(b)
  PROVE  Ledger!Next \/ UNCHANGED <<LedgerBase, LedgerState>>
<1> DEFINE r == run[b]
<1>1. PICK o \in Operation : o = r.operation /\ r.phase = "prepare"
  BY DEF Prepare, EpicInv, PhaseInv, PhaseOf
<1>2. CASE UNCHANGED store BY <1>2, LedgerStutters DEF store
<1>3. CASE ~UNCHANGED store
  <2>1. /\ operations[o] = None /\ ~Contended(r)
        /\ operations' = [operations EXCEPT ![o] = Row(r)]
        /\ submissions' = submissions /\ settlements' = settlements
    BY <1>1, <1>3 DEF Prepare, Row, store
  <2>2. /\ settlements[o] = <<>> /\ o \notin submissions
        /\ operations \in [Operation -> Preparation \cup {None}]
        /\ settlements \in [Operation -> History]
    BY <1>1, <2>1 DEF EpicInv, SettlementInv, TypeOK
  <2>3. Row(r) # None /\ Row(r).base = r.context.base
    <3>1. Row(r) \in Preparation
      BY <1>1 DEF EpicInv, TypeOK, Run, Context, PhaseInv, PhaseOf, Row, Preparation
    <3> QED BY <3>1, EpicNoneAssumption DEF Row
  <2>4. /\ \A p \in Operation : p # o => operations'[p] = operations[p]
        /\ operations'[o] = Row(r)
        /\ \A p \in Operation : Latest(p)' = Latest(p)
        /\ Latest(o) = None
    BY <1>1, <2>1, <2>2 DEF Latest
  <2>5. PICK n \in 0..Cardinality(PullRequest) : n = r.context.base
    BY <1>1, BasesAreCounted
  <2> HIDE DEF r
  <2>6. /\ \A p \in Operation : p # o => LedgerStateOf(p)' = LedgerStateOf(p)
        /\ LedgerStateOf(o) = "absent"
    BY <2>1, <2>4 DEF LedgerStateOf, StateOf
  <2>7. LedgerStateOf(o)' = "prepared"
    BY <2>1, <2>2, <2>3, <2>4 DEF LedgerStateOf, StateOf
  <2>8. LedgerState[o] = "absent" /\ LedgerState' = [LedgerState EXCEPT ![o] = "prepared"]
    BY <1>1, <2>6, <2>7 DEF LedgerState
  <2>9. LedgerBase' = [LedgerBase EXCEPT ![o] = n]
    BY <1>1, <2>3, <2>4, <2>5 DEF LedgerBase
  <2>10. ASSUME NEW p \in Operation, LedgerState[p] \in Ledger!Open PROVE LedgerBase[p] # n
    <3>1. operations[p] # None /\ Latest(p) \in {None, "indeterminate"}
      BY <2>2, <2>10, LatestCases
      DEF LedgerState, LedgerStateOf, StateOf, Ledger!Open, Result
    <3>2. p \in active BY <3>1 DEF EpicInv, ClaimInv
    <3> QED BY <2>1, <2>5, <3>1, <3>2 DEF Contended, LedgerBase
  <2>11. Ledger!Prepare(o)
    BY <2>5, <2>8, <2>9, <2>10 DEF Ledger!Prepare
  <2>12. LedgerState'[o] # LedgerState[o] BY <2>8 DEF LedgerState
  <2> QED BY <1>1, <2>11, <2>12 DEF Ledger!Next
<1> QED BY <1>2, <1>3

LEMMA MarkInLedger ==
  ASSUME EpicInv, NEW b \in Broker, Mark(b)
  PROVE  Ledger!Next \/ UNCHANGED <<LedgerBase, LedgerState>>
<1> DEFINE r == run[b]
<1>1. PICK o \in Operation :
        /\ o = r.operation
        /\ operations' = operations /\ settlements' = settlements
        /\ settlements \in [Operation -> History]
        /\ \A p \in Operation : Latest(p)' = Latest(p)
  BY DEF Mark, EpicInv, TypeOK, PhaseInv, PhaseOf, Latest
<1>2. CASE submissions' = submissions BY <1>1, <1>2, LedgerStutters
<1>3. CASE Markable(r) /\ submissions' = submissions \cup {o}
  <2>1. operations[o] # None /\ settlements[o] = <<>> /\ o \notin submissions
    BY <1>1, <1>3 DEF Markable, OwnsClaim
  <2>2. Latest(o) = None BY <1>1, <2>1, LatestCases
  <2> HIDE DEF r
  <2>3. \A p \in Operation : p # o => LedgerStateOf(p)' = LedgerStateOf(p)
    BY <1>1, <1>3 DEF LedgerStateOf, StateOf
  <2>4. LedgerStateOf(o) = "prepared" /\ LedgerStateOf(o)' = "submitted"
    BY <1>1, <1>3, <2>1, <2>2 DEF LedgerStateOf, StateOf
  <2>5. /\ LedgerBase' = LedgerBase /\ LedgerState[o] = "prepared"
        /\ LedgerState' = [LedgerState EXCEPT ![o] = "submitted"]
    BY <1>1, <2>1, <2>3, <2>4, LedgerMoves DEF LedgerState
  <2>6. Ledger!Submit(o) BY <2>5 DEF Ledger!Submit, Ledger!Move
  <2>7. LedgerState'[o] # LedgerState[o] BY <2>5 DEF LedgerState
  <2> QED BY <1>1, <2>6, <2>7 DEF Ledger!Next
<1> QED BY <1>1, <1>2, <1>3 DEF Mark

(* Cancel, SettleMerged and SettleRejected *)
LEMMA SettleTerminalInLedger ==
  ASSUME EpicInv, NEW b \in Broker, NEW result \in {"cancelled", "merged", "rejected"},
         NEW reply, SettleTerminal(b, result, reply),
         \/ run[b].phase = "cancel" /\ result = "cancelled"
         \/ run[b].phase = "settle" /\ result = "merged"
         \/ run[b].phase = "reject" /\ result = "rejected"
  PROVE  Ledger!Next \/ UNCHANGED <<LedgerBase, LedgerState>>
<1> DEFINE o == run[b].operation
<1>1. o \in Operation /\ PhaseOf(b) /\ MarkOf(b) /\ result \in Result
  BY DEF EpicInv, PhaseInv, PhaseOf, MarkInv, Result
<1>2. CASE UNCHANGED store BY <1>2, LedgerStutters DEF store
<1>3. CASE Settleable(run[b]) /\ Settle(o, result)
  <2>1. operations[o] # None /\ settlements[o] = <<>>
    BY <1>3 DEF Settleable, OwnsClaim
  <2>2. /\ result = "cancelled" => o \notin submissions
        /\ result \in {"merged", "rejected"} => o \in submissions
    BY <1>1 DEF PhaseOf, MarkOf
  <2> HIDE DEF o
  <2>3. Ledger!Next BY <1>1, <1>3, <2>1, <2>2, SettlementInLedger
  <2> QED BY <2>3
<1> QED BY <1>2, <1>3 DEF SettleTerminal

LEMMA GiveUpInLedger ==
  ASSUME EpicInv, NEW b \in Broker, GiveUp(b)
  PROVE  Ledger!Next \/ UNCHANGED <<LedgerBase, LedgerState>>
<1> DEFINE o == run[b].operation
<1>1. o \in Operation /\ "indeterminate" \in Result
  BY DEF GiveUp, EpicInv, PhaseInv, PhaseOf, Result
<1>2. CASE UNCHANGED store BY <1>2, LedgerStutters DEF store
<1>3. CASE Settleable(run[b]) /\ Settle(o, "indeterminate")
  <2>1. operations[o] # None /\ settlements[o] = <<>>
    BY <1>3 DEF Settleable, OwnsClaim
  <2> HIDE DEF o
  <2>2. Ledger!Next BY <1>1, <1>3, <2>1, SettlementInLedger
  <2> QED BY <2>2
<1> QED BY <1>2, <1>3 DEF GiveUp

LEMMA ReconciliationInLedger ==
  ASSUME EpicInv, NEW m \in Maintainer, SettleReconciliation(m)
  PROVE  Ledger!Next \/ UNCHANGED <<LedgerBase, LedgerState>>
<1> DEFINE c == reconciling[m]
           o == c.operation
           result == IF ProvesMerged(c) THEN "merged" ELSE "cancelled"
<1>1. /\ c \in Reconciliation /\ o \in Operation /\ operations[o] # None
      /\ settlements \in [Operation -> History]
  BY DEF SettleReconciliation, EpicInv, TypeOK, EvidenceInv, EvidenceOf, Reconciliation
<1>2. CASE UNCHANGED store BY <1>2, LedgerStutters DEF store
<1>3. CASE Permitted(c, result) /\ Settle(o, result)
  <2>1. settlements[o] = <<>> \/ settlements[o] = <<"indeterminate">>
    BY <1>1, <1>3, StateOfOpen DEF Permitted, Open, Reconciliation
  <2>2. /\ result \in Result /\ result \in {"merged", "cancelled"} BY DEF Result
  <2>3. /\ result = "cancelled" => o \notin submissions
        /\ result \in {"merged", "rejected"} => o \in submissions
    BY <1>3 DEF Permitted
  <2> HIDE DEF o, result
  <2>4. Ledger!Next BY <1>1, <1>3, <2>1, <2>2, <2>3, SettlementInLedger
  <2> QED BY <2>4
<1> QED BY <1>2, <1>3 DEF SettleReconciliation

(* What the store records of each operation moves only as the ledger       *)
(* allows, whatever brokers, duplicates and maintainers do: every step of  *)
(* EpicMerge is a step of MergeLedger or changes nothing in it.            *)
THEOREM MergeImplementsLedger == Spec => ImplementsLedger
<1>1. Init => Ledger!Init
  <2> SUFFICES ASSUME Init PROVE Ledger!Init OBVIOUS
  <2>1. \A o \in Operation : operations[o] = None BY DEF Init
  <2> QED BY <2>1 DEF Ledger!Init, LedgerBase, LedgerState, LedgerStateOf
<1>2. EpicInv /\ CountInv /\ [Next]_vars => [Ledger!Next]_<<LedgerBase, LedgerState>>
  <2> SUFFICES ASSUME EpicInv, CountInv, [Next]_vars
               PROVE  Ledger!Next \/ UNCHANGED <<LedgerBase, LedgerState>>
    OBVIOUS
  <2>1. CASE UNCHANGED store BY <2>1, LedgerStutters DEF store
  <2>2. ASSUME NEW b \in Broker, BrokerStep(b)
        PROVE  Ledger!Next \/ UNCHANGED <<LedgerBase, LedgerState>>
    <3>1. CASE Prepare(b) BY <3>1, PrepareInLedger
    <3>2. CASE Mark(b) BY <3>2, MarkInLedger
    <3>3. CASE Cancel(b) BY <3>3, SettleTerminalInLedger DEF Cancel
    <3>4. CASE SettleMerged(b) BY <3>4, SettleTerminalInLedger DEF SettleMerged
    <3>5. CASE SettleRejected(b) BY <3>5, SettleTerminalInLedger DEF SettleRejected
    <3>6. CASE GiveUp(b) BY <3>6, GiveUpInLedger
    <3>7. CASE \/ Start(b) \/ Load(b) \/ Recheck(b) \/ ReadMark(b) \/ Call(b)
               \/ Receive(b) \/ Verify(b) \/ Fail(b) \/ Crash(b)
      BY <2>1, <3>7 DEF Start, Load, Recheck, ReadMark, Call, Receive, Verify, Fail, Crash
    <3> QED BY <2>2, <3>1, <3>2, <3>3, <3>4, <3>5, <3>6, <3>7 DEF BrokerStep
  <2>3. ASSUME NEW m \in Maintainer, MaintainerStep(m)
        PROVE  Ledger!Next \/ UNCHANGED <<LedgerBase, LedgerState>>
    <3>1. CASE SettleReconciliation(m) BY <3>1, ReconciliationInLedger
    <3>2. CASE Reconcile(m) \/ ObservePull(m) \/ ObserveTip(m) \/ AbandonReconciliation(m)
      BY <2>1, <3>2 DEF Reconcile, ObservePull, ObserveTip, AbandonReconciliation
    <3> QED BY <2>3, <3>1, <3>2 DEF MaintainerStep
  <2>4. CASE \/ \E b \in Broker : ProviderAnswers(b)
             \/ \E pull \in PullRequest : HumanMerges(pull) \/ Push(pull)
             \/ \E fact \in Fact : ChangeFact(fact)
             \/ UNCHANGED vars
    BY <2>1, <2>4 DEF ProviderAnswers, HumanMerges, Push, ChangeFact, vars
  <2> QED BY <2>2, <2>3, <2>4 DEF Next
<1> QED
  BY <1>1, <1>2, EpicInvariant, CountInvariant, PTL DEF Spec, ImplementsLedger, Ledger!Spec,
     Ledger!vars
=============================================================================
