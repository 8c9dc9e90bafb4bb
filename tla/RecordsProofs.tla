---------------------------- MODULE RecordsProofs ----------------------------
(***************************************************************************)
(* What the record log of an issue is, for any number of comments, lost    *)
(* runs, deletions, commands and changes, and every limit of the live      *)
(* suffix.  The argument: a history is readable only when the records it   *)
(* shows are the live ones of all that is attested; one run at a time      *)
(* attests, so what it plans from that history extends what is attested    *)
(* when its record becomes so too; and a generation that is formed again   *)
(* after its request was posted existed when the request was formed.       *)
(***************************************************************************)
EXTENDS LifecycleRecords, FiniteSetTheorems, SequenceTheorems, WellFoundedInduction, TLAPS

Reading == {"facts", "producer", "evaluate", "post", "anchor", "attest"}
Planned == {"producer", "evaluate", "post", "anchor", "attest"}
Publishing == {"post", "anchor", "attest"}

(* Where the run is: what it read is still what is attested, and its own   *)
(* comment is the last one.                                                *)
PlaceInv ==
  /\ run.phase \in {"idle", "orphan", "history", "facts", "producer", "evaluate", "post"}
       => run.posted = None
  /\ run.phase \in {"anchor", "attest"} =>
       run.posted = Len(timeline) /\ run.posted \in Ids \ attested /\ timeline[run.posted] = run.plan
  /\ run.phase = "attest" => run.posted \in anchored
  /\ run.phase \in {"verify", "refused"} => run.posted \in {None} \cup attested
  /\ run.phase \in Reading =>
       run.records = Live(attested) /\ Cardinality(Suffix(attested)) <= LiveLimit

(* Commands name comments, and a run settles the comment it was asked for. *)
CommandInv ==
  /\ \A k \in DOMAIN commands : commands[k] \in {None} \cup Ids
  /\ run.ignored \in {None} \cup Ids
  /\ run.settling => run.ignored # None

(* The generation that is open: its request, its fence and its results.    *)
Opened(active) ==
  LET request == Min(active)
      fences  == OfType(active, "fence")
      results == OfType(active, "producer")
  IN /\ active \subseteq {request} \cup fences \cup results
     /\ timeline[request].type = "request"
     /\ timeline[request].expected = Expected(timeline[request].generation.inputs)
     /\ \A i \in active : timeline[i].generation = timeline[request].generation
     /\ \A i, j \in fences : i = j
     /\ \A i \in fences : timeline[i].outcome = "claimed" /\ timeline[i].request = request
     /\ \A i \in results : timeline[i].fence \in fences /\ timeline[i].producer \in timeline[request].expected
     /\ \A i, j \in results : i < j =>
          timeline[i].producer = "issue-contract-current" /\ timeline[j].producer = "pr-contract"
     /\ results # {} => \E i \in results : timeline[i].producer = "issue-contract-current"

ActiveInv == Active(attested) # {} => Opened(Active(attested))

(* What a checkpoint compacts.                                             *)
Compacted(r, ids) ==
  /\ r.root = NewestCheckpoint(ids)
  /\ r.members = Suffix(ids) /\ r.members # {} /\ Cardinality(r.members) <= LiveLimit
  /\ r.sequence = IF r.root = None THEN 1 ELSE timeline[r.root].sequence + 1

(* Whatever is written was planned from a suffix within the limit.         *)
FillInv == Cardinality(Suffix(attested)) <= LiveLimit + 1

CheckpointInv ==
  \A i \in attested : IsCheckpoint(i) => Compacted(timeline[i], {j \in attested : j < i})

(* A record that may follow what is attested.                              *)
Follows(p) ==
  LET active == Active(attested)
      request == Min(active)
      ofGeneration == active # {} /\ p.generation = timeline[request].generation
  IN \/ p.type = "request" /\ active = {} /\ p.expected = Expected(p.generation.inputs)
     \/ p.type = "fence" /\ (p.outcome = "superseded" \/ (p.phase = "recovery" /\ p.outcome = "settled"))
     \/ /\ p.type = "fence" /\ p.phase = "phase-one" /\ p.outcome = "claimed"
        /\ ofGeneration /\ p.request = request /\ OfType(active, "fence") = {}
     \/ /\ p.type = "producer" /\ ofGeneration /\ p.fence \in OfType(active, "fence")
        /\ p.producer = NextProducer(attested, request) /\ p.producer # "none"
     \/ p.type = "transition" /\ Earned(p) /\ Compacted(p, attested)

PlanInv ==
  /\ run.phase \in Planned => Follows(run.plan)
  /\ run.phase \in Publishing => run.plan.prior = Newest(attested)

(* Inputs that readiness dates were true, or that readiness is gone; those *)
(* that the provider dates are of an earlier time.                         *)
Doubtful(inputs) ==
  inputs.updated.by = "readiness" =>
    /\ inputs.updated.at \in 1 .. spent.changes + 1
    /\ inputs \in been \/ facts.accepted.at # inputs.updated.at

Elapsed(inputs, time) == inputs.updated.by = "provider" => inputs.updated.at <= time

TruthInv ==
  /\ facts.accepted.at <= spent.changes + 1
  /\ Accepted(facts, facts.accepted) => Inputs(facts, facts.accepted) \in been
  /\ run.phase \in Reading =>
       /\ run.seen.at <= spent.changes + 1
       /\ run.seen.at # 0 /\ run.seen.at = facts.accepted.at => run.seen = facts.accepted
  /\ \A i \in Ids :
       LET inputs == timeline[i].generation.inputs IN
       /\ Doubtful(inputs) /\ Elapsed(inputs, Len(timeline) + spent.changes - 1)
       /\ run.phase = "facts" /\ inputs.updated = [by |-> "readiness", at |-> run.seen.at]
            => inputs \in been
       /\ IsCheckpoint(i) => inputs \in been
  /\ run.phase \in Planned =>
       LET inputs == run.plan.generation.inputs IN
       /\ Doubtful(inputs) /\ Elapsed(inputs, Len(timeline) + spent.changes)
       /\ run.plan.type = "transition" => inputs \in been

RecordsInv ==
  /\ TypeOK
  /\ PlaceInv
  /\ CommandInv
  /\ ChainIsLinear
  /\ ActiveInv
  /\ CheckpointInv
  /\ CheckpointIsEarned
  /\ PlanInv
  /\ TruthInv

-----------------------------------------------------------------------------
(* Least and greatest elements.                                            *)

(* The natural numbers are well founded.                                   *)
LEMMA LeastExists ==
  ASSUME NEW S \in SUBSET Nat, S # {}
  PROVE  \E x \in S : \A y \in S : x <= y
<1>1. PICK x \in S : \A y \in S : ~ (<<y, x>> \in OpToRel(<, Nat))
  BY NatLessThanWellFounded, WFMin, Zenon
<1>2. ASSUME NEW y \in S PROVE x <= y
  <2>1. x \in Nat /\ y \in Nat OBVIOUS
  <2>2. ASSUME y < x PROVE <<y, x>> \in OpToRel(<, Nat)
    BY <2>1, <2>2, Zenon DEF OpToRel
  <2>3. ~ (<<y, x>> \in OpToRel(<, Nat)) BY <1>1, Zenon
  <2>4. ~ (y < x) BY <2>2, <2>3, Zenon
  <2> QED BY <2>1, <2>4
<1> QED BY <1>2

(* A bounded set of natural numbers has a greatest one.                    *)
LEMMA GreatestExists ==
  ASSUME NEW n \in Nat, NEW S \in SUBSET (0 .. n), S # {}
  PROVE  \E x \in S : \A y \in S : x >= y
<1> DEFINE T == {n - x : x \in S}
<1>1. T \in SUBSET Nat /\ (\A x \in S : n - x \in T) /\ T # {}
  <2>1. \A x \in S : n - x \in T OBVIOUS
  <2>2. \E x \in S : TRUE OBVIOUS
  <2>3. T \in SUBSET Nat OBVIOUS
  <2> QED BY <2>1, <2>2, <2>3
<1>2. PICK t \in T : \A u \in T : t <= u
  <2> HIDE DEF T
  <2> QED BY <1>1, LeastExists
<1>3. PICK x \in S : t = n - x OBVIOUS
<1>4. ASSUME NEW y \in S PROVE x >= y
  <2>1. n - x <= n - y BY <1>1, <1>2, <1>3
  <2>2. x \in Nat /\ y \in Nat OBVIOUS
  <2> QED BY <2>1, <2>2
<1> QED BY <1>4

(* Min is the least element.                                               *)
LEMMA MinIs ==
  ASSUME NEW S \in SUBSET Nat, S # {}
  PROVE  Min(S) \in S /\ \A y \in S : Min(S) <= y
<1>1. \E x \in S : \A y \in S : x <= y
  BY LeastExists
<1> QED
  BY <1>1 DEF Min

(* There is one least element.                                             *)
LEMMA MinIsThe ==
  ASSUME NEW S \in SUBSET Nat, NEW x \in S, \A y \in S : x <= y
  PROVE  Min(S) = x
<1>1. S # {}
  OBVIOUS
<1>2. Min(S) \in S /\ \A y \in S : Min(S) <= y
  BY <1>1, MinIs
<1>3. Min(S) <= x /\ x <= Min(S)
  BY <1>2
<1>4. Min(S) \in Nat /\ x \in Nat
  BY <1>2
<1> QED
  BY <1>3, <1>4

(* Newest(ids) is the last of the ids.                                     *)
LEMMA NewestIs ==
  ASSUME NEW n \in Nat, NEW ids \in SUBSET (1 .. n)
  PROVE  /\ Newest(ids) \in ids \cup {None} /\ Newest(ids) \in 0 .. n
         /\ \A i \in ids : i <= Newest(ids)
<1> DEFINE S == {None} \cup ids
<1>1. S \in SUBSET (0 .. n) /\ S # {}
  BY DEF None
<1>2. \E x \in S : \A y \in S : x >= y
  <2> HIDE DEF S
  <2> QED
    BY <1>1, GreatestExists
<1>3. Max(S) \in S /\ \A y \in S : Max(S) >= y
  BY <1>2 DEF Max
<1>4. Newest(ids) = Max(S)
  BY DEF Newest
<1>5. Max(S) \in 0 .. n /\ \A y \in ids : y \in 0 .. n /\ y \in S
  BY <1>1, <1>3
<1> HIDE DEF S
<1>6. \A y \in ids : y <= Max(S)
  BY <1>3, <1>5
<1> QED
  BY <1>3, <1>4, <1>5, <1>6 DEF S

(* There is one newest.                                                    *)
LEMMA NewestIsThe ==
  ASSUME NEW n \in Nat, NEW ids \in SUBSET (1 .. n),
         NEW x \in ids \cup {None}, \A i \in ids : i <= x
  PROVE  Newest(ids) = x
<1>1. Newest(ids) \in ids \cup {None} /\ Newest(ids) \in 0 .. n /\ \A i \in ids : i <= Newest(ids)
  BY NewestIs
<1> QED
  BY <1>1 DEF None

-----------------------------------------------------------------------------
(* The parts of a history.                                                 *)

(* The newest checkpoint of some comments is one of them, or none.         *)
LEMMA NewestCheckpointIs ==
  ASSUME timeline \in Seq(Record), NEW ids \in SUBSET Ids
  PROVE  /\ NewestCheckpoint(ids) \in ids \cup {None} /\ NewestCheckpoint(ids) \in 0 .. Len(timeline)
         /\ NewestCheckpoint(ids) # None => NewestCheckpoint(ids) \in ids /\ IsCheckpoint(NewestCheckpoint(ids))
         /\ \A i \in ids : IsCheckpoint(i) => i <= NewestCheckpoint(ids)
<1> DEFINE C == {i \in ids : IsCheckpoint(i)}
<1>1. Len(timeline) \in Nat /\ C \in SUBSET (1 .. Len(timeline)) /\ NewestCheckpoint(ids) = Newest(C)
  BY DEF Ids, NewestCheckpoint
<1>2. /\ Newest(C) \in C \cup {None} /\ Newest(C) \in 0 .. Len(timeline)
      /\ \A i \in C : i <= Newest(C)
  <2> HIDE DEF C
  <2> QED
    BY <1>1, NewestIs
<1> QED
  BY <1>1, <1>2

(* It is the only one that no other follows.                               *)
LEMMA NewestCheckpointIsThe ==
  ASSUME timeline \in Seq(Record), NEW ids \in SUBSET Ids, NEW c \in ids \cup {None},
         c # None => IsCheckpoint(c), \A i \in ids : IsCheckpoint(i) => i <= c
  PROVE  NewestCheckpoint(ids) = c
<1> DEFINE C == {i \in ids : IsCheckpoint(i)}
<1>1. Len(timeline) \in Nat /\ C \in SUBSET (1 .. Len(timeline)) /\ NewestCheckpoint(ids) = Newest(C)
  BY DEF Ids, NewestCheckpoint
<1>2. c \in C \cup {None} /\ \A i \in C : i <= c
  BY DEF None
<1>3. Newest(C) = c
  <2> HIDE DEF C
  <2> QED
    BY <1>1, <1>2, NewestIsThe
<1> QED
  BY <1>1, <1>3

(* The ends of generations: checkpoints and the fences that close one.     *)
Ends(ids) == {i \in ids : IsCheckpoint(i) \/ Closes(i)}

(* The open generation is what follows the last end.                       *)
LEMMA ActiveIs ==
  ASSUME timeline \in Seq(Record), NEW ids \in SUBSET Ids
  PROVE  /\ Active(ids) \in SUBSET ids /\ Active(ids) = {i \in ids : i > Newest(Ends(ids))}
         /\ Newest(Ends(ids)) \in Ends(ids) \cup {None} /\ Newest(Ends(ids)) \in 0 .. Len(timeline)
         /\ \A i \in Ends(ids) : i <= Newest(Ends(ids))
         /\ Ends(ids) \in SUBSET (1 .. Len(timeline)) /\ Len(timeline) \in Nat
         /\ Active(ids) \in SUBSET Suffix(ids)
<1>1. Len(timeline) \in Nat /\ Ends(ids) \in SUBSET (1 .. Len(timeline))
  BY DEF Ids, Ends
<1>2. /\ Newest(Ends(ids)) \in Ends(ids) \cup {None} /\ Newest(Ends(ids)) \in 0 .. Len(timeline)
      /\ \A i \in Ends(ids) : i <= Newest(Ends(ids))
  BY <1>1, NewestIs
<1>3. Active(ids) = {i \in ids : i > Newest(Ends(ids))}
  BY DEF Active, Ends
<1>4. NewestCheckpoint(ids) <= Newest(Ends(ids))
  <2>1. /\ NewestCheckpoint(ids) \in ids \cup {None}
        /\ NewestCheckpoint(ids) # None => NewestCheckpoint(ids) \in ids /\ IsCheckpoint(NewestCheckpoint(ids))
    BY NewestCheckpointIs
  <2>2. NewestCheckpoint(ids) # None => NewestCheckpoint(ids) \in Ends(ids)
    BY <2>1 DEF Ends
  <2> QED
    BY <1>2, <2>2 DEF None
<1>5. \A i \in ids : i > Newest(Ends(ids)) => i > NewestCheckpoint(ids)
  <2>1. NewestCheckpoint(ids) \in 0 .. Len(timeline) /\ ids \in SUBSET (1 .. Len(timeline))
    BY NewestCheckpointIs DEF Ids
  <2> QED
    BY <1>1, <1>2, <1>4, <2>1
<1> QED
  BY <1>1, <1>2, <1>3, <1>5 DEF Suffix

(* What is live of some comments has their newest record, their newest     *)
(* checkpoint, their suffix and their open generation.                     *)
LEMMA LiveIs ==
  ASSUME timeline \in Seq(Record), NEW ids \in SUBSET Ids
  PROVE  /\ Live(ids) \in SUBSET ids
         /\ NewestCheckpoint(Live(ids)) = NewestCheckpoint(ids)
         /\ Suffix(Live(ids)) = Suffix(ids)
         /\ Live(ids) \ {NewestCheckpoint(ids)} = Suffix(ids)
         /\ Newest(Live(ids)) = Newest(ids)
         /\ Active(Live(ids)) = Active(ids)
<1> DEFINE c == NewestCheckpoint(ids)
           n == Len(timeline)
<1>1. /\ c \in ids \cup {None} /\ c \in 0 .. n /\ n \in Nat
      /\ c # None => c \in ids /\ IsCheckpoint(c)
      /\ \A i \in ids : IsCheckpoint(i) => i <= c
  BY NewestCheckpointIs DEF Ids
<1>2. ids \in SUBSET (1 .. n) /\ Live(ids) = {i \in ids : i >= c} /\ Live(ids) \in SUBSET Ids
  BY DEF Ids, Live
<1>3. NewestCheckpoint(Live(ids)) = c
  <2>1. c \in Live(ids) \cup {None} /\ \A i \in Live(ids) : IsCheckpoint(i) => i <= c
    BY <1>1, <1>2
  <2> HIDE DEF c
  <2> QED
    BY <1>1, <1>2, <2>1, NewestCheckpointIsThe
<1>4. Suffix(Live(ids)) = {i \in Live(ids) : i > c} /\ Suffix(ids) = {i \in ids : i > c}
  BY <1>3 DEF Suffix
<1>5. Suffix(Live(ids)) = Suffix(ids) /\ Live(ids) \ {c} = Suffix(ids)
  <2> HIDE DEF c
  <2>1. \A i \in ids : i > c <=> i >= c /\ i # c
    BY <1>1, <1>2
  <2> QED
    BY <1>2, <1>4, <2>1
<1>6. Newest(Live(ids)) = Newest(ids)
  <2>1. /\ Newest(ids) \in ids \cup {None} /\ Newest(ids) \in 0 .. n
        /\ \A i \in ids : i <= Newest(ids)
    BY <1>1, <1>2, NewestIs
  <2>2. Newest(ids) \in Live(ids) \cup {None}
    BY <1>1, <1>2, <2>1 DEF None
  <2>3. \A i \in Live(ids) : i <= Newest(ids)
    BY <1>2, <2>1
  <2> QED
    BY <1>1, <1>2, <2>2, <2>3, NewestIsThe
<1>7. Active(Live(ids)) = Active(ids)
  <2> DEFINE e == Newest(Ends(ids))
  <2>1. /\ Active(ids) = {i \in ids : i > e} /\ e \in Ends(ids) \cup {None} /\ e \in 0 .. n
        /\ \A i \in Ends(ids) : i <= e
    BY ActiveIs
  <2>2. Active(Live(ids)) = {i \in Live(ids) : i > Newest(Ends(Live(ids)))}
    BY <1>2, ActiveIs
  <2>3. c <= e
    BY <1>1, <2>1 DEF Ends, None
  <2> HIDE DEF c, e
  <2>4. Ends(Live(ids)) \in SUBSET (1 .. n) /\ Ends(Live(ids)) \in SUBSET Ends(ids)
    BY <1>2 DEF Ends
  <2>5. e \in Ends(Live(ids)) \cup {None}
    BY <1>1, <1>2, <2>1, <2>3 DEF Ends, None
  <2>6. Newest(Ends(Live(ids))) = e
    <3>1. \A i \in Ends(Live(ids)) : i <= e
      BY <2>1, <2>4
    <3> QED
      BY <1>1, <2>4, <2>5, <3>1, NewestIsThe
  <2>7. \A i \in ids : i > e => i >= c
    BY <1>1, <1>2, <2>1, <2>3
  <2> QED
    BY <1>2, <2>1, <2>2, <2>6, <2>7
<1> QED
  BY <1>2, <1>3, <1>5, <1>6, <1>7

(* What one more record, posted after all others, changes.                 *)
LEMMA OneMore ==
  ASSUME timeline \in Seq(Record), NEW ids \in SUBSET Ids, NEW k \in Ids, \A i \in ids : i < k
  PROVE  /\ IsCheckpoint(k) \/ Closes(k) => Active(ids \cup {k}) = {}
         /\ ~IsCheckpoint(k) /\ ~Closes(k) => Active(ids \cup {k}) = Active(ids) \cup {k}
         /\ {j \in ids \cup {k} : j < k} = ids
         /\ \A i \in ids : {j \in ids \cup {k} : j < i} = {j \in ids : j < i}
<1> DEFINE n == Len(timeline)
           more == ids \cup {k}
           e == Newest(Ends(ids))
<1>1. n \in Nat /\ k \in 1 .. n /\ ids \in SUBSET (1 .. n) /\ more \in SUBSET Ids /\ Ends(more) \in SUBSET (1 .. n)
  BY DEF Ids, Ends
<1>2. /\ Active(ids) = {i \in ids : i > e} /\ e \in Ends(ids) \cup {None} /\ e \in 0 .. n
      /\ \A i \in Ends(ids) : i <= e
  BY ActiveIs
<1>3. Active(more) = {i \in more : i > Newest(Ends(more))}
  <2> HIDE DEF more
  <2> QED
    BY <1>1, ActiveIs
<1>4. ASSUME IsCheckpoint(k) \/ Closes(k) PROVE Active(more) = {}
  <2>1. k \in Ends(more) \cup {None} /\ \A i \in Ends(more) : i <= k
    BY <1>1, <1>4 DEF Ends
  <2>2. Newest(Ends(more)) = k
    <3>1. n \in Nat /\ Ends(more) \in SUBSET (1 .. n)
      BY <1>1
    <3> HIDE DEF more, n
    <3> QED
      BY <2>1, <3>1, NewestIsThe
  <2>3. \A i \in more : ~(i > k)
    BY <1>1
  <2> HIDE DEF more
  <2> QED
    BY <1>3, <2>2, <2>3
<1>5. ASSUME ~IsCheckpoint(k), ~Closes(k) PROVE Active(more) = Active(ids) \cup {k}
  <2>1. Ends(more) = Ends(ids)
    BY <1>5 DEF Ends
  <2>2. e < k
    BY <1>1, <1>2 DEF Ends, None
  <2>3. Active(more) = {i \in more : i > e}
    BY <1>3, <2>1
  <2> HIDE DEF e
  <2> QED
    BY <1>1, <1>2, <2>2, <2>3
<1>6. ids = {j \in more : j < k} /\ \A i \in ids : {j \in more : j < i} = {j \in ids : j < i}
  <2>1. k \in Nat /\ ids \in SUBSET Nat /\ \A i \in ids : i < k
    BY <1>1
  <2>2. ids = {j \in more : j < k}
    <3>1. ~(k < k) /\ \A i \in ids : i \in more /\ i < k
      BY <2>1
    <3> QED
      BY <3>1
  <2>3. ASSUME NEW i \in ids PROVE {j \in more : j < i} = {j \in ids : j < i}
    <3>1. i \in Nat /\ i < k /\ ~(k < i)
      BY <2>1
    <3> QED
      BY <3>1
  <2> QED
    BY <2>2, <2>3
<1> QED
  BY <1>4, <1>5, <1>6


-----------------------------------------------------------------------------
(* The records that a run plans.                                           *)

Generations == [inputs : InputSet, attempt : Nat]

(* The starting record is a record.                                        *)
LEMMA BlankIs ==
  Blank \in Record /\ Blank.type = "none" /\ Blank.settles \in Nat /\ Blank.request \in Nat
<1>1. NoInputs \in InputSet
  BY DEF NoInputs, InputSet
<1>2. Generation(NoInputs, 0) \in Generations
  BY <1>1 DEF Generation, Generations
<1> HIDE DEF Generation, NoInputs, Generations
<1> QED
  BY <1>2 DEF Blank, Record, None, Producers, Generations

(* A record of the log is a record.                                        *)
LEMMA RecordOf ==
  ASSUME timeline \in Seq(Record), NEW i \in Ids
  PROVE  /\ timeline[i] \in Record /\ timeline[i].generation \in Generations
         /\ timeline[i].generation.inputs \in InputSet /\ timeline[i].generation.attempt \in Nat
         /\ timeline[i].sequence \in Nat /\ timeline[i].expected \in SUBSET Producers
         /\ timeline[i].prior \in Nat
<1>1. timeline[i] \in Record
  BY DEF Ids
<1> QED
  BY <1>1 DEF Record, Generations

(* A request.                                                              *)
LEMMA RequestIs ==
  ASSUME timeline \in Seq(Record), NEW records \in SUBSET Ids, NEW g \in Generations
  PROVE  LET p == Request(records, g) IN
         /\ p \in Record /\ p.type = "request" /\ p.generation = g
         /\ p.prior = Newest(records) /\ p.expected = Expected(g.inputs)
<1>1. Newest(records) \in Nat
  BY NewestIs DEF Ids
<1>2. Expected(g.inputs) \in SUBSET Producers
  BY DEF Expected, Producers
<1> DEFINE b == Blank
           last == Newest(records)
           expected == Expected(g.inputs)
           p == Request(records, g)
<1>3. b \in Record
  BY BlankIs
<1>4. p = [b EXCEPT !.type = "request", !.generation = g, !.prior = last, !.expected = expected]
  BY DEF Request
<1> HIDE DEF b, last, expected, p
<1>5. /\ p \in Record /\ p.type = "request" /\ p.generation = g
      /\ p.prior = last /\ p.expected = expected
  <2>1. last \in Nat /\ expected \in SUBSET Producers
    BY <1>1, <1>2 DEF last, expected
  <2> QED
    BY <1>3, <1>4, <2>1 DEF Record, Generations
<1> QED
  BY <1>5 DEF p, last, expected

(* A claimed fence.                                                        *)
LEMMA ClaimIs ==
  ASSUME timeline \in Seq(Record), NEW records \in SUBSET Ids, NEW request \in Ids
  PROVE  LET p == Claim(records, request) IN
         /\ p \in Record /\ p.type = "fence" /\ p.generation = timeline[request].generation
         /\ p.prior = Newest(records) /\ p.phase = "phase-one" /\ p.outcome = "claimed" /\ p.request = request
<1> DEFINE b == Blank
           g == timeline[request].generation
           last == Newest(records)
           p == Claim(records, request)
<1>1. last \in Nat /\ b \in Record /\ g \in Generations
      /\ b.settles \in Nat /\ b.request \in Nat /\ request \in Nat
  BY NewestIs, BlankIs, RecordOf DEF Ids
<1>2. p = [b EXCEPT !.type = "fence", !.generation = g, !.prior = last, !.phase = "phase-one",
                    !.outcome = "claimed", !.request = request]
  BY DEF Claim
<1> HIDE DEF b, g, last, p
<1>3. /\ p \in Record /\ p.type = "fence" /\ p.generation = g /\ p.prior = last
      /\ p.phase = "phase-one" /\ p.outcome = "claimed" /\ p.request = request
  BY <1>1, <1>2 DEF Record, Generations
<1> QED
  BY <1>3 DEF g, last, p, Generation

(* The fence that supersedes a generation.                                 *)
LEMMA SupersessionIs ==
  ASSUME timeline \in Seq(Record), NEW records \in SUBSET Ids, NEW request \in Ids
  PROVE  LET p == Supersession(records, request) IN
         /\ p \in Record /\ p.type = "fence" /\ p.generation = timeline[request].generation
         /\ p.prior = Newest(records) /\ p.outcome = "superseded"
<1> DEFINE b == Blank
           g == timeline[request].generation
           last == Newest(records)
           p == Supersession(records, request)
<1>1. last \in Nat /\ b \in Record /\ g \in Generations
      /\ b.settles \in Nat /\ b.request \in Nat /\ request \in Nat
  BY NewestIs, BlankIs, RecordOf DEF Ids
<1>2. p = [b EXCEPT !.type = "fence", !.generation = g, !.prior = last, !.phase = "request",
                    !.outcome = "superseded", !.request = request]
  BY DEF Supersession
<1> HIDE DEF b, g, last, p
<1>3. /\ p \in Record /\ p.type = "fence" /\ p.generation = g /\ p.prior = last
      /\ p.phase = "request" /\ p.outcome = "superseded" /\ p.request = request
  BY <1>1, <1>2 DEF Record, Generations
<1> QED
  BY <1>3 DEF g, last, p, Generation

(* The fence that settles an orphan.                                       *)
LEMMA SettlementIs ==
  ASSUME timeline \in Seq(Record), NEW records \in SUBSET Ids, NEW inputs \in InputSet, NEW orphan \in Ids
  PROVE  LET p == Settlement(records, inputs, orphan) IN
         /\ p \in Record /\ p.type = "fence" /\ p.generation.inputs = inputs
         /\ p.prior = Newest(records) /\ p.phase = "recovery" /\ p.outcome = "settled"
<1> DEFINE b == Blank
           g == Generation(inputs, timeline[orphan].generation.attempt + 1)
           last == Newest(records)
           p == Settlement(records, inputs, orphan)
<1>1. last \in Nat /\ b \in Record /\ g \in Generations
      /\ b.settles \in Nat /\ b.request \in Nat /\ orphan \in Nat
  <2>1. timeline[orphan].generation.attempt \in Nat
    BY RecordOf
  <2>2. g \in Generations
    BY <2>1 DEF Generation, Generations
  <2> QED
    BY <2>2, NewestIs, BlankIs DEF Ids
<1>2. p = [b EXCEPT !.type = "fence", !.generation = g, !.prior = last, !.phase = "recovery",
                    !.outcome = "settled", !.settles = orphan]
  BY DEF Settlement
<1> HIDE DEF b, g, last, p
<1>3. /\ p \in Record /\ p.type = "fence" /\ p.generation = g /\ p.prior = last
      /\ p.phase = "recovery" /\ p.outcome = "settled"
  BY <1>1, <1>2 DEF Record, Generations
<1> QED
  BY <1>3 DEF g, last, p, Generation

(* The order that a producer works for.                                    *)
LEMMA WireIs ==
  ASSUME NEW g \in Generations, NEW request \in Nat, NEW fence \in Nat, NEW producer \in Producers
  PROVE  LET p == Wire(g, request, fence, producer) IN
         /\ p \in Record /\ p.type = "producer" /\ p.generation = g
         /\ p.fence = fence /\ p.producer = producer
<1> DEFINE b == Blank
<1>1. b \in Record
  BY BlankIs
<1> DEFINE p == Wire(g, request, fence, producer)
<1>2. p = [b EXCEPT !.type = "producer", !.generation = g, !.request = request, !.fence = fence,
                    !.producer = producer]
  BY DEF Wire
<1> HIDE DEF b, p
<1>3. /\ p \in Record /\ p.type = "producer" /\ p.generation = g
      /\ p.fence = fence /\ p.producer = producer
  BY <1>1, <1>2 DEF Record, Generations
<1> QED
  BY <1>3 DEF p

(* A checkpoint.                                                           *)
LEMMA TransitionIs ==
  ASSUME timeline \in Seq(Record), NEW records \in SUBSET Ids, NEW g \in Generations,
         NEW request \in Nat, NEW fence \in Nat
  PROVE  LET p == Transition(records, g, request, fence)
             results == OfType(Active(records), "producer")
         IN
         /\ p \in Record /\ p.type = "transition" /\ p.generation = g /\ p.prior = Newest(records)
         /\ p.request = request /\ p.fence = fence /\ p.results = results
         /\ p.outcome = "planned" <=> \A i \in results : timeline[i].conclusion = "success"
         /\ p.root = NewestCheckpoint(records) /\ p.members = Suffix(records)
         /\ p.sequence = IF p.root = None THEN 1 ELSE timeline[p.root].sequence + 1
<1> DEFINE b == Blank
           results == OfType(Active(records), "producer")
           root == NewestCheckpoint(records)
           members == Suffix(records)
           outcome == IF \A i \in results : timeline[i].conclusion = "success" THEN "planned" ELSE "failed"
           sequence == IF root = None THEN 1 ELSE timeline[root].sequence + 1
           last == Newest(records)
<1>1. b \in Record
  BY BlankIs
<1>2. last \in Nat /\ root \in Nat /\ root \in Ids \cup {None}
  BY NewestIs, NewestCheckpointIs DEF Ids
<1>3. results \in SUBSET Nat /\ members \in SUBSET Nat
  BY ActiveIs DEF OfType, Suffix, Ids
<1>4. sequence \in Nat
  BY <1>2, RecordOf
<1>5. /\ outcome \in {"planned", "failed"}
      /\ outcome = "planned" <=> \A i \in results : timeline[i].conclusion = "success"
  OBVIOUS
<1>6. Transition(records, g, request, fence) =
        [b EXCEPT !.type = "transition", !.generation = g, !.prior = last,
                  !.request = request, !.fence = fence, !.results = results, !.outcome = outcome,
                  !.sequence = sequence, !.root = root, !.members = members]
  BY DEF Transition
<1> DEFINE t == Transition(records, g, request, fence)
<1> HIDE DEF b, results, root, members, outcome, sequence, last, t
<1>7. /\ t \in Record /\ t.type = "transition" /\ t.generation = g /\ t.prior = last
      /\ t.request = request /\ t.fence = fence /\ t.results = results /\ t.outcome = outcome
      /\ t.sequence = sequence /\ t.root = root /\ t.members = members
  <2>1. last \in Nat /\ root \in Nat /\ results \in SUBSET Nat /\ members \in SUBSET Nat /\ sequence \in Nat
    BY <1>2, <1>3, <1>4
  <2>2. outcome \in {"planned", "failed"}
    BY <1>5
  <2>3. t = [b EXCEPT !.type = "transition", !.generation = g, !.prior = last,
                  !.request = request, !.fence = fence, !.results = results, !.outcome = outcome,
                  !.sequence = sequence, !.root = root, !.members = members]
    BY <1>6 DEF t
  <2> QED
    BY <1>1, <2>1, <2>2, <2>3 DEF Record, Generations
<1>8. t.outcome = "planned" <=> \A i \in results : timeline[i].conclusion = "success"
  BY <1>5, <1>7
<1>9. t.sequence = IF t.root = None THEN 1 ELSE timeline[t.root].sequence + 1
  BY <1>7 DEF sequence
<1> QED
  BY <1>7, <1>8, <1>9 DEF t, results, root, members, last


-----------------------------------------------------------------------------
(* What a run plans follows what is attested.                              *)

(* The producer that works next is the first that the request expects and  *)
(* that has no result.                                                     *)
LEMMA FirstWithoutIs ==
  ASSUME NEW results, NEW request, timeline[request].expected \in SUBSET Producers,
         NEW next, next = FirstWithout(results, request)
  PROVE  LET expected == timeline[request].expected
             produced == {timeline[i].producer : i \in results}
         IN
         /\ next \in {"none"} \cup Producers
         /\ next = "none" => expected \subseteq produced
         /\ next # "none" => next \in expected /\ next \notin produced
         /\ next = "pr-contract" /\ "issue-contract-current" \in expected =>
              "issue-contract-current" \in produced
<1> DEFINE missing == timeline[request].expected \ {timeline[i].producer : i \in results}
<1>1. next = IF "issue-contract-current" \in missing THEN "issue-contract-current"
             ELSE IF missing # {} THEN "pr-contract" ELSE "none"
  BY DEF FirstWithout
<1>2. missing \in SUBSET Producers
  OBVIOUS
<1>3. /\ next \in {"none"} \cup Producers
      /\ next = "none" => missing = {}
      /\ next # "none" => next \in missing
      /\ next = "pr-contract" => "issue-contract-current" \notin missing
  <2> HIDE DEF missing
  <2> QED
    BY <1>1, <1>2 DEF Producers
<1> QED
  BY <1>3

(* The open generation of an authenticated history is that of all that is  *)
(* attested; its request and its fence are among its records.              *)
LEMMA OpenIs ==
  ASSUME timeline \in Seq(Record), attested \in SUBSET Ids, ActiveInv, Active(attested) # {}
  PROVE  LET active == Active(attested)
             fences == OfType(active, "fence")
             results == OfType(active, "producer")
         IN
         /\ active \in SUBSET attested /\ active \in SUBSET Suffix(attested) /\ Opened(active)
         /\ Min(active) \in active /\ Min(active) \in Ids /\ \A i \in active : Min(active) <= i
         /\ fences \in SUBSET active /\ results \in SUBSET active
         /\ fences # {} => Min(fences) \in fences
         /\ \A i \in fences : i = Min(fences)
<1> DEFINE active == Active(attested)
           fences == OfType(active, "fence")
           results == OfType(active, "producer")
<1>1. active \in SUBSET attested /\ active \in SUBSET Suffix(attested)
  BY ActiveIs
<1>2. Opened(active)
  BY DEF ActiveInv
<1>3. active \in SUBSET Nat /\ fences \in SUBSET active /\ results \in SUBSET active /\ fences \in SUBSET Nat
  BY <1>1 DEF OfType, Ids
<1>4. Min(active) \in active /\ \A i \in active : Min(active) <= i
  BY <1>3, MinIs
<1>5. fences # {} => Min(fences) \in fences
  <2> HIDE DEF fences
  <2> QED
    BY <1>3, MinIs
<1>6. \A i, j \in fences : i = j
  BY <1>2 DEF Opened
<1> QED
  BY <1>1, <1>2, <1>3, <1>4, <1>5, <1>6

(* A checkpoint that closes the open generation is earned.                 *)
LEMMA TransitionIsEarned ==
  ASSUME timeline \in Seq(Record), attested \in SUBSET Ids, ActiveInv, Active(attested) # {},
         NEW p, p.request = Min(Active(attested)), p.fence = Min(OfType(Active(attested), "fence")),
         OfType(Active(attested), "fence") # {},
         p.results = OfType(Active(attested), "producer"),
         p.generation = timeline[Min(Active(attested))].generation,
         p.outcome = "planned" <=> \A i \in p.results : timeline[i].conclusion = "success",
         NextProducer(attested, Min(Active(attested))) = "none"
  PROVE  Earned(p)
<1> DEFINE active == Active(attested)
           request == Min(active)
           fences == OfType(active, "fence")
           fence == Min(fences)
           results == OfType(active, "producer")
<1>1. /\ active \in SUBSET attested /\ Opened(active) /\ request \in active /\ request \in Ids
      /\ fences \in SUBSET active /\ results \in SUBSET active /\ fence \in fences
      /\ \A i \in fences : i = fence
  BY OpenIs
<1>2. /\ timeline[request].expected = Expected(timeline[request].generation.inputs)
      /\ \A i \in active : timeline[i].generation = timeline[request].generation
      /\ \A i \in fences : timeline[i].outcome = "claimed" /\ timeline[i].request = request
      /\ \A i \in results : timeline[i].fence \in fences /\ timeline[i].producer \in timeline[request].expected
      /\ \A i, j \in results : i < j =>
           timeline[i].producer = "issue-contract-current" /\ timeline[j].producer = "pr-contract"
  BY <1>1 DEF Opened
<1>3. timeline[request].expected \subseteq {timeline[i].producer : i \in results}
  <2>1. FirstWithout(results, request) = "none"
    BY DEF NextProducer
  <2>2. timeline[request].expected \in SUBSET Producers
    BY <1>1, RecordOf
  <2> HIDE DEF results, request
  <2> QED
    BY <2>1, <2>2, FirstWithoutIs
<1>4. {timeline[j].producer : j \in results} = timeline[request].expected
  BY <1>2, <1>3
<1>5. p.request = request /\ p.fence = fence /\ p.results = results /\ p.generation = timeline[request].generation
  OBVIOUS
<1> HIDE DEF active, request, fences, fence, results
<1>6. {p.request, p.fence} \cup p.results \subseteq attested
  BY <1>1, <1>5
<1>7. \A j \in {p.request, p.fence} \cup p.results : timeline[j].generation = p.generation
  BY <1>1, <1>2, <1>5
<1>8. \A j \in p.results : timeline[j].fence = p.fence
  BY <1>1, <1>2, <1>5
<1>9. {timeline[j].producer : j \in p.results} = Expected(p.generation.inputs)
  BY <1>2, <1>4, <1>5
<1> QED
  BY <1>1, <1>2, <1>5, <1>6, <1>7, <1>8, <1>9 DEF Earned


(* The plan of a run that reads all that is attested and alive.            *)
LEMMA PlanFollows ==
  ASSUME timeline \in Seq(Record), attested \in SUBSET Ids, ActiveInv,
         Cardinality(Suffix(attested)) <= LiveLimit,
         NEW records, records = Live(attested), NEW inputs \in InputSet,
         NEW p, p = Plan(records, inputs), p # Blank
  PROVE  /\ p \in Record /\ Follows(p)
         /\ p.type # "producer" => p.prior = Newest(attested)
         /\ p.generation.inputs = inputs \/ \E i \in Ids : p.generation = timeline[i].generation
         /\ p.type = "transition" =>
              p.generation.inputs = inputs /\ \E i \in Ids : p.generation = timeline[i].generation
<1> DEFINE active == Active(attested)
           request == Min(active)
           fences == OfType(active, "fence")
           fence == Min(fences)
           next == NextProducer(attested, request)
           g == Generation(inputs, Attempt(records))
<1>1. /\ records \in SUBSET Ids /\ Active(records) = active
      /\ NewestCheckpoint(records) = NewestCheckpoint(attested)
      /\ Suffix(records) = Suffix(attested) /\ Newest(records) = Newest(attested)
  BY LiveIs
<1>2. NextProducer(records, request) = next
  BY <1>1 DEF NextProducer
<1>3. g \in Generations /\ g.inputs = inputs
  <2> DEFINE S == {i \in records : IsSettlement(i)}
             last == Newest(S)
  <2>1. Len(timeline) \in Nat /\ S \in SUBSET (1 .. Len(timeline))
    BY <1>1 DEF Ids
  <2>2. last \in S \cup {None}
    <3> HIDE DEF S
    <3> QED
      BY <2>1, NewestIs
  <2>3. last # None => timeline[last].generation.attempt \in Nat
    BY <1>1, <2>2, RecordOf
  <2>4. Attempt(records) \in Nat
    BY <2>3 DEF Attempt, None
  <2> QED
    BY <2>4 DEF Generation, Generations
<1>4. p = IF active = {}
          THEN IF Done(records, g) THEN Blank ELSE Request(records, g)
          ELSE IF ~SameGeneration(request, g) THEN Supersession(records, request)
          ELSE IF fences = {} THEN Claim(records, request)
          ELSE IF next # "none" THEN Wire(g, request, fence, next)
          ELSE Transition(records, g, request, fence)
  BY <1>1, <1>2 DEF Plan
<1>5. CASE active = {}
  <2>1. p = Request(records, g)
    BY <1>4, <1>5
  <2> QED
    BY <1>1, <1>3, <1>5, <2>1, RequestIs DEF Follows
<1>6. CASE active # {}
  <2>1. /\ request \in active /\ request \in Ids /\ active \in SUBSET attested
        /\ fences # {} => fence \in fences /\ fence \in attested
        /\ fence \in Ids \/ fences = {}
    BY <1>6, OpenIs
  <2>2. CASE ~SameGeneration(request, g)
    <3>1. p = Supersession(records, request)
      BY <1>4, <1>6, <2>2
    <3> HIDE DEF active, request
    <3>2. /\ p \in Record /\ p.type = "fence" /\ p.generation = timeline[request].generation
          /\ p.prior = Newest(records) /\ p.outcome = "superseded"
      BY <1>1, <2>1, <3>1, SupersessionIs
    <3> QED
      BY <1>1, <2>1, <3>2 DEF Follows
  <2>3. CASE SameGeneration(request, g) /\ fences = {}
    <3>1. p = Claim(records, request)
      BY <1>4, <1>6, <2>3
    <3>2. /\ p \in Record /\ p.type = "fence" /\ p.generation = timeline[request].generation
          /\ p.prior = Newest(records) /\ p.phase = "phase-one" /\ p.outcome = "claimed" /\ p.request = request
      <4> HIDE DEF request
      <4> QED
        BY <1>1, <2>1, <3>1, ClaimIs
    <3>3. Follows(p)
      BY <1>6, <2>3, <3>2 DEF Follows
    <3> QED
      BY <1>1, <2>1, <3>2, <3>3
  <2>4. CASE SameGeneration(request, g) /\ fences # {} /\ next # "none"
    <3>1. p = Wire(g, request, fence, next)
      BY <1>4, <1>6, <2>4
    <3>2. timeline[request].generation = g /\ timeline[request].expected \in SUBSET Producers
      BY <2>1, <2>4, RecordOf DEF SameGeneration
    <3>3. next \in Producers
      <4> DEFINE results == OfType(active, "producer")
      <4>1. next = FirstWithout(results, request)
        BY DEF NextProducer
      <4> HIDE DEF results, request, next
      <4> QED
        BY <2>4, <3>2, <4>1, FirstWithoutIs
    <3>4. p \in Record /\ p.type = "producer" /\ p.generation = g /\ p.fence = fence /\ p.producer = next
      <4>1. request \in Nat /\ fence \in Nat
        BY <2>1, <2>4 DEF Ids
      <4> HIDE DEF request, fence, next, g
      <4> QED
        BY <1>3, <3>1, <3>3, <4>1, WireIs
    <3>5. Follows(p)
      BY <1>6, <2>1, <2>4, <3>2, <3>4 DEF Follows
    <3> QED
      BY <1>3, <3>4, <3>5
  <2>5. CASE SameGeneration(request, g) /\ fences # {} /\ next = "none"
    <3>1. p = Transition(records, g, request, fence)
      BY <1>4, <1>6, <2>5
    <3>2. timeline[request].generation = g
      BY <2>5 DEF SameGeneration
    <3>3. /\ p \in Record /\ p.type = "transition" /\ p.generation = g /\ p.prior = Newest(records)
          /\ p.request = request /\ p.fence = fence /\ p.results = OfType(Active(records), "producer")
          /\ p.outcome = "planned" <=> \A i \in p.results : timeline[i].conclusion = "success"
          /\ p.root = NewestCheckpoint(records) /\ p.members = Suffix(records)
          /\ p.sequence = IF p.root = None THEN 1 ELSE timeline[p.root].sequence + 1
      <4>1. request \in Nat /\ fence \in Nat
        BY <2>1, <2>5 DEF Ids
      <4> HIDE DEF request, fence, g
      <4> QED
        BY <1>1, <1>3, <3>1, <4>1, TransitionIs
    <3>4. Earned(p)
      <4>1. p.request = request /\ p.fence = fence /\ p.results = OfType(active, "producer")
            /\ p.generation = timeline[request].generation
        BY <1>1, <3>2, <3>3
      <4> QED
        BY <1>6, <2>5, <3>3, <4>1, TransitionIsEarned
    <3>5. Suffix(attested) # {}
      BY <1>6, ActiveIs
    <3>6. Compacted(p, attested)
      BY <1>1, <3>3, <3>5 DEF Compacted
    <3>7. Follows(p)
      BY <3>3, <3>4, <3>6 DEF Follows
    <3> QED
      BY <1>1, <1>3, <2>1, <3>2, <3>3, <3>7
  <2> QED
    BY <2>2, <2>3, <2>4, <2>5
<1> QED
  BY <1>5, <1>6


-----------------------------------------------------------------------------
(* What stays when nothing becomes attested.                               *)

(* Comments are appended and never change.                                 *)
Grows == Ids \subseteq Ids' /\ \A i \in Ids : timeline'[i] = timeline[i]

(* What is attested looks the same.                                        *)
LEMMA SameLog ==
  ASSUME attested \in SUBSET Ids, attested' = attested, Grows
  PROVE  /\ NewestCheckpoint(attested)' = NewestCheckpoint(attested)
         /\ Live(attested)' = Live(attested) /\ Suffix(attested)' = Suffix(attested)
         /\ Active(attested)' = Active(attested)
         /\ \A c \in attested : IsCheckpoint(c)' = IsCheckpoint(c)
<1>1. \A i \in attested : timeline'[i] = timeline[i]
  BY DEF Grows
<1>2. {i \in attested' : IsCheckpoint(i)'} = {i \in attested : IsCheckpoint(i)}
  BY <1>1 DEF IsCheckpoint
<1>3. NewestCheckpoint(attested)' = NewestCheckpoint(attested)
  BY <1>2 DEF NewestCheckpoint
<1>4. Live(attested)' = Live(attested) /\ Suffix(attested)' = Suffix(attested)
  BY <1>3 DEF Live, Suffix
<1>5. {i \in attested' : IsCheckpoint(i)' \/ Closes(i)'} = {i \in attested : IsCheckpoint(i) \/ Closes(i)}
  BY <1>1 DEF IsCheckpoint, Closes
<1>6. Active(attested)' = Active(attested)
  BY <1>5 DEF Active
<1>7. \A c \in attested : IsCheckpoint(c)' = IsCheckpoint(c)
  BY <1>1 DEF IsCheckpoint
<1> QED
  BY <1>3, <1>4, <1>6, <1>7

(* The same records are as open, as compacted and as earned as before.     *)
LEMMA SameRecords ==
  ASSUME timeline \in Seq(Record), attested \in SUBSET Ids, attested' = attested, Grows
  PROVE  /\ \A active \in SUBSET attested : active # {} /\ Opened(active) => Opened(active)'
         /\ \A r : \A ids \in SUBSET attested : Compacted(r, ids) => Compacted(r, ids)'
         /\ \A r : Earned(r) => Earned(r)'
<1>1. \A i \in attested : timeline'[i] = timeline[i]
  BY DEF Grows
<1>2. ASSUME NEW active \in SUBSET attested, active # {}, Opened(active)
      PROVE  Opened(active)'
  <2> DEFINE request == Min(active)
             fences == OfType(active, "fence")
             results == OfType(active, "producer")
  <2>1. request \in attested
    <3>1. active \in SUBSET Nat /\ active # {}
      BY <1>2 DEF Ids
    <3> QED
      BY <3>1, MinIs
  <2>2. /\ fences \in SUBSET attested /\ fences' = fences
        /\ results \in SUBSET attested /\ results' = results
    BY <1>1 DEF OfType
  <2>7. active \subseteq {request} \cup fences \cup results
    BY <1>2 DEF Opened
  <2>3. /\ timeline'[request].type = "request"
        /\ timeline'[request].expected = Expected(timeline'[request].generation.inputs)
        /\ \A i \in active : timeline'[i].generation = timeline'[request].generation
    BY <1>1, <1>2, <2>1 DEF Opened
  <2>4. /\ \A i, j \in fences : i = j
        /\ \A i \in fences : timeline'[i].outcome = "claimed" /\ timeline'[i].request = request
    BY <1>1, <1>2, <2>2 DEF Opened
  <2>5. /\ \A i \in results : timeline'[i].fence \in fences /\ timeline'[i].producer \in timeline'[request].expected
        /\ \A i, j \in results : i < j =>
             timeline'[i].producer = "issue-contract-current" /\ timeline'[j].producer = "pr-contract"
        /\ results # {} => \E i \in results : timeline'[i].producer = "issue-contract-current"
    BY <1>1, <1>2, <2>1, <2>2 DEF Opened
  <2>6. Opened(active)' <=>
          /\ active \subseteq {request} \cup fences' \cup results'
          /\ timeline'[request].type = "request"
          /\ timeline'[request].expected = Expected(timeline'[request].generation.inputs)
          /\ \A i \in active : timeline'[i].generation = timeline'[request].generation
          /\ \A i, j \in fences' : i = j
          /\ \A i \in fences' : timeline'[i].outcome = "claimed" /\ timeline'[i].request = request
          /\ \A i \in results' : timeline'[i].fence \in fences' /\ timeline'[i].producer \in timeline'[request].expected
          /\ \A i, j \in results' : i < j =>
               timeline'[i].producer = "issue-contract-current" /\ timeline'[j].producer = "pr-contract"
          /\ results' # {} => \E i \in results' : timeline'[i].producer = "issue-contract-current"
    BY DEF Opened
  <2> HIDE DEF request, fences, results
  <2> QED
    BY <2>2, <2>3, <2>4, <2>5, <2>6, <2>7
<1>3. ASSUME NEW r, NEW ids \in SUBSET attested, Compacted(r, ids)
      PROVE  Compacted(r, ids)'
  <2>1. NewestCheckpoint(ids)' = NewestCheckpoint(ids)
    <3>1. {i \in ids : IsCheckpoint(i)}' = {i \in ids : IsCheckpoint(i)}
      BY <1>1 DEF IsCheckpoint
    <3> QED
      BY <3>1 DEF NewestCheckpoint
  <2>2. Suffix(ids)' = Suffix(ids)
    BY <2>1 DEF Suffix
  <2>3. r.root # None => r.root \in attested
    BY <1>3, NewestCheckpointIs DEF Compacted
  <2> QED
    BY <1>1, <1>3, <2>1, <2>2, <2>3 DEF Compacted
<1>4. ASSUME NEW r, Earned(r) PROVE Earned(r)'
  <2>1. {r.request, r.fence} \cup r.results \subseteq attested
    BY <1>4 DEF Earned
  <2>2. {timeline'[j].producer : j \in r.results} = {timeline[j].producer : j \in r.results}
    BY <1>1, <2>1
  <2> QED
    BY <1>1, <1>4, <2>1, <2>2 DEF Earned, Expected
<1> QED
  BY <1>2, <1>3, <1>4

(* What follows what is attested still does.                               *)
LEMMA SameFollowers ==
  ASSUME timeline \in Seq(Record), attested \in SUBSET Ids, attested' = attested, Grows, ActiveInv,
         NEW p, Follows(p)
  PROVE  Follows(p)'
<1> DEFINE active == Active(attested)
           request == Min(active)
           fences == OfType(active, "fence")
           results == OfType(active, "producer")
<1>1. active' = active /\ active \in SUBSET attested
  BY SameLog, ActiveIs
<1>2. \A i \in attested : timeline'[i] = timeline[i]
  BY DEF Grows
<1>3. fences' = fences /\ results' = results
  BY <1>1, <1>2 DEF OfType
<1>4. active # {} => request \in attested
  BY OpenIs
<1>5. request' = request
  BY <1>1
<1>6. active # {} => (NextProducer(attested, request))' = NextProducer(attested, request)
  <2>1. {timeline'[i].producer : i \in results} = {timeline[i].producer : i \in results}
    BY <1>1, <1>2 DEF OfType
  <2> QED
    BY <1>2, <1>3, <1>4, <1>5, <2>1 DEF NextProducer, FirstWithout
<1>7. Earned(p) => Earned(p)'
  BY SameRecords
<1>8. Compacted(p, attested) => Compacted(p, attested)'
  <2>1. NewestCheckpoint(attested)' = NewestCheckpoint(attested) /\ Suffix(attested)' = Suffix(attested)
    BY SameLog
  <2>2. Compacted(p, attested) /\ p.root # None => p.root \in attested
    BY NewestCheckpointIs DEF Compacted
  <2> QED
    BY <1>2, <2>1, <2>2 DEF Compacted
<1>9. CASE p.type = "request" /\ active = {} /\ p.expected = Expected(p.generation.inputs)
  BY <1>1, <1>9 DEF Follows, Expected
<1>10. CASE p.type = "fence" /\ (p.outcome = "superseded" \/ (p.phase = "recovery" /\ p.outcome = "settled"))
  BY <1>10 DEF Follows
<1>11. CASE /\ p.type = "fence" /\ p.phase = "phase-one" /\ p.outcome = "claimed"
            /\ active # {} /\ p.generation = timeline[request].generation
            /\ p.request = request /\ fences = {}
  BY <1>1, <1>2, <1>3, <1>4, <1>5, <1>11 DEF Follows
<1>12. CASE /\ p.type = "producer" /\ active # {} /\ p.generation = timeline[request].generation
            /\ p.fence \in fences
            /\ p.producer = NextProducer(attested, request) /\ p.producer # "none"
  BY <1>1, <1>2, <1>3, <1>4, <1>5, <1>6, <1>12 DEF Follows
<1>13. CASE p.type = "transition" /\ Earned(p) /\ Compacted(p, attested)
  BY <1>7, <1>8, <1>13 DEF Follows
<1> QED
  BY <1>9, <1>10, <1>11, <1>12, <1>13 DEF Follows

(* What is attested is still what it was.                                  *)
LEMMA LogKept ==
  ASSUME timeline \in Seq(Record), attested \in SUBSET Ids, attested' = attested, Grows,
         ChainIsLinear, ActiveInv, CheckpointInv, CheckpointIsEarned
  PROVE  ChainIsLinear' /\ ActiveInv' /\ CheckpointInv' /\ CheckpointIsEarned'
<1>1. \A i \in attested : timeline'[i] = timeline[i]
  BY DEF Grows
<1>2. ChainIsLinear'
  BY <1>1 DEF ChainIsLinear
<1>3. ActiveInv'
  <2>1. Active(attested)' = Active(attested) /\ Active(attested) \in SUBSET attested
    BY SameLog, ActiveIs
  <2>2. Active(attested) # {} => Opened(Active(attested))
    BY DEF ActiveInv
  <2>3. ASSUME NEW active, active = Active(attested), active # {} PROVE Opened(active)'
    BY <2>1, <2>2, <2>3, SameRecords
  <2>4. Active(attested)' # {} => Opened(Active(attested))'
    BY <2>1, <2>3 DEF Opened
  <2> QED
    BY <2>4 DEF ActiveInv
<1>4. CheckpointInv'
  <2>1. ASSUME NEW i \in attested, IsCheckpoint(i)
        PROVE  Compacted(timeline[i], {j \in attested : j < i})'
    <3> DEFINE r == timeline[i]
    <3>1. ASSUME NEW ids, ids = {j \in attested : j < i} PROVE Compacted(r, ids)
      BY <2>1, <3>1 DEF CheckpointInv
    <3>2. ASSUME NEW q, q = r, NEW ids, ids = {j \in attested : j < i} PROVE Compacted(q, ids)'
      BY <3>1, <3>2, SameRecords
    <3> QED
      BY <1>1, <3>2 DEF Compacted
  <2> QED
    BY <1>1, <2>1 DEF CheckpointInv, IsCheckpoint
<1>5. CheckpointIsEarned'
  <2>1. ASSUME NEW i \in attested, IsCheckpoint(i) PROVE Earned(timeline[i])'
    <3>1. ASSUME NEW q, q = timeline[i] PROVE Earned(q)'
      BY <2>1, <3>1, SameRecords DEF CheckpointIsEarned
    <3> QED
      BY <1>1, <3>1 DEF Earned
  <2> QED
    BY <1>1, <2>1 DEF CheckpointIsEarned, IsCheckpoint
<1> QED
  BY <1>2, <1>3, <1>4, <1>5


-----------------------------------------------------------------------------
(* One more attested record.                                               *)

(* A record that follows what is attested may join the open generation, or *)
(* start or close it.                                                      *)
LEMMA OpenedMore ==
  ASSUME timeline \in Seq(Record), attested \in SUBSET Ids, NEW k \in Ids, \A i \in attested : i < k,
         ActiveInv, Follows(timeline[k]), Active(attested \cup {k}) # {}
  PROVE  Opened(Active(attested \cup {k}))
<1> DEFINE active == Active(attested)
           request == Min(active)
           fences == OfType(active, "fence")
           results == OfType(active, "producer")
           p == timeline[k]
           more == active \cup {k}
<1>1. ~IsCheckpoint(k) /\ ~Closes(k) /\ Active(attested \cup {k}) = more
  BY OneMore
<1>2. active \in SUBSET attested /\ k \in Nat /\ attested \in SUBSET Nat /\ more \in SUBSET Nat
  BY ActiveIs DEF Ids
<1>3. p.type # "transition" /\ ~(p.type = "fence" /\ (p.outcome = "superseded" \/ (p.phase = "recovery" /\ p.outcome = "settled")))
  BY <1>1 DEF IsCheckpoint, Closes
<1>4. CASE p.type = "request" /\ active = {} /\ p.expected = Expected(p.generation.inputs)
  <2>1. more = {k} /\ Min(more) = k
    BY <1>2, <1>4, MinIsThe
  <2>2. OfType(more, "fence") = {} /\ OfType(more, "producer") = {}
    BY <1>4, <2>1 DEF OfType
  <2> HIDE DEF more
  <2>3. Opened(more)
    BY <1>4, <2>1, <2>2 DEF Opened
  <2> QED
    BY <1>1, <2>3
<1>5. ASSUME active # {}
      PROVE  /\ request \in active /\ Min(more) = request /\ Opened(active) /\ request \in Ids
             /\ fences \in SUBSET active /\ results \in SUBSET active
             /\ \A i \in active : i < k
             /\ "issue-contract-current" \in timeline[request].expected
  <2>1. /\ request \in active /\ Opened(active) /\ request \in Ids /\ \A i \in active : request <= i
        /\ fences \in SUBSET active /\ results \in SUBSET active
    BY <1>5, OpenIs
  <2>2. \A i \in active : i < k
    BY <1>2
  <2>3. request \in more /\ \A i \in more : request <= i
    BY <1>2, <2>1, <2>2
  <2>4. Min(more) = request
    <3> HIDE DEF more, request
    <3> QED
      BY <1>2, <2>3, MinIsThe
  <2>5. "issue-contract-current" \in timeline[request].expected
    BY <2>1 DEF Opened, Expected
  <2> QED
    BY <2>1, <2>2, <2>4, <2>5
<1>6. CASE /\ p.type = "fence" /\ p.phase = "phase-one" /\ p.outcome = "claimed"
           /\ active # {} /\ p.generation = timeline[request].generation
           /\ p.request = request /\ fences = {}
  <2>1. /\ request \in active /\ Min(more) = request /\ Opened(active)
    BY <1>5, <1>6
  <2>2. OfType(more, "fence") = {k} /\ OfType(more, "producer") = results
    BY <1>6 DEF OfType
  <2>3. results = {}
    BY <1>6, <2>1 DEF Opened
  <2>4. \A i \in more : timeline[i].generation = timeline[request].generation
    BY <1>6, <2>1 DEF Opened
  <2>5. /\ timeline[request].type = "request"
        /\ timeline[request].expected = Expected(timeline[request].generation.inputs)
        /\ more \subseteq {request} \cup {k} \cup results
    BY <1>6, <2>1 DEF Opened
  <2> HIDE DEF more, results, request
  <2>6. Opened(more)
    BY <1>6, <2>1, <2>2, <2>3, <2>4, <2>5 DEF Opened
  <2> QED
    BY <1>1, <2>6
<1>7. CASE /\ p.type = "producer" /\ active # {} /\ p.generation = timeline[request].generation
           /\ p.fence \in fences
           /\ p.producer = NextProducer(attested, request) /\ p.producer # "none"
  <2>1. /\ request \in active /\ Min(more) = request /\ Opened(active) /\ request \in Ids
        /\ results \in SUBSET active /\ \A i \in active : i < k
        /\ "issue-contract-current" \in timeline[request].expected
    BY <1>5, <1>7
  <2>2. OfType(more, "fence") = fences /\ OfType(more, "producer") = results \cup {k}
    BY <1>7 DEF OfType
  <2>3. \A i \in more : timeline[i].generation = timeline[request].generation
    BY <1>7, <2>1 DEF Opened
  <2>4. /\ timeline[request].type = "request"
        /\ timeline[request].expected = Expected(timeline[request].generation.inputs)
        /\ \A i, j \in fences : i = j
        /\ \A i \in fences : timeline[i].outcome = "claimed" /\ timeline[i].request = request
        /\ \A i \in results : timeline[i].fence \in fences /\ timeline[i].producer \in timeline[request].expected
        /\ \A i, j \in results : i < j =>
             timeline[i].producer = "issue-contract-current" /\ timeline[j].producer = "pr-contract"
        /\ results # {} => \E i \in results : timeline[i].producer = "issue-contract-current"
        /\ more \subseteq {request} \cup fences \cup (results \cup {k})
    BY <2>1 DEF Opened
  <2> DEFINE produced == {timeline[i].producer : i \in results}
  <2>5. /\ p.producer \in timeline[request].expected /\ p.producer \notin produced
        /\ p.producer = "pr-contract" => "issue-contract-current" \in produced
        /\ timeline[request].expected \in SUBSET Producers
    <3>1. p.producer = FirstWithout(results, request)
      BY <1>7 DEF NextProducer
    <3>2. timeline[request].expected \in SUBSET Producers
      BY <2>1, RecordOf
    <3> HIDE DEF results, request, p
    <3> QED
      BY <1>7, <2>1, <3>1, <3>2, FirstWithoutIs
  <2>6. p.producer \in Producers /\ \A i \in results : timeline[i].producer \in Producers
    BY <2>4, <2>5
  <2>7. p.producer = "issue-contract-current" => results = {}
    BY <2>4, <2>5
  <2>8. p.producer = "pr-contract" => \A i \in results : timeline[i].producer = "issue-contract-current"
    BY <2>5, <2>6 DEF Producers
  <2>9. \A i, j \in results \cup {k} : i < j =>
          timeline[i].producer = "issue-contract-current" /\ timeline[j].producer = "pr-contract"
    <3>1. \A i \in results : i < k /\ ~(k < i)
      BY <1>2, <2>1
    <3>2. ~(k < k)
      BY <1>2
    <3> QED
      BY <2>4, <2>6, <2>7, <2>8, <3>1, <3>2 DEF Producers
  <2>10. \E i \in results \cup {k} : timeline[i].producer = "issue-contract-current"
    BY <2>5, <2>6 DEF Producers
  <2>11. \A i \in results \cup {k} : timeline[i].fence \in fences /\ timeline[i].producer \in timeline[request].expected
    BY <1>7, <2>4, <2>5
  <2> HIDE DEF more, results, request, fences
  <2>12. Opened(more)
    BY <2>1, <2>2, <2>3, <2>4, <2>9, <2>10, <2>11 DEF Opened
  <2> QED
    BY <1>1, <2>12
<1> QED
  BY <1>3, <1>4, <1>6, <1>7 DEF Follows


(* What is attested after one more record is as sound as before.           *)
LEMMA AttestedMore ==
  ASSUME timeline \in Seq(Record), attested \in SUBSET Ids, NEW k \in Ids, \A i \in attested : i < k,
         ChainIsLinear, ActiveInv, CheckpointInv, CheckpointIsEarned,
         Follows(timeline[k]), timeline[k].prior = Newest(attested),
         timeline' = timeline, attested' = attested \cup {k}
  PROVE  ChainIsLinear' /\ ActiveInv' /\ CheckpointInv' /\ CheckpointIsEarned'
<1> DEFINE more == attested \cup {k}
<1>1. /\ {j \in more : j < k} = attested
      /\ \A i \in attested : {j \in more : j < i} = {j \in attested : j < i}
  BY OneMore
<1>2. ChainIsLinear'
  <2>1. \A i \in more : timeline[i].prior = Newest({j \in more : j < i})
    BY <1>1 DEF ChainIsLinear
  <2> QED
    BY <2>1 DEF ChainIsLinear
<1>3. ActiveInv'
  <2>1. Active(attested)' = Active(more)
    <3>1. {i \in attested' : IsCheckpoint(i)' \/ Closes(i)'} = {i \in more : IsCheckpoint(i) \/ Closes(i)}
      BY DEF IsCheckpoint, Closes
    <3> QED
      BY <3>1 DEF Active
  <2>2. Active(more) # {} => Opened(Active(more))
    BY OpenedMore
  <2>3. ASSUME NEW active, active = Active(more), active # {} PROVE Opened(active)'
    <3>1. Opened(active)
      BY <2>2, <2>3
    <3>2. OfType(active, "fence")' = OfType(active, "fence") /\ OfType(active, "producer")' = OfType(active, "producer")
      BY DEF OfType
    <3> QED
      BY <3>1, <3>2 DEF Opened
  <2>4. Active(attested)' # {} => Opened(Active(attested))'
    BY <2>1, <2>3 DEF Opened
  <2> QED
    BY <2>4 DEF ActiveInv
<1>4. CheckpointInv'
  <2>1. ASSUME NEW i \in more, IsCheckpoint(i)
        PROVE  Compacted(timeline[i], {j \in more : j < i})
    <3>1. CASE i = k
      <4>1. Compacted(timeline[k], attested)
        BY <2>1, <3>1 DEF Follows, IsCheckpoint
      <4> QED
        BY <1>1, <3>1, <4>1
    <3>2. CASE i \in attested
      BY <1>1, <2>1, <3>2 DEF CheckpointInv
    <3> QED
      BY <3>1, <3>2
  <2>2. ASSUME NEW r, NEW ids, Compacted(r, ids) PROVE Compacted(r, ids)'
    <3>1. {i \in ids : IsCheckpoint(i)}' = {i \in ids : IsCheckpoint(i)}
      BY DEF IsCheckpoint
    <3>2. NewestCheckpoint(ids)' = NewestCheckpoint(ids)
      BY <3>1 DEF NewestCheckpoint
    <3>3. Suffix(ids)' = Suffix(ids)
      BY <3>2 DEF Suffix
    <3> QED
      BY <2>2, <3>2, <3>3 DEF Compacted
  <2>3. ASSUME NEW i \in more, IsCheckpoint(i)
        PROVE  Compacted(timeline[i], {j \in more : j < i})'
    <3>1. ASSUME NEW q, q = timeline[i], NEW ids, ids = {j \in more : j < i} PROVE Compacted(q, ids)'
      BY <2>1, <2>2, <2>3, <3>1
    <3> QED
      BY <3>1 DEF Compacted
  <2>4. ASSUME NEW i \in more, IsCheckpoint(i)
        PROVE  Compacted(timeline[i], {j \in attested : j < i})'
    <3>1. {j \in more : j < i}' = {j \in attested : j < i}'
      OBVIOUS
    <3> QED
      BY <2>3, <2>4, <3>1 DEF Compacted
  <2> QED
    BY <2>4 DEF CheckpointInv, IsCheckpoint
<1>5. CheckpointIsEarned'
  <2>1. ASSUME NEW i \in more, IsCheckpoint(i) PROVE Earned(timeline[i])
    <3>1. CASE i = k
      BY <2>1, <3>1 DEF Follows, IsCheckpoint
    <3>2. CASE i \in attested
      BY <2>1, <3>2 DEF CheckpointIsEarned
    <3> QED
      BY <3>1, <3>2
  <2>2. ASSUME NEW r, Earned(r) PROVE Earned(r)'
    BY <2>2 DEF Earned
  <2>3. ASSUME NEW i \in more, IsCheckpoint(i) PROVE Earned(timeline[i])'
    <3>1. ASSUME NEW q, q = timeline[i] PROVE Earned(q)'
      BY <2>1, <2>2, <2>3, <3>1
    <3> QED
      BY <3>1 DEF Earned
  <2> QED
    BY <2>3 DEF CheckpointIsEarned, IsCheckpoint
<1> QED
  BY <1>2, <1>3, <1>4, <1>5

-----------------------------------------------------------------------------
(* What the inputs of a generation tell.                                   *)

(* The facts, the bounds and the run have their types.                     *)
LEMMA TypeFacts ==
  ASSUME TypeOK
  PROVE  /\ facts.body \in {0, 1} /\ facts.accepted \in Readiness /\ facts.accepted.at \in Nat
         /\ facts.rev \in Nat /\ facts.pull \in 0 .. 2
         /\ spent.changes \in Nat /\ spent.faults \in Nat /\ spent.deletions \in Nat
         /\ timeline \in Seq(Record) /\ Len(timeline) \in Nat /\ Ids = 1 .. Len(timeline)
         /\ attested \in SUBSET Ids
         /\ run.seen \in Readiness /\ run.seen.at \in Nat /\ run.plan \in Record /\ run.records \in SUBSET Nat
         /\ run.ignored \in Nat
         /\ run.plan.generation \in Generations /\ run.plan.generation.inputs \in InputSet
<1>1. run.plan \in Record /\ run.seen \in Readiness /\ run.records \in SUBSET Nat /\ run.ignored \in Nat
  BY DEF TypeOK, Run
<1>2. run.plan.generation \in Generations
  BY <1>1 DEF Record, Generations
<1>3. /\ facts.body \in {0, 1} /\ facts.accepted \in Readiness
      /\ facts.rev \in Nat /\ facts.pull \in 0 .. 2
      /\ spent.changes \in Nat /\ spent.faults \in Nat /\ spent.deletions \in Nat
      /\ timeline \in Seq(Record) /\ attested \in SUBSET Ids
  BY DEF TypeOK
<1>4. timeline \in Seq(Record) => Len(timeline) \in Nat /\ Ids = 1 .. Len(timeline)
  BY DEF Ids
<1> QED
  BY <1>1, <1>2, <1>3, <1>4 DEF Readiness, Generations

(* Inputs that are accepted carry the time of the readiness, others the    *)
(* provider's.                                                             *)
LEMMA InputsAre ==
  ASSUME TypeOK, NEW f, f \in [body : {0, 1}, accepted : Readiness, rev : Nat, pull : 0 .. 2],
         NEW seen \in Readiness
  PROVE  LET inputs == Inputs(f, seen) IN
         /\ inputs \in InputSet
         /\ inputs.updated.by = "readiness" <=> Accepted(f, seen)
         /\ inputs.updated.by = "readiness" => inputs.updated = [by |-> "readiness", at |-> seen.at] /\ seen.at # 0
         /\ inputs.updated.by = "provider" => inputs.updated.at = Len(timeline) + spent.changes
         /\ inputs.updated.by \in {"readiness", "provider"}
<1>1. spent.changes \in Nat /\ Len(timeline) \in Nat /\ seen.at \in Nat /\ f.rev \in Nat
  BY TypeFacts DEF Readiness
<1>2. CASE Accepted(f, seen)
  BY <1>1, <1>2 DEF Inputs, InputSet, Accepted
<1>3. CASE ~Accepted(f, seen)
  BY <1>1, <1>3 DEF Inputs, InputSet
<1> QED
  BY <1>2, <1>3


(* The inputs that a run forms, and those that it finds in the log again.  *)
LEMMA FormedInputs ==
  ASSUME TypeOK, TruthInv, run.phase = "facts",
         NEW inputs, inputs = Inputs(facts, run.seen)
  PROVE  /\ inputs \in InputSet /\ Doubtful(inputs) /\ Elapsed(inputs, Len(timeline) + spent.changes)
         /\ \A i \in Ids : timeline[i].generation.inputs = inputs => inputs \in been
<1>1. /\ inputs \in InputSet
      /\ inputs.updated.by = "readiness" <=> Accepted(facts, run.seen)
      /\ inputs.updated.by = "readiness" =>
           inputs.updated = [by |-> "readiness", at |-> run.seen.at] /\ run.seen.at # 0
      /\ inputs.updated.by = "provider" => inputs.updated.at = Len(timeline) + spent.changes
      /\ inputs.updated.by \in {"readiness", "provider"}
  <2>1. facts \in [body : {0, 1}, accepted : Readiness, rev : Nat, pull : 0 .. 2] /\ run.seen \in Readiness
    BY TypeFacts DEF TypeOK
  <2> QED
    BY <2>1, InputsAre
<1>2. /\ run.seen.at <= spent.changes + 1
      /\ run.seen.at # 0 /\ run.seen.at = facts.accepted.at => run.seen = facts.accepted
      /\ Accepted(facts, facts.accepted) => Inputs(facts, facts.accepted) \in been
  BY DEF TruthInv, Reading
<1>3. /\ run.seen.at \in Nat /\ spent.changes \in Nat /\ Len(timeline) \in Nat
  BY TypeFacts
<1>4. Doubtful(inputs)
  <2> SUFFICES ASSUME inputs.updated.by = "readiness"
               PROVE  /\ inputs.updated.at \in 1 .. spent.changes + 1
                      /\ inputs \in been \/ facts.accepted.at # inputs.updated.at
    BY DEF Doubtful
  <2>1. inputs.updated.at = run.seen.at /\ run.seen.at # 0 /\ Accepted(facts, run.seen)
    BY <1>1
  <2>2. run.seen.at \in 1 .. spent.changes + 1
    BY <1>2, <1>3, <2>1
  <2>3. facts.accepted.at = run.seen.at => inputs \in been
    BY <1>2, <2>1
  <2> QED
    BY <2>1, <2>2, <2>3
<1>5. Elapsed(inputs, Len(timeline) + spent.changes)
  BY <1>1, <1>3 DEF Elapsed
<1>6. ASSUME NEW i \in Ids, timeline[i].generation.inputs = inputs PROVE inputs \in been
  <2>1. /\ Elapsed(inputs, Len(timeline) + spent.changes - 1)
        /\ inputs.updated = [by |-> "readiness", at |-> run.seen.at] => inputs \in been
    BY <1>6 DEF TruthInv
  <2>2. inputs.updated.by # "provider"
    BY <1>1, <1>3, <2>1 DEF Elapsed
  <2> QED
    BY <1>1, <2>1, <2>2
<1> QED
  BY <1>1, <1>4, <1>5, <1>6

(* A step of the run changes nothing of this but what the run itself saw   *)
(* and plans.                                                              *)
LEMMA TruthKept ==
  ASSUME TypeOK, TruthInv, UNCHANGED <<facts, timeline, been>>, spent'.changes = spent.changes,
         run'.phase \in Reading =>
           run'.seen = facts.accepted \/ (run.phase \in Reading /\ run'.seen = run.seen),
         run'.phase = "facts" =>
           run'.seen = facts.accepted \/ (run.phase = "facts" /\ run'.seen = run.seen),
         run'.phase \in Planned =>
           LET inputs == run'.plan.generation.inputs IN
           /\ Doubtful(inputs) /\ Elapsed(inputs, Len(timeline) + spent.changes)
           /\ run'.plan.type = "transition" => inputs \in been
  PROVE  TruthInv'
<1>1. /\ facts.accepted.at <= spent.changes + 1
      /\ Accepted(facts, facts.accepted) => Inputs(facts, facts.accepted) \in been
  BY DEF TruthInv
<1>2. (Accepted(facts, facts.accepted) => Inputs(facts, facts.accepted) \in been)'
  BY <1>1 DEF Accepted, Inputs
<1>3. \A inputs : Doubtful(inputs) => Doubtful(inputs)'
  BY DEF Doubtful
<1>4. run'.phase \in Reading =>
        /\ run'.seen.at <= spent.changes + 1
        /\ run'.seen.at # 0 /\ run'.seen.at = facts.accepted.at => run'.seen = facts.accepted
  BY <1>1 DEF TruthInv
<1>5. ASSUME NEW i \in Ids, NEW inputs, inputs = timeline[i].generation.inputs
      PROVE  /\ Doubtful(inputs)' /\ Elapsed(inputs, Len(timeline) + spent.changes - 1)
             /\ run'.phase = "facts" /\ inputs.updated = [by |-> "readiness", at |-> run'.seen.at]
                  => inputs \in been
             /\ IsCheckpoint(i) => inputs \in been
  <2>1. /\ Doubtful(inputs) /\ Elapsed(inputs, Len(timeline) + spent.changes - 1)
        /\ run.phase = "facts" /\ inputs.updated = [by |-> "readiness", at |-> run.seen.at]
             => inputs \in been
        /\ IsCheckpoint(i) => inputs \in been
    BY <1>5 DEF TruthInv
  <2>2. ASSUME run'.phase = "facts", inputs.updated = [by |-> "readiness", at |-> run'.seen.at]
        PROVE  inputs \in been
    <3>1. CASE run'.seen = facts.accepted
      <4>1. inputs.updated.by = "readiness" /\ inputs.updated.at = facts.accepted.at
        BY <2>2, <3>1
      <4> QED
        BY <2>1, <4>1 DEF Doubtful
    <3>2. CASE run.phase = "facts" /\ run'.seen = run.seen
      BY <2>1, <2>2, <3>2
    <3> QED
      BY <2>2, <3>1, <3>2
  <2> QED
    BY <1>3, <2>1, <2>2
<1>6. \A i \in Ids :
        LET inputs == timeline[i].generation.inputs IN
        /\ Doubtful(inputs)' /\ Elapsed(inputs, Len(timeline) + spent.changes - 1)
        /\ run'.phase = "facts" /\ inputs.updated = [by |-> "readiness", at |-> run'.seen.at]
             => inputs \in been
        /\ IsCheckpoint(i) => inputs \in been
  BY <1>5
<1> QED
  BY <1>1, <1>2, <1>3, <1>4, <1>6 DEF TruthInv, Doubtful, Elapsed, IsCheckpoint, Ids


-----------------------------------------------------------------------------
(* The steps of a run that publish nothing.                                *)

(* The records that the run relies on, when the log does not change.       *)
LEMMA QuietLog ==
  ASSUME RecordsInv, UNCHANGED <<timeline, attested>>
  PROVE  /\ ChainIsLinear' /\ ActiveInv' /\ CheckpointInv' /\ CheckpointIsEarned'
         /\ Live(attested)' = Live(attested) /\ Suffix(attested)' = Suffix(attested)
         /\ \A p : Follows(p) => Follows(p)'
<1>1. timeline \in Seq(Record) /\ attested \in SUBSET Ids
  BY TypeFacts DEF RecordsInv
<1>2. Grows
  BY DEF Grows, Ids
<1>3. ChainIsLinear /\ ActiveInv /\ CheckpointInv /\ CheckpointIsEarned
  BY DEF RecordsInv
<1>4. ChainIsLinear' /\ ActiveInv' /\ CheckpointInv' /\ CheckpointIsEarned'
  BY <1>1, <1>2, <1>3, LogKept
<1>5. Live(attested)' = Live(attested) /\ Suffix(attested)' = Suffix(attested)
  BY <1>1, <1>2, SameLog
<1>6. \A p : Follows(p) => Follows(p)'
  BY <1>1, <1>2, <1>3, SameFollowers
<1> QED
  BY <1>4, <1>5, <1>6

(* A run that stops reading.                                               *)
LEMMA Aside ==
  ASSUME RecordsInv,
         UNCHANGED <<facts, timeline, removed, anchored, attested, commands, been>>,
         spent' \in [changes : Nat, faults : Nat, deletions : Nat], spent'.changes = spent.changes,
         run' \in Run, run'.phase \in {"idle", "orphan", "history", "refused"},
         run'.posted = None \/ (run'.phase = "refused" /\ run'.posted = run.posted),
         run'.posted \in {None} \cup attested,
         failed' \subseteq Ids \ {run'.posted},
         run'.phase = "orphan" => run'.command \in DOMAIN commands,
         run'.ignored \in {None} \cup Ids, run'.settling => run'.ignored # None
  PROVE  RecordsInv'
<1>1. TypeOK'
  <2>1. TypeOK
    BY DEF RecordsInv
  <2>2. run'.posted \in {None, Len(timeline)}
    BY <2>1 DEF TypeOK
  <2> QED
    BY <2>1, <2>2 DEF TypeOK, Ids
<1>2. PlaceInv'
  BY DEF PlaceInv, Reading
<1>3. CommandInv'
  BY DEF RecordsInv, CommandInv, Ids
<1>4. ChainIsLinear' /\ ActiveInv' /\ CheckpointInv' /\ CheckpointIsEarned'
  BY QuietLog
<1>5. PlanInv'
  BY DEF PlanInv, Planned, Publishing
<1>6. TruthInv'
  <2>1. TypeOK /\ TruthInv
    BY DEF RecordsInv
  <2>2. run'.phase \notin Reading /\ run'.phase # "facts" /\ run'.phase \notin Planned
    BY DEF Reading, Planned
  <2> QED
    BY <2>1, <2>2, TruthKept
<1> QED
  BY <1>1, <1>2, <1>3, <1>4, <1>5, <1>6 DEF RecordsInv

(* A run that goes on after a read.                                        *)
LEMMA Onward ==
  ASSUME RecordsInv, UNCHANGED <<facts, log, commands, been, spent>>,
         run' \in Run, run'.phase \in {"facts", "producer", "evaluate", "post"},
         run'.posted = None,
         run'.records = Live(attested), Cardinality(Suffix(attested)) <= LiveLimit,
         run'.phase \in Planned => Follows(run'.plan),
         run'.phase \in Publishing => run'.plan.prior = Newest(attested),
         run'.seen = facts.accepted \/ (run.phase \in Reading /\ run'.phase # "facts" /\ run'.seen = run.seen),
         run'.phase \in Planned =>
           LET inputs == run'.plan.generation.inputs IN
           /\ Doubtful(inputs) /\ Elapsed(inputs, Len(timeline) + spent.changes)
           /\ run'.plan.type = "transition" => inputs \in been,
         run'.ignored = run.ignored, run'.settling => run'.ignored # None
  PROVE  RecordsInv'
<1>1. TypeOK'
  <2>1. TypeOK /\ UNCHANGED <<timeline, removed, anchored, attested, failed>>
    BY DEF RecordsInv, log
  <2>2. failed' \subseteq Ids' \ {run'.posted}
    BY <2>1 DEF TypeOK, Ids, None
  <2> QED
    BY <2>1, <2>2 DEF TypeOK, Ids
<1>2. UNCHANGED <<timeline, attested>>
  BY DEF log
<1>3. /\ ChainIsLinear' /\ ActiveInv' /\ CheckpointInv' /\ CheckpointIsEarned'
      /\ Live(attested)' = Live(attested) /\ Suffix(attested)' = Suffix(attested)
      /\ \A p : Follows(p) => Follows(p)'
  BY <1>2, QuietLog
<1>4. PlaceInv'
  BY <1>3 DEF PlaceInv, Reading
<1>5. CommandInv'
  BY DEF RecordsInv, CommandInv, Ids, log
<1>6. PlanInv'
  <2>1. ASSUME NEW p, p = run'.plan, run'.phase \in Planned PROVE Follows(p)'
    BY <1>3, <2>1
  <2>2. run'.phase \in Planned => Follows(run.plan)'
    BY <2>1 DEF Follows
  <2> QED
    BY <1>2, <2>2 DEF PlanInv
<1>7. TruthInv'
  <2>1. TypeOK /\ TruthInv
    BY DEF RecordsInv
  <2>2. UNCHANGED <<facts, timeline, been>> /\ spent'.changes = spent.changes
    BY DEF log
  <2> QED
    BY <2>1, <2>2, TruthKept
<1> QED
  BY <1>1, <1>3, <1>4, <1>5, <1>6, <1>7 DEF RecordsInv


(* An idle run is a run.                                                   *)
LEMMA IdleIs ==
  /\ Idle \in Run /\ Idle.phase = "idle"
  /\ Idle.posted = None /\ Idle.ignored = None /\ Idle.settling = FALSE
<1>1. Blank \in Record
  BY BlankIs
<1>2. [body |-> 0, at |-> 0] \in Readiness
  BY DEF Readiness
<1> QED
  BY <1>1, <1>2 DEF Idle, Run, None

(* Only the comment that a run posted counts as its failure.               *)
LEMMA ToIdle ==
  ASSUME RecordsInv, run' = Idle,
         UNCHANGED <<facts, timeline, removed, anchored, attested, commands, been>>,
         spent' \in [changes : Nat, faults : Nat, deletions : Nat], spent'.changes = spent.changes,
         failed' = failed \/ failed' = failed \cup ({run.posted} \ {None})
  PROVE  RecordsInv'
<1>1. /\ run' \in Run /\ run'.phase = "idle" /\ run'.posted = None
      /\ run'.ignored = None /\ ~run'.settling
  BY IdleIs
<1>2. /\ run.posted \in {None, Len(timeline)} /\ Ids = 1 .. Len(timeline) /\ Len(timeline) \in Nat
      /\ failed \subseteq Ids
  BY TypeFacts DEF RecordsInv, TypeOK
<1>3. failed' \subseteq Ids \ {run'.posted}
  <2>1. run.posted # None => run.posted \in Ids
    BY <1>2 DEF None
  <2>2. failed' \subseteq Ids
    BY <1>2, <2>1
  <2>3. \A i \in Ids : i # None
    BY <1>2 DEF None
  <2> QED
    BY <1>1, <2>2, <2>3
<1> QED
  BY <1>1, <1>3, Aside

(* A run that refuses.                                                     *)
LEMMA ToRefused ==
  ASSUME RecordsInv, UNCHANGED <<facts, log, commands, been, spent>>, run.phase \notin {"anchor", "attest"},
         NEW reason \in {"orphan", "history", "predecessor", "pull requests", "attempt", "stale", "verification"},
         Refuse(reason)
  PROVE  RecordsInv'
<1>1. run \in Run /\ TypeOK /\ PlaceInv
  BY DEF RecordsInv, TypeOK
<1>2. /\ run' = [run EXCEPT !.phase = "refused", !.reason = reason]
      /\ UNCHANGED <<facts, timeline, removed, anchored, attested, failed, commands, been, spent>>
  BY DEF Refuse, log
<1>3. /\ run' \in Run /\ run'.phase = "refused" /\ run'.posted = run.posted
      /\ run'.ignored = run.ignored /\ run'.settling = run.settling
  BY <1>1, <1>2 DEF Run
<1>4. run.posted \in {None} \cup attested
  BY <1>1 DEF PlaceInv, Run
<1>5. run.ignored \in {None} \cup Ids /\ (run.settling => run.ignored # None)
  BY DEF RecordsInv, CommandInv
<1>6. failed' \subseteq Ids \ {run'.posted} /\ spent' \in [changes : Nat, faults : Nat, deletions : Nat]
  BY <1>1, <1>2, <1>3 DEF TypeOK
<1> QED
  BY <1>2, <1>3, <1>4, <1>5, <1>6, Aside

(* A wake-up finds a command that is there, or none.                       *)
LEMMA WakeStep ==
  ASSUME RecordsInv, NEW k \in {0} \cup Eligible, Wake(k)
  PROVE  RecordsInv'
<1> DEFINE found == IF k # 0 THEN k ELSE IF Eligible = {} THEN 0 ELSE Min(Eligible)
<1>1. TypeOK /\ commands \in Seq(Nat) /\ Eligible \in SUBSET Nat /\ Eligible \in SUBSET DOMAIN commands
  BY DEF RecordsInv, TypeOK, Eligible
<1>2. found \in Nat /\ (found # 0 => found \in DOMAIN commands)
  <2>1. Eligible # {} => Min(Eligible) \in Eligible
    BY <1>1, MinIs
  <2> QED
    BY <1>1, <2>1
<1>3. /\ run' = [Idle EXCEPT !.command = found, !.direct = (k # 0),
                             !.phase = IF found = 0 THEN "history" ELSE "orphan"]
      /\ UNCHANGED <<facts, timeline, removed, anchored, attested, failed, commands, been, spent>>
  BY DEF Wake, log
<1> HIDE DEF found
<1>4. /\ run' \in Run /\ run'.command = found /\ run'.posted = None
      /\ run'.ignored = None /\ ~run'.settling
      /\ run'.phase = IF found = 0 THEN "history" ELSE "orphan"
  <2>1. ASSUME NEW d \in BOOLEAN, d = (k # 0), NEW p \in {"history", "orphan"},
               p = IF found = 0 THEN "history" ELSE "orphan"
        PROVE  /\ run' \in Run /\ run'.command = found /\ run'.posted = None /\ run'.phase = p
               /\ run'.ignored = None /\ ~run'.settling
    <3>1. run' = [Idle EXCEPT !.command = found, !.direct = d, !.phase = p]
      BY <1>3, <2>1
    <3> DEFINE b == Idle
    <3>2. /\ b \in Run /\ b.posted = None /\ b.ignored = None /\ ~b.settling
          /\ run' = [b EXCEPT !.command = found, !.direct = d, !.phase = p]
      BY <3>1, IdleIs
    <3> HIDE DEF b
    <3> QED
      BY <1>2, <3>2 DEF Run
  <2> QED
    BY <2>1
<1>5. failed' \subseteq Ids \ {run'.posted} /\ spent' \in [changes : Nat, faults : Nat, deletions : Nat]
  BY <1>1, <1>3, <1>4 DEF TypeOK, Ids, None
<1> QED
  BY <1>2, <1>3, <1>4, <1>5, Aside

(* Reading the orphan that a command names.                                *)
LEMMA ReadOrphanStep ==
  ASSUME RecordsInv, ReadOrphan
  PROVE  RecordsInv'
<1>1. TypeOK /\ PlaceInv /\ run \in Run /\ run.phase = "orphan" /\ commands \in Seq(Nat)
      /\ run.command \in DOMAIN commands /\ run.posted = None
  BY DEF RecordsInv, TypeOK, PlaceInv, ReadOrphan
<1>2. UNCHANGED <<facts, log, commands, been, spent>>
  BY DEF ReadOrphan
<1>3. CASE ~Orphaned(Commanded)
  <2>1. Refuse("orphan")
    BY <1>3 DEF ReadOrphan
  <2> QED
    BY <1>1, <1>2, <2>1, ToRefused
<1>4. CASE Orphaned(Commanded)
  <2> DEFINE o == Commanded
             a == Abandoned(o)
  <2>1. run' = [run EXCEPT !.phase = "history", !.ignored = o, !.orphanFailed = a]
    BY <1>4 DEF ReadOrphan
  <2>2. o \in Nat /\ a \in BOOLEAN /\ o \in Ids /\ o # None
    BY <1>1, <1>4 DEF Commanded, Abandoned, Orphaned, RecordsInv, CommandInv
  <2> HIDE DEF o, a
  <2>3. run' \in Run /\ run'.phase = "history" /\ run'.posted = None /\ run'.ignored = o
    BY <1>1, <2>1, <2>2 DEF Run
  <2>4. UNCHANGED <<facts, timeline, removed, anchored, attested, failed, commands, been, spent>>
    BY <1>2 DEF log
  <2>5. failed' \subseteq Ids \ {run'.posted} /\ spent' \in [changes : Nat, faults : Nat, deletions : Nat]
    BY <1>1, <2>3, <2>4 DEF TypeOK, Ids, None
  <2> QED
    BY <2>2, <2>3, <2>4, <2>5, Aside
<1> QED
  BY <1>3, <1>4


(* A readable history shows what is attested and alive, within the limit.  *)
LEMMA ReadableShows ==
  ASSUME TypeOK, NEW o, Readable(o)
  PROVE  History(o) = Live(attested) /\ Cardinality(Suffix(attested)) <= LiveLimit
<1> DEFINE marked == Marked(o)
           ids == Live(marked)
           c == NewestCheckpoint(marked)
<1>1. timeline \in Seq(Record) /\ marked \in SUBSET Ids /\ attested \in SUBSET Ids
  BY TypeFacts DEF Marked, Ids
<1>2. /\ ids \in SUBSET marked /\ NewestCheckpoint(ids) = c /\ ids \ {c} = Suffix(marked)
  <2> HIDE DEF marked
  <2> QED
    BY <1>1, LiveIs
<1>3. attested \in SUBSET marked
  BY DEF Readable, Reconciled, TypeOK
<1>4. ids \in SUBSET attested /\ Cardinality(ids \ {c}) <= LiveLimit
  BY <1>2 DEF Readable, Authenticated, Witnessed, HasAttestation
<1>5. /\ c \in marked \cup {None} /\ c \in 0 .. Len(timeline)
      /\ c # None => c \in marked /\ IsCheckpoint(c)
      /\ \A i \in marked : IsCheckpoint(i) => i <= c
  <2> HIDE DEF marked
  <2> QED
    BY <1>1, NewestCheckpointIs
<1>6. ids = {i \in marked : i >= c}
  BY DEF Live
<1>7. c \in attested \cup {None}
  <2>1. CASE c # None
    <3>1. c \in ids
      BY <1>5, <1>6, <2>1
    <3> QED
      BY <1>4, <3>1
  <2> QED
    BY <1>5, <2>1
<1>8. NewestCheckpoint(attested) = c
  <2>1. \A i \in attested : IsCheckpoint(i) => i <= c
    BY <1>3, <1>5
  <2> HIDE DEF c
  <2> QED
    BY <1>1, <1>5, <1>7, <2>1, NewestCheckpointIsThe
<1>9. Live(attested) = ids
  <2>1. Live(attested) = {i \in attested : i >= c}
    BY <1>8 DEF Live
  <2> HIDE DEF c, marked, ids
  <2> QED
    BY <1>3, <1>4, <1>6, <2>1
<1>10. Suffix(attested) = ids \ {c}
  <2>1. Live(attested) \ {NewestCheckpoint(attested)} = Suffix(attested)
    BY <1>1, LiveIs
  <2> QED
    BY <1>8, <1>9, <2>1
<1> QED
  BY <1>4, <1>9, <1>10 DEF History

(* The coordinator reads the log.                                          *)
LEMMA ReadHistoryStep ==
  ASSUME RecordsInv, ReadHistory
  PROVE  RecordsInv'
<1> DEFINE o == run.ignored
<1>1. TypeOK /\ PlaceInv /\ run \in Run /\ run.phase = "history" /\ run.posted = None
  BY DEF RecordsInv, TypeOK, PlaceInv, ReadHistory
<1>2. UNCHANGED <<facts, log, commands, been, spent>>
  BY DEF ReadHistory
<1>3. run.settling => o # None
  BY DEF RecordsInv, CommandInv
<1>4. ASSUME NEW reason \in {"orphan", "history", "predecessor"}, Refuse(reason)
      PROVE  RecordsInv'
  <2>1. run.phase \notin {"anchor", "attest"}
    BY <1>1
  <2> QED
    BY <1>2, <1>4, <2>1, ToRefused
<1>5. ASSUME run' = Idle PROVE RecordsInv'
  <2>1. /\ UNCHANGED <<facts, timeline, removed, anchored, attested, commands, been>> /\ failed' = failed
        /\ spent' \in [changes : Nat, faults : Nat, deletions : Nat] /\ spent'.changes = spent.changes
    BY <1>1, <1>2 DEF log, TypeOK
  <2> QED
    BY <1>5, <2>1, ToIdle
<1>6. ASSUME Readable(o), NEW settling \in BOOLEAN, settling => o # None, NEW records, records = History(o),
             run' = [run EXCEPT !.phase = "facts", !.records = records, !.seen = facts.accepted,
                                !.settling = settling]
      PROVE  RecordsInv'
  <2>1. records = Live(attested) /\ Cardinality(Suffix(attested)) <= LiveLimit
    BY <1>1, <1>6, ReadableShows
  <2>2. records \in SUBSET Nat /\ facts.accepted \in Readiness
    BY <1>1, <2>1, TypeFacts, LiveIs
  <2>3. /\ run' \in Run /\ run'.phase = "facts" /\ run'.posted = None /\ run'.records = records
        /\ run'.seen = facts.accepted /\ run'.ignored = o /\ run'.settling = settling
    BY <1>1, <1>6, <2>2 DEF Run
  <2>4. run'.phase \notin Planned /\ run'.phase \notin Publishing
    BY <2>3 DEF Planned, Publishing
  <2> QED
    BY <1>2, <1>6, <2>1, <2>3, <2>4, Onward
<1> DEFINE read == [run EXCEPT !.phase = "facts", !.records = History(o), !.seen = facts.accepted]
<1>7. ASSUME Readable(o), run' = read PROVE RecordsInv'
  <2>1. run.settling \in BOOLEAN
    BY <1>1 DEF Run
  <2>2. ASSUME NEW records, records = History(o)
        PROVE  run' = [run EXCEPT !.phase = "facts", !.records = records, !.seen = facts.accepted,
                                  !.settling = run.settling]
    BY <1>1, <1>7, <2>2 DEF Run
  <2> QED
    BY <1>3, <1>6, <1>7, <2>1, <2>2
<1>8. ASSUME Readable(o), o # None, run' = [read EXCEPT !.settling = TRUE] PROVE RecordsInv'
  <2>1. ASSUME NEW records, records = History(o), NEW settling \in BOOLEAN, settling = TRUE
        PROVE  run' = [run EXCEPT !.phase = "facts", !.records = records, !.seen = facts.accepted,
                                  !.settling = settling]
    BY <1>1, <1>8, <2>1 DEF Run
  <2> QED
    BY <1>6, <1>8, <2>1
<1> QED
  BY <1>4, <1>5, <1>7, <1>8 DEF ReadHistory


(* What a run may plan in the phase in which it reads the facts.           *)
LEMMA PlannedIs ==
  ASSUME RecordsInv, run.phase = "facts", NEW inputs, inputs = Inputs(facts, run.seen),
         NEW p, p # Blank,
         p = IF run.settling THEN Settlement(run.records, inputs, run.ignored) ELSE Plan(run.records, inputs)
  PROVE  /\ p \in Record /\ Follows(p)
         /\ p.type # "producer" => p.prior = Newest(attested)
         /\ Doubtful(p.generation.inputs) /\ Elapsed(p.generation.inputs, Len(timeline) + spent.changes)
         /\ p.type = "transition" => p.generation.inputs \in been
<1>1. /\ timeline \in Seq(Record) /\ attested \in SUBSET Ids /\ ActiveInv
      /\ run.records = Live(attested) /\ Cardinality(Suffix(attested)) <= LiveLimit
      /\ spent.changes \in Nat /\ Len(timeline) \in Nat
  BY TypeFacts DEF RecordsInv, PlaceInv, Reading
<1>2. /\ inputs \in InputSet /\ Doubtful(inputs) /\ Elapsed(inputs, Len(timeline) + spent.changes)
      /\ \A i \in Ids : timeline[i].generation.inputs = inputs => inputs \in been
  BY FormedInputs DEF RecordsInv
<1>3. ASSUME NEW i \in Ids, NEW old, old = timeline[i].generation.inputs
      PROVE  Doubtful(old) /\ Elapsed(old, Len(timeline) + spent.changes)
  <2>1. Doubtful(old) /\ Elapsed(old, Len(timeline) + spent.changes - 1)
    BY <1>3 DEF RecordsInv, TruthInv
  <2>2. old \in InputSet
    BY <1>1, <1>3, RecordOf
  <2>3. old.updated.by = "provider" => old.updated.at \in Nat
    BY <2>2 DEF InputSet
  <2> QED
    BY <1>1, <2>1, <2>3 DEF Elapsed
<1>4. CASE run.settling
  <2>1. run.ignored \in Ids
    BY <1>4 DEF RecordsInv, CommandInv
  <2>2. run.records \in SUBSET Ids /\ Newest(run.records) = Newest(attested)
    BY <1>1, LiveIs
  <2>3. p = Settlement(run.records, inputs, run.ignored)
    BY <1>4
  <2>4. /\ p \in Record /\ p.type = "fence" /\ p.generation.inputs = inputs
        /\ p.prior = Newest(run.records) /\ p.phase = "recovery" /\ p.outcome = "settled"
    BY <1>1, <1>2, <2>1, <2>2, <2>3, SettlementIs
  <2>5. Follows(p)
    BY <2>4 DEF Follows
  <2> QED
    BY <1>2, <2>2, <2>4, <2>5
<1>5. CASE ~run.settling
  <2>1. p = Plan(run.records, inputs)
    BY <1>5
  <2>2. /\ p \in Record /\ Follows(p)
        /\ p.type # "producer" => p.prior = Newest(attested)
        /\ p.generation.inputs = inputs \/ \E i \in Ids : p.generation = timeline[i].generation
        /\ p.type = "transition" =>
             p.generation.inputs = inputs /\ \E i \in Ids : p.generation = timeline[i].generation
    BY <1>1, <1>2, <2>1, PlanFollows
  <2>3. Doubtful(p.generation.inputs) /\ Elapsed(p.generation.inputs, Len(timeline) + spent.changes)
    <3>1. CASE p.generation.inputs = inputs
      BY <1>2, <3>1
    <3>2. CASE \E i \in Ids : p.generation = timeline[i].generation
      BY <1>3, <3>2
    <3> QED
      BY <2>2, <3>1, <3>2
  <2>4. p.type = "transition" => p.generation.inputs \in been
    BY <1>2, <2>2
  <2> QED
    BY <2>2, <2>3, <2>4
<1> QED
  BY <1>4, <1>5

(* The coordinator reads the facts and plans.                              *)
LEMMA ReadFactsStep ==
  ASSUME RecordsInv, ReadFacts
  PROVE  RecordsInv'
<1> DEFINE inputs == Inputs(facts, run.seen)
           plan == IF run.settling THEN Settlement(run.records, inputs, run.ignored)
                   ELSE Plan(run.records, inputs)
<1>1. /\ TypeOK /\ run \in Run /\ run.phase = "facts" /\ run.posted = None
      /\ run.records = Live(attested) /\ Cardinality(Suffix(attested)) <= LiveLimit
      /\ run.settling => run.ignored # None
  BY DEF RecordsInv, TypeOK, PlaceInv, ReadFacts, Reading, CommandInv
<1>2. UNCHANGED <<facts, log, commands, been, spent>>
  BY DEF ReadFacts
<1>3. ASSUME NEW reason \in {"pull requests", "attempt"}, Refuse(reason)
      PROVE  RecordsInv'
  <2>1. run.phase \notin {"anchor", "attest"}
    BY <1>1
  <2> QED
    BY <1>2, <1>3, <2>1, ToRefused
<1>4. ASSUME run' = Idle PROVE RecordsInv'
  <2>1. /\ UNCHANGED <<facts, timeline, removed, anchored, attested, commands, been>> /\ failed' = failed
        /\ spent' \in [changes : Nat, faults : Nat, deletions : Nat] /\ spent'.changes = spent.changes
    BY <1>1, <1>2 DEF log, TypeOK
  <2> QED
    BY <1>4, <2>1, ToIdle
<1>5. ASSUME NEW p, p # Blank, p = plan,
             run' = [run EXCEPT !.plan = p, !.phase = IF p.type = "producer" THEN "producer" ELSE "post"]
      PROVE  RecordsInv'
  <2>1. /\ p \in Record /\ Follows(p)
        /\ p.type # "producer" => p.prior = Newest(attested)
        /\ Doubtful(p.generation.inputs) /\ Elapsed(p.generation.inputs, Len(timeline) + spent.changes)
        /\ p.type = "transition" => p.generation.inputs \in been
    BY <1>1, <1>5, PlannedIs
  <2>2. /\ run' \in Run /\ run'.phase = IF p.type = "producer" THEN "producer" ELSE "post"
        /\ run'.posted = None /\ run'.records = run.records /\ run'.plan = p
        /\ run'.seen = run.seen /\ run'.ignored = run.ignored /\ run'.settling = run.settling
    BY <1>1, <1>5, <2>1 DEF Run
  <2>3. /\ run'.phase \in {"facts", "producer", "evaluate", "post"} /\ run'.phase # "facts"
        /\ run'.phase \in Publishing => run'.plan.prior = Newest(attested)
        /\ run.phase \in Reading
    BY <1>1, <2>1, <2>2 DEF Publishing, Reading
  <2>4. LET i == run'.plan.generation.inputs IN
        /\ Doubtful(i) /\ Elapsed(i, Len(timeline) + spent.changes)
        /\ run'.plan.type = "transition" => i \in been
    BY <2>1, <2>2
  <2>5. Follows(run'.plan)
    BY <2>1, <2>2
  <2> QED
    BY <1>1, <1>2, <2>2, <2>3, <2>4, <2>5, Onward
<1> QED
  BY <1>3, <1>4, <1>5 DEF ReadFacts

(* The producer's job reads the log again.                                 *)
LEMMA ReadProducerHistoryStep ==
  ASSUME RecordsInv, ReadProducerHistory
  PROVE  RecordsInv'
<1>1. /\ TypeOK /\ run \in Run /\ run.phase = "producer" /\ run.posted = None
      /\ run.settling => run.ignored # None
  BY DEF RecordsInv, TypeOK, PlaceInv, ReadProducerHistory, CommandInv
<1>2. UNCHANGED <<facts, log, commands, been, spent>>
  BY DEF ReadProducerHistory
<1>3. ASSUME Refuse("history") PROVE RecordsInv'
  <2>1. run.phase \notin {"anchor", "attest"}
    BY <1>1
  <2> QED
    BY <1>2, <1>3, <2>1, ToRefused
<1>4. ASSUME Readable(None), NEW records, records = History(None),
             run' = [run EXCEPT !.phase = "evaluate", !.records = records, !.seen = facts.accepted]
      PROVE  RecordsInv'
  <2>1. records = Live(attested) /\ Cardinality(Suffix(attested)) <= LiveLimit
    BY <1>1, <1>4, ReadableShows
  <2>2. records \in SUBSET Nat /\ facts.accepted \in Readiness
    BY <1>1, <2>1, TypeFacts, LiveIs
  <2>3. /\ run' \in Run /\ run'.phase = "evaluate" /\ run'.posted = None /\ run'.records = records
        /\ run'.plan = run.plan
        /\ run'.seen = facts.accepted /\ run'.ignored = run.ignored /\ run'.settling = run.settling
    BY <1>1, <1>4, <2>2 DEF Run
  <2>4. run'.phase \in Planned /\ run'.phase \notin Publishing /\ run.phase \in Planned
    BY <1>1, <2>3 DEF Planned, Publishing
  <2>5. /\ Follows(run.plan)
        /\ LET i == run.plan.generation.inputs IN
           /\ Doubtful(i) /\ Elapsed(i, Len(timeline) + spent.changes)
           /\ run.plan.type = "transition" => i \in been
    BY <2>4 DEF RecordsInv, PlanInv, TruthInv
  <2>6. /\ Follows(run'.plan)
        /\ LET i == run'.plan.generation.inputs IN
           /\ Doubtful(i) /\ Elapsed(i, Len(timeline) + spent.changes)
           /\ run'.plan.type = "transition" => i \in been
    BY <2>3, <2>5
  <2> QED
    BY <1>1, <1>2, <2>1, <2>3, <2>4, <2>6, Onward
<1> QED
  BY <1>3, <1>4 DEF ReadProducerHistory


(* Neither the predecessor nor the conclusion decides what follows.        *)
LEMMA FollowsAlike ==
  ASSUME NEW p, Follows(p), NEW q, q.type = p.type, q.generation = p.generation, q.expected = p.expected,
         q.phase = p.phase, q.outcome = p.outcome, q.request = p.request, q.fence = p.fence,
         q.producer = p.producer, q.results = p.results, q.sequence = p.sequence, q.root = p.root,
         q.members = p.members
  PROVE  Follows(q)
<1>1. Earned(p) => Earned(q)
  BY DEF Earned
<1>2. Compacted(p, attested) => Compacted(q, attested)
  BY DEF Compacted
<1> QED
  BY <1>1, <1>2 DEF Follows

(* The producer's job finds its order current and concludes.               *)
LEMMA EvaluateStep ==
  ASSUME RecordsInv, Evaluate
  PROVE  RecordsInv'
<1>1. /\ TypeOK /\ run \in Run /\ run.phase = "evaluate" /\ run.posted = None
      /\ run.records = Live(attested) /\ Cardinality(Suffix(attested)) <= LiveLimit
      /\ run.settling => run.ignored # None
  BY DEF RecordsInv, TypeOK, PlaceInv, Evaluate, Reading, CommandInv
<1>2. UNCHANGED <<facts, log, commands, been, spent>>
  BY DEF Evaluate
<1>3. ASSUME Refuse("stale") PROVE RecordsInv'
  <2>1. run.phase \notin {"anchor", "attest"}
    BY <1>1
  <2> QED
    BY <1>2, <1>3, <2>1, ToRefused
<1>4. ASSUME NEW c \in Conclusions(run.plan.producer), NEW prior, prior = Newest(run.records),
             run' = [run EXCEPT !.phase = "post", !.plan.prior = prior, !.plan.conclusion = c]
      PROVE  RecordsInv'
  <2>1. c \in {"success", "failure"}
    BY <1>4 DEF Conclusions
  <2>2. run.plan \in Record /\ timeline \in Seq(Record) /\ attested \in SUBSET Ids
    BY <1>1, TypeFacts
  <2>3. prior = Newest(attested) /\ prior \in Nat
    <3>1. Newest(attested) \in Nat
      BY <2>2, NewestIs DEF Ids
    <3> QED
      BY <1>1, <1>4, <2>2, <3>1, LiveIs
  <2>4. PICK q : q = [run.plan EXCEPT !.prior = prior, !.conclusion = c]
    OBVIOUS
  <2>5. run.phase \in Planned
    BY <1>1 DEF Planned
  <2>6. /\ Follows(run.plan)
        /\ LET i == run.plan.generation.inputs IN
           /\ Doubtful(i) /\ Elapsed(i, Len(timeline) + spent.changes)
           /\ run.plan.type = "transition" => i \in been
    BY <2>5 DEF RecordsInv, PlanInv, TruthInv
  <2>7. q \in Record /\ Follows(q) /\ q.prior = prior /\ q.generation = run.plan.generation /\ q.type = run.plan.type
    <3> DEFINE p == run.plan
    <3>1. p \in Record /\ Follows(p) /\ q = [p EXCEPT !.prior = prior, !.conclusion = c]
      BY <2>2, <2>4, <2>6
    <3> HIDE DEF p
    <3>2. q \in Record /\ q.prior = prior /\ q.generation = p.generation /\ q.type = p.type
      BY <2>1, <2>3, <3>1 DEF Record
    <3>3. /\ q.expected = p.expected /\ q.phase = p.phase /\ q.outcome = p.outcome
          /\ q.request = p.request /\ q.fence = p.fence /\ q.producer = p.producer
          /\ q.results = p.results /\ q.sequence = p.sequence /\ q.root = p.root /\ q.members = p.members
      BY <3>1 DEF Record
    <3>4. Follows(q)
      BY <3>1, <3>2, <3>3, FollowsAlike
    <3> QED
      BY <3>2, <3>4 DEF p
  <2>8. run' = [run EXCEPT !.phase = "post", !.plan = q]
    BY <1>1, <1>4, <2>4 DEF Run
  <2>9. /\ run' \in Run /\ run'.phase = "post" /\ run'.posted = None /\ run'.records = run.records
        /\ run'.plan = q /\ run'.seen = run.seen /\ run'.ignored = run.ignored /\ run'.settling = run.settling
    BY <1>1, <2>7, <2>8 DEF Run
  <2>10. /\ Follows(run'.plan) /\ run'.plan.prior = Newest(attested)
        /\ LET i == run'.plan.generation.inputs IN
           /\ Doubtful(i) /\ Elapsed(i, Len(timeline) + spent.changes)
           /\ run'.plan.type = "transition" => i \in been
    BY <2>3, <2>6, <2>7, <2>9
  <2>11. run.phase \in Reading /\ run'.phase \in {"facts", "producer", "evaluate", "post"} /\ run'.phase # "facts"
    BY <1>1, <2>9 DEF Reading
  <2> QED
    BY <1>1, <1>2, <2>9, <2>10, <2>11, Onward
<1> QED
  BY <1>3, <1>4 DEF Evaluate

(* The end of a run.                                                       *)
LEMMA EndSteps ==
  ASSUME RecordsInv, Verify \/ End \/ Lose
  PROVE  RecordsInv'
<1>1. TypeOK
  BY DEF RecordsInv
<1>2. CASE Verify
  <2>1. CASE Witnessed(run.posted)
    <3>1. run' = Idle /\ UNCHANGED <<facts, log, commands, been, spent>>
      BY <1>2, <2>1 DEF Verify
    <3>2. /\ UNCHANGED <<facts, timeline, removed, anchored, attested, commands, been>> /\ failed' = failed
          /\ spent' \in [changes : Nat, faults : Nat, deletions : Nat] /\ spent'.changes = spent.changes
      BY <1>1, <3>1 DEF log, TypeOK
    <3> QED
      BY <3>1, <3>2, ToIdle
  <2>2. CASE ~Witnessed(run.posted)
    <3>1. Refuse("verification") /\ UNCHANGED <<facts, log, commands, been, spent>> /\ run.phase = "verify"
      BY <1>2, <2>2 DEF Verify
    <3> QED
      BY <3>1, ToRefused
  <2> QED
    BY <2>1, <2>2
<1>3. CASE End
  <2>1. /\ run' = Idle /\ UNCHANGED <<facts, timeline, removed, anchored, attested, commands, been, spent>>
        /\ failed' = failed \cup ({run.posted} \ {None})
    BY <1>3 DEF End
  <2>2. spent' \in [changes : Nat, faults : Nat, deletions : Nat] /\ spent'.changes = spent.changes
    BY <1>1, <2>1 DEF TypeOK
  <2> QED
    BY <2>1, <2>2, ToIdle
<1>4. CASE Lose
  <2>1. /\ run' = Idle /\ UNCHANGED <<facts, timeline, removed, anchored, attested, commands, been>>
        /\ failed' = failed \cup ({run.posted} \ {None})
        /\ spent' = [spent EXCEPT !.faults = spent.faults + 1]
    BY <1>4 DEF Lose
  <2>2. spent \in [changes : Nat, faults : Nat, deletions : Nat]
    BY <1>1 DEF TypeOK
  <2>3. spent' \in [changes : Nat, faults : Nat, deletions : Nat] /\ spent'.changes = spent.changes
    BY <2>1, <2>2
  <2> QED
    BY <2>1, <2>3, ToIdle
<1> QED
  BY <1>2, <1>3, <1>4


-----------------------------------------------------------------------------
(* The steps of a publication.                                             *)

(* The record is posted as a comment.                                      *)
LEMMA PostStep ==
  ASSUME RecordsInv, Post
  PROVE  RecordsInv'
<1> DEFINE n == Len(timeline)
<1>1. /\ TypeOK /\ PlaceInv /\ PlanInv /\ TruthInv /\ CommandInv
      /\ run \in Run /\ run.phase = "post" /\ run.posted = None
      /\ run.records = Live(attested) /\ Cardinality(Suffix(attested)) <= LiveLimit
  BY DEF RecordsInv, TypeOK, PlaceInv, Post, Reading
<1>2. /\ timeline \in Seq(Record) /\ attested \in SUBSET Ids /\ n \in Nat /\ Ids = 1 .. n
      /\ run.plan \in Record /\ spent.changes \in Nat
  BY <1>1, TypeFacts
<1>3. /\ timeline' = Append(timeline, run.plan)
      /\ run' = [run EXCEPT !.phase = "anchor", !.posted = n + 1]
      /\ UNCHANGED <<facts, removed, anchored, attested, failed, commands, been, spent>>
  BY DEF Post
<1>4. /\ timeline' \in Seq(Record) /\ Len(timeline') = n + 1 /\ Ids' = 1 .. n + 1
      /\ timeline'[n + 1] = run.plan /\ \A i \in Ids : timeline'[i] = timeline[i]
  BY <1>2, <1>3 DEF Ids
<1>5. Grows
  BY <1>2, <1>4 DEF Grows
<1>6. /\ run' \in Run /\ run'.phase = "anchor" /\ run'.posted = n + 1 /\ run'.records = run.records
      /\ run'.plan = run.plan /\ run'.seen = run.seen
      /\ run'.ignored = run.ignored /\ run'.settling = run.settling
  <2>1. n + 1 \in Nat
    BY <1>2
  <2> HIDE DEF n
  <2> QED
    BY <1>1, <1>3, <2>1 DEF Run
<1>7. TypeOK'
  <2>1. /\ removed' \subseteq Ids' /\ attested' \subseteq anchored' /\ anchored' \subseteq Ids'
    BY <1>1, <1>2, <1>3, <1>4 DEF TypeOK
  <2>2. failed' \subseteq Ids' \ {run'.posted}
    <3>1. failed \in SUBSET Ids
      BY <1>1 DEF TypeOK
    <3>2. \A i \in Ids : i \in Ids' /\ i # n + 1
      BY <1>2, <1>4
    <3> QED
      BY <1>3, <1>6, <3>1, <3>2
  <2>3. run'.posted \in {None, Len(timeline')}
    BY <1>4, <1>6
  <2>4. /\ facts' \in [body : {0, 1}, accepted : Readiness, rev : Nat, pull : 0 .. 2]
        /\ spent' \in [changes : Nat, faults : Nat, deletions : Nat] /\ commands' \in Seq(Nat)
    BY <1>1, <1>3 DEF TypeOK
  <2> QED
    BY <1>4, <1>6, <2>1, <2>2, <2>3, <2>4 DEF TypeOK
<1>8. /\ Live(attested)' = Live(attested) /\ Suffix(attested)' = Suffix(attested)
  BY <1>2, <1>3, <1>5, SameLog
<1>9. PlaceInv'
  <2>1. run'.posted \in Ids' \ attested'
    BY <1>2, <1>3, <1>4, <1>6
  <2> QED
    BY <1>1, <1>3, <1>4, <1>6, <1>8, <2>1 DEF PlaceInv, Reading
<1>10. CommandInv'
  BY <1>1, <1>2, <1>3, <1>4, <1>6 DEF CommandInv
<1>11. ChainIsLinear' /\ ActiveInv' /\ CheckpointInv' /\ CheckpointIsEarned'
  BY <1>2, <1>3, <1>5, LogKept DEF RecordsInv
<1>12. PlanInv'
  <2>1. Follows(run.plan) /\ run.plan.prior = Newest(attested)
    BY <1>1 DEF PlanInv, Planned, Publishing
  <2>2. ASSUME NEW p, p = run.plan PROVE Follows(p)'
    BY <1>2, <1>3, <1>5, <2>1, <2>2, SameFollowers DEF RecordsInv
  <2>3. Follows(run.plan)'
    BY <1>6, <2>2 DEF Follows
  <2> QED
    BY <1>3, <1>6, <2>1, <2>3 DEF PlanInv
<1>13. TruthInv'
  <2>1. Accepted(facts, facts.accepted) => Inputs(facts, facts.accepted)' = Inputs(facts, facts.accepted)
    BY <1>3 DEF Accepted, Inputs
  <2>2. /\ facts.accepted.at <= spent.changes + 1
        /\ Accepted(facts, facts.accepted) => Inputs(facts, facts.accepted) \in been
        /\ run.seen.at <= spent.changes + 1
        /\ run.seen.at # 0 /\ run.seen.at = facts.accepted.at => run.seen = facts.accepted
    BY <1>1 DEF TruthInv, Reading
  <2>3. LET inputs == run.plan.generation.inputs IN
        /\ Doubtful(inputs) /\ Elapsed(inputs, n + spent.changes)
        /\ run.plan.type = "transition" => inputs \in been
    BY <1>1 DEF TruthInv, Planned
  <2>4. ASSUME NEW i \in Ids', NEW inputs, inputs = timeline'[i].generation.inputs
        PROVE  /\ Doubtful(inputs) /\ Elapsed(inputs, n + spent.changes)
               /\ timeline'[i].type = "transition" => inputs \in been
    <3>1. CASE i = n + 1
      BY <1>4, <2>3, <2>4, <3>1
    <3>2. CASE i # n + 1
      <4>1. i \in Ids /\ timeline'[i] = timeline[i]
        BY <1>2, <1>4, <3>2
      <4>2. /\ Doubtful(inputs) /\ Elapsed(inputs, n + spent.changes - 1)
            /\ timeline[i].type = "transition" => inputs \in been
        BY <1>1, <2>4, <4>1 DEF TruthInv, IsCheckpoint
      <4>3. inputs.updated.by = "provider" => inputs.updated.at \in Nat
        <5>1. inputs \in InputSet
          BY <1>2, <2>4, <4>1, RecordOf
        <5> QED
          BY <5>1 DEF InputSet
      <4>4. Elapsed(inputs, n + spent.changes)
        BY <1>2, <4>2, <4>3 DEF Elapsed
      <4> QED
        BY <4>1, <4>2, <4>4
    <3> QED
      BY <3>1, <3>2
  <2>5. Len(timeline') + spent'.changes - 1 = n + spent.changes
    <3>1. Len(timeline') = n + 1 /\ spent'.changes = spent.changes /\ n \in Nat /\ spent.changes \in Nat
      BY <1>2, <1>3, <1>4
    <3> HIDE DEF n
    <3> QED
      BY <3>1
  <2>6. \A i \in Ids' :
          LET inputs == timeline'[i].generation.inputs IN
          /\ Doubtful(inputs) /\ Elapsed(inputs, Len(timeline') + spent'.changes - 1)
          /\ IsCheckpoint(i)' => inputs \in been'
    BY <1>3, <2>4, <2>5 DEF IsCheckpoint
  <2>7. LET inputs == run'.plan.generation.inputs IN
        /\ Doubtful(inputs) /\ Elapsed(inputs, Len(timeline') + spent'.changes)
        /\ run'.plan.type = "transition" => inputs \in been'
    <3> DEFINE inputs == run.plan.generation.inputs
    <3>1. inputs.updated.by = "provider" => inputs.updated.at \in Nat
      <4>1. inputs \in InputSet
        BY <1>1, TypeFacts
      <4> QED
        BY <4>1 DEF InputSet
    <3>2. Elapsed(inputs, Len(timeline') + spent'.changes)
      BY <1>2, <1>3, <1>4, <2>3, <3>1 DEF Elapsed
    <3> QED
      BY <1>3, <1>6, <2>3, <3>2
  <2> QED
    BY <1>3, <1>6, <2>1, <2>2, <2>6, <2>7 DEF TruthInv, Doubtful, Elapsed, Accepted, Inputs
<1> QED
  BY <1>7, <1>9, <1>10, <1>11, <1>12, <1>13 DEF RecordsInv


(* The artifact that names the comment.                                    *)
LEMMA AnchorStep ==
  ASSUME RecordsInv, Anchor
  PROVE  RecordsInv'
<1>1. /\ TypeOK /\ PlaceInv /\ PlanInv /\ TruthInv /\ CommandInv
      /\ run \in Run /\ run.phase = "anchor" /\ run.posted \in Ids \ attested
      /\ run.posted = Len(timeline) /\ timeline[run.posted] = run.plan
      /\ run.records = Live(attested) /\ Cardinality(Suffix(attested)) <= LiveLimit
  BY DEF RecordsInv, TypeOK, PlaceInv, Anchor, Reading
<1>2. /\ anchored' = anchored \cup {run.posted} /\ run' = [run EXCEPT !.phase = "attest"]
      /\ UNCHANGED <<facts, timeline, removed, attested, failed, commands, been, spent>>
  BY DEF Anchor, Go
<1>3. /\ run' \in Run /\ run'.phase = "attest" /\ run'.posted = run.posted /\ run'.records = run.records
      /\ run'.plan = run.plan /\ run'.seen = run.seen
      /\ run'.ignored = run.ignored /\ run'.settling = run.settling
  BY <1>1, <1>2 DEF Run
<1>4. TypeOK'
  BY <1>1, <1>2, <1>3 DEF TypeOK, Ids
<1>5. /\ ChainIsLinear' /\ ActiveInv' /\ CheckpointInv' /\ CheckpointIsEarned'
      /\ Live(attested)' = Live(attested) /\ Suffix(attested)' = Suffix(attested)
      /\ \A p : Follows(p) => Follows(p)'
  BY <1>2, QuietLog
<1>6. PlaceInv'
  BY <1>1, <1>2, <1>3, <1>5 DEF PlaceInv, Reading, Ids
<1>7. CommandInv'
  BY <1>1, <1>2, <1>3 DEF CommandInv, Ids
<1>8. PlanInv'
  <2>1. Follows(run.plan) /\ run.plan.prior = Newest(attested)
    BY <1>1 DEF PlanInv, Planned, Publishing
  <2>2. ASSUME NEW p, p = run.plan PROVE Follows(p)'
    BY <1>5, <2>1, <2>2
  <2>3. Follows(run.plan)'
    BY <1>3, <2>2 DEF Follows
  <2> QED
    BY <1>2, <1>3, <2>1, <2>3 DEF PlanInv
<1>9. TruthInv'
  <2>1. LET inputs == run.plan.generation.inputs IN
        /\ Doubtful(inputs) /\ Elapsed(inputs, Len(timeline) + spent.changes)
        /\ run.plan.type = "transition" => inputs \in been
    BY <1>1 DEF TruthInv, Planned
  <2>2. run.phase \in Reading /\ run'.phase # "facts" /\ spent'.changes = spent.changes
    BY <1>1, <1>2, <1>3 DEF Reading
  <2> QED
    BY <1>1, <1>2, <1>3, <2>1, <2>2, TruthKept
<1> QED
  BY <1>4, <1>5, <1>6, <1>7, <1>8, <1>9 DEF RecordsInv

(* The attestation of the artifact.                                        *)
LEMMA AttestStep ==
  ASSUME RecordsInv, Attest
  PROVE  RecordsInv'
<1> DEFINE k == run.posted
<1>1. /\ TypeOK /\ PlaceInv /\ PlanInv /\ TruthInv /\ CommandInv
      /\ run \in Run /\ run.phase = "attest" /\ k \in Ids \ attested /\ k \in anchored
      /\ k = Len(timeline) /\ timeline[k] = run.plan
  BY DEF RecordsInv, TypeOK, PlaceInv, Attest
<1>2. /\ attested' = attested \cup {k} /\ run' = [run EXCEPT !.phase = "verify"]
      /\ UNCHANGED <<facts, timeline, removed, anchored, failed, commands, been, spent>>
  BY DEF Attest, Go
<1>3. /\ run' \in Run /\ run'.phase = "verify" /\ run'.posted = k
      /\ run'.ignored = run.ignored /\ run'.settling = run.settling
  BY <1>1, <1>2 DEF Run
<1>4. TypeOK'
  <2>1. attested' \subseteq anchored'
    BY <1>1, <1>2 DEF TypeOK
  <2> QED
    BY <1>1, <1>2, <1>3, <2>1 DEF TypeOK, Ids
<1>5. ChainIsLinear' /\ ActiveInv' /\ CheckpointInv' /\ CheckpointIsEarned'
  <2>1. Follows(run.plan) /\ run.plan.prior = Newest(attested)
    BY <1>1 DEF PlanInv, Planned, Publishing
  <2>2. timeline \in Seq(Record) /\ attested \in SUBSET Ids /\ Ids = 1 .. Len(timeline) /\ Len(timeline) \in Nat
    BY <1>1, TypeFacts
  <2>3. \A i \in attested : i < k
    <3>1. \A i \in attested : i \in 1 .. Len(timeline) /\ i # Len(timeline)
      BY <1>1, <2>2
    <3> QED
      BY <1>1, <2>2, <3>1
  <2>4. k \in Ids /\ Follows(timeline[k]) /\ timeline[k].prior = Newest(attested)
    BY <1>1, <2>1
  <2>5. ChainIsLinear /\ ActiveInv /\ CheckpointInv /\ CheckpointIsEarned
    BY DEF RecordsInv
  <2> HIDE DEF k
  <2> QED
    BY <1>2, <2>2, <2>3, <2>4, <2>5, AttestedMore
<1>6. PlaceInv'
  BY <1>1, <1>2, <1>3 DEF PlaceInv, Reading, None
<1>7. CommandInv'
  BY <1>1, <1>2, <1>3 DEF CommandInv, Ids
<1>8. PlanInv'
  BY <1>3 DEF PlanInv, Planned, Publishing
<1>9. TruthInv'
  <2>1. run'.phase \notin Reading /\ run'.phase # "facts" /\ run'.phase \notin Planned
    BY <1>3 DEF Reading, Planned
  <2> QED
    BY <1>1, <1>2, <2>1, TruthKept
<1> QED
  BY <1>4, <1>5, <1>6, <1>7, <1>8, <1>9 DEF RecordsInv


-----------------------------------------------------------------------------
(* What people do.                                                         *)

(* Whatever they do, neither what is attested nor the run changes.         *)
LEMMA RunKept ==
  ASSUME RecordsInv, UNCHANGED <<timeline, anchored, attested, run>>
  PROVE  /\ PlaceInv' /\ PlanInv'
         /\ ChainIsLinear' /\ ActiveInv' /\ CheckpointInv' /\ CheckpointIsEarned'
<1>1. /\ ChainIsLinear' /\ ActiveInv' /\ CheckpointInv' /\ CheckpointIsEarned'
      /\ Live(attested)' = Live(attested) /\ Suffix(attested)' = Suffix(attested)
      /\ \A p : Follows(p) => Follows(p)'
  BY QuietLog
<1>2. PlaceInv'
  BY <1>1 DEF RecordsInv, PlaceInv, Ids
<1>3. PlanInv'
  <2>1. ASSUME NEW p, p = run.plan, run.phase \in Planned PROVE Follows(p)'
    BY <1>1, <2>1 DEF RecordsInv, PlanInv
  <2>2. run.phase \in Planned => Follows(run.plan)'
    BY <2>1 DEF Follows
  <2> QED
    BY <2>2 DEF RecordsInv, PlanInv
<1> QED
  BY <1>1, <1>2, <1>3

(* A change of the issue or of its pull requests.  An acceptance has a     *)
(* time that none had before.                                              *)
LEMMA ChangeStep ==
  ASSUME RecordsInv, NEW f \in [body : {0, 1}, accepted : Readiness, rev : Nat, pull : 0 .. 2],
         f.accepted = facts.accepted \/ f.accepted.at \in {0, spent.changes + 2},
         Change(f)
  PROVE  RecordsInv'
<1>1. /\ TypeOK /\ TruthInv /\ CommandInv /\ spent \in [changes : Nat, faults : Nat, deletions : Nat]
  BY DEF RecordsInv, TypeOK
<1>2. /\ spent.changes \in Nat /\ Len(timeline) \in Nat /\ timeline \in Seq(Record)
      /\ facts.accepted.at \in Nat /\ run.seen.at \in Nat
  BY <1>1, TypeFacts
<1>3. /\ facts' = f /\ spent' = [spent EXCEPT !.changes = spent.changes + 1]
      /\ been' = been \cup (IF Accepted(f, f.accepted) THEN {Inputs(f, f.accepted)} ELSE {})
      /\ UNCHANGED <<timeline, removed, anchored, attested, failed, commands, run>>
  BY DEF Change, log
<1>4. spent' \in [changes : Nat, faults : Nat, deletions : Nat] /\ spent'.changes = spent.changes + 1
  BY <1>1, <1>2, <1>3
<1>5. TypeOK'
  BY <1>1, <1>3, <1>4 DEF TypeOK, Ids
<1>6. /\ PlaceInv' /\ PlanInv'
      /\ ChainIsLinear' /\ ActiveInv' /\ CheckpointInv' /\ CheckpointIsEarned'
  BY <1>3, RunKept
<1>7. CommandInv'
  BY <1>1, <1>3 DEF CommandInv, Ids
<1>8. TruthInv'
  <2> DEFINE n == spent.changes
  <2>1. /\ facts.accepted.at <= n + 1
        /\ run.phase \in Reading =>
             /\ run.seen.at <= n + 1
             /\ run.seen.at # 0 /\ run.seen.at = facts.accepted.at => run.seen = facts.accepted
    BY <1>1 DEF TruthInv
  <2>2. f.accepted.at <= n + 2
    BY <1>2, <2>1
  <2>3. Accepted(f, f.accepted) => Inputs(f, f.accepted) \in been'
    BY <1>3
  <2>4. (Accepted(facts, facts.accepted) => Inputs(facts, facts.accepted) \in been)'
    BY <1>3, <2>3 DEF Accepted, Inputs
  <2>5. run.phase \in Reading =>
          /\ run.seen.at <= n + 2
          /\ run.seen.at # 0 /\ run.seen.at = f.accepted.at => run.seen = f.accepted
    BY <1>2, <2>1
  <2>6. ASSUME NEW inputs, Doubtful(inputs), inputs.updated.by = "readiness"
        PROVE  /\ inputs.updated.at \in 1 .. n + 2
               /\ inputs \in been' \/ f.accepted.at # inputs.updated.at
    <3>1. /\ inputs.updated.at \in 1 .. n + 1
          /\ inputs \in been \/ facts.accepted.at # inputs.updated.at
      BY <2>6 DEF Doubtful
    <3>2. inputs.updated.at \in 1 .. n + 2 /\ inputs.updated.at \notin {0, n + 2}
      BY <1>2, <3>1
    <3> QED
      BY <1>3, <3>1, <3>2
  <2>7. \A inputs : Doubtful(inputs) => Doubtful(inputs)'
    <3>1. ASSUME NEW inputs, Doubtful(inputs) PROVE Doubtful(inputs)'
      <4>1. n + 2 = spent'.changes + 1
        BY <1>2, <1>4
      <4>2. inputs.updated.by = "readiness" =>
              /\ inputs.updated.at \in 1 .. spent'.changes + 1
              /\ inputs \in been' \/ f.accepted.at # inputs.updated.at
        BY <2>6, <3>1, <4>1
      <4> QED
        BY <1>3, <4>2 DEF Doubtful
    <3> QED
      BY <3>1
  <2>8. ASSUME NEW inputs \in InputSet, NEW time \in Int, Elapsed(inputs, time) PROVE Elapsed(inputs, time + 1)
    <3>1. inputs.updated.at \in Nat
      BY DEF InputSet
    <3> QED
      BY <2>8, <3>1 DEF Elapsed
  <2>9. ASSUME NEW i \in Ids, NEW inputs, inputs = timeline[i].generation.inputs
        PROVE  /\ Doubtful(inputs)' /\ Elapsed(inputs, Len(timeline) + spent'.changes - 1)
               /\ run.phase = "facts" /\ inputs.updated = [by |-> "readiness", at |-> run.seen.at]
                    => inputs \in been'
               /\ IsCheckpoint(i) => inputs \in been'
    <3>1. /\ Doubtful(inputs) /\ Elapsed(inputs, Len(timeline) + n - 1)
          /\ run.phase = "facts" /\ inputs.updated = [by |-> "readiness", at |-> run.seen.at]
               => inputs \in been
          /\ IsCheckpoint(i) => inputs \in been
      BY <1>1, <2>9 DEF TruthInv
    <3>2. inputs \in InputSet
      BY <1>2, <2>9, RecordOf
    <3>3. Elapsed(inputs, (Len(timeline) + n - 1) + 1)
      BY <1>2, <2>8, <3>1, <3>2
    <3>4. (Len(timeline) + n - 1) + 1 = Len(timeline) + spent'.changes - 1
      BY <1>2, <1>4
    <3> QED
      BY <1>3, <2>7, <3>1, <3>3, <3>4
  <2>10. ASSUME run.phase \in Planned, NEW inputs, inputs = run.plan.generation.inputs
         PROVE  /\ Doubtful(inputs)' /\ Elapsed(inputs, Len(timeline) + spent'.changes)
                /\ run.plan.type = "transition" => inputs \in been'
    <3>1. /\ Doubtful(inputs) /\ Elapsed(inputs, Len(timeline) + n)
          /\ run.plan.type = "transition" => inputs \in been
      BY <1>1, <2>10 DEF TruthInv
    <3>2. inputs \in InputSet
      BY <1>1, <2>10, TypeFacts
    <3>3. Elapsed(inputs, (Len(timeline) + n) + 1)
      BY <1>2, <2>8, <3>1, <3>2
    <3>4. (Len(timeline) + n) + 1 = Len(timeline) + spent'.changes
      BY <1>2, <1>4
    <3> QED
      BY <1>3, <2>7, <3>1, <3>3, <3>4
  <2>11. n + 2 = spent'.changes + 1
    BY <1>2, <1>4
  <2>12. \A i \in Ids :
           LET inputs == timeline[i].generation.inputs IN
           /\ Doubtful(inputs)' /\ Elapsed(inputs, Len(timeline) + spent'.changes - 1)
           /\ run.phase = "facts" /\ inputs.updated = [by |-> "readiness", at |-> run.seen.at]
                => inputs \in been'
           /\ IsCheckpoint(i) => inputs \in been'
    <3>1. ASSUME NEW i \in Ids
          PROVE  LET inputs == timeline[i].generation.inputs IN
                 /\ Doubtful(inputs)' /\ Elapsed(inputs, Len(timeline) + spent'.changes - 1)
                 /\ run.phase = "facts" /\ inputs.updated = [by |-> "readiness", at |-> run.seen.at]
                      => inputs \in been'
                 /\ IsCheckpoint(i) => inputs \in been'
      BY <1>3, <2>9 DEF Doubtful
    <3> QED
      BY <3>1
  <2>13. run.phase \in Planned =>
           LET inputs == run.plan.generation.inputs IN
           /\ Doubtful(inputs)' /\ Elapsed(inputs, Len(timeline) + spent'.changes)
           /\ run.plan.type = "transition" => inputs \in been'
    BY <1>3, <2>10 DEF Doubtful
  <2> HIDE DEF n
  <2> QED
    BY <1>3, <2>2, <2>4, <2>5, <2>11, <2>12, <2>13 DEF TruthInv, Doubtful, Elapsed, IsCheckpoint, Ids
<1> QED
  BY <1>5, <1>6, <1>7, <1>8 DEF RecordsInv


(* The changes of the issue and of its pull requests.                      *)
LEMMA ChangeSteps ==
  ASSUME RecordsInv,
         EditBody \/ AcceptReadiness \/ RejectReadiness \/ MoveFacts \/ OpenPull \/ ClosePull
  PROVE  RecordsInv'
<1> DEFINE F == [body : {0, 1}, accepted : Readiness, rev : Nat, pull : 0 .. 2]
<1>1. /\ facts \in F /\ facts.body \in {0, 1} /\ facts.accepted \in Readiness
      /\ facts.rev \in Nat /\ facts.pull \in 0 .. 2 /\ spent.changes \in Nat
  BY TypeFacts DEF RecordsInv, TypeOK
<1>2. CASE EditBody
  <2>1. PICK f : f = [facts EXCEPT !.body = 1 - facts.body]
    OBVIOUS
  <2>2. f \in F /\ f.accepted = facts.accepted /\ Change(f)
    BY <1>1, <1>2, <2>1 DEF EditBody
  <2> QED
    BY <2>2, ChangeStep
<1>3. CASE AcceptReadiness
  <2> DEFINE a == [body |-> facts.body, at |-> spent.changes + 2]
  <2>1. a \in Readiness /\ a.at = spent.changes + 2
    BY <1>1 DEF Readiness
  <2>2. PICK f : f = [facts EXCEPT !.accepted = a]
    OBVIOUS
  <2>3. Change(f)
    BY <1>3, <2>2 DEF AcceptReadiness
  <2> HIDE DEF a
  <2>4. f \in F /\ f.accepted = a
    BY <1>1, <2>1, <2>2
  <2> QED
    BY <2>1, <2>3, <2>4, ChangeStep
<1>4. CASE RejectReadiness
  <2> DEFINE a == [facts.accepted EXCEPT !.at = 0]
  <2>1. a \in Readiness /\ a.at = 0
    BY <1>1 DEF Readiness
  <2>2. PICK f : f = [facts EXCEPT !.accepted = a]
    OBVIOUS
  <2>3. Change(f)
    <3>1. [facts EXCEPT !.accepted.at = 0] = [facts EXCEPT !.accepted = a]
      BY <1>1
    <3> QED
      BY <1>4, <2>2, <3>1 DEF RejectReadiness
  <2> HIDE DEF a
  <2>4. f \in F /\ f.accepted = a
    BY <1>1, <2>1, <2>2
  <2> QED
    BY <2>1, <2>3, <2>4, ChangeStep
<1>5. CASE MoveFacts
  <2>1. PICK f : f = [facts EXCEPT !.rev = facts.rev + 1]
    OBVIOUS
  <2>2. f \in F /\ f.accepted = facts.accepted /\ Change(f)
    BY <1>1, <1>5, <2>1 DEF MoveFacts
  <2> QED
    BY <2>2, ChangeStep
<1>6. CASE OpenPull
  <2>1. PICK f : f = [facts EXCEPT !.pull = facts.pull + 1, !.rev = facts.rev + 1]
    OBVIOUS
  <2>2. Change(f)
    BY <1>6, <2>1 DEF OpenPull
  <2> DEFINE p == facts.pull + 1
             r == facts.rev + 1
  <2>3. p \in 0 .. 2 /\ r \in Nat /\ f = [facts EXCEPT !.pull = p, !.rev = r]
    BY <1>1, <1>6, <2>1 DEF OpenPull
  <2> HIDE DEF p, r
  <2>4. f \in F /\ f.accepted = facts.accepted
    BY <1>1, <2>3
  <2> QED
    BY <2>2, <2>4, ChangeStep
<1>7. CASE ClosePull
  <2>1. PICK f : f = [facts EXCEPT !.pull = facts.pull - 1, !.rev = facts.rev + 1]
    OBVIOUS
  <2>2. Change(f)
    BY <1>7, <2>1 DEF ClosePull
  <2> DEFINE p == facts.pull - 1
             r == facts.rev + 1
  <2>3. p \in 0 .. 2 /\ r \in Nat /\ f = [facts EXCEPT !.pull = p, !.rev = r]
    BY <1>1, <1>7, <2>1 DEF ClosePull
  <2> HIDE DEF p, r
  <2>4. f \in F /\ f.accepted = facts.accepted
    BY <1>1, <2>3
  <2> QED
    BY <2>2, <2>4, ChangeStep
<1> QED
  BY <1>2, <1>3, <1>4, <1>5, <1>6, <1>7

(* Steps after which the facts and the run are what they were.             *)
LEMMA TruthSame ==
  ASSUME RecordsInv, UNCHANGED <<facts, timeline, been, run>>, spent'.changes = spent.changes
  PROVE  TruthInv'
<1>1. TypeOK /\ TruthInv
  BY DEF RecordsInv
<1>2. run'.phase \in Planned =>
        LET inputs == run'.plan.generation.inputs IN
        /\ Doubtful(inputs) /\ Elapsed(inputs, Len(timeline) + spent.changes)
        /\ run'.plan.type = "transition" => inputs \in been
  BY <1>1 DEF TruthInv
<1>3. /\ run'.phase \in Reading => run.phase \in Reading /\ run'.seen = run.seen
      /\ run'.phase = "facts" => run.phase = "facts" /\ run'.seen = run.seen
  OBVIOUS
<1> QED
  BY <1>1, <1>2, <1>3, TruthKept

(* Deleted comments, and commands.                                         *)
LEMMA CommentSteps ==
  ASSUME RecordsInv, DeleteComment \/ DeleteCommand \/ Command
  PROVE  RecordsInv'
<1>1. /\ TypeOK /\ CommandInv /\ spent \in [changes : Nat, faults : Nat, deletions : Nat]
      /\ commands \in Seq(Nat) /\ timeline \in Seq(Record) /\ Ids \in SUBSET Nat
  BY TypeFacts DEF RecordsInv, TypeOK
<1>2. UNCHANGED <<facts, timeline, anchored, attested, failed, run, been>>
  BY DEF DeleteComment, DeleteCommand, Command, log
<1>3. /\ PlaceInv' /\ PlanInv'
      /\ ChainIsLinear' /\ ActiveInv' /\ CheckpointInv' /\ CheckpointIsEarned'
  BY <1>2, RunKept
<1>4. CASE DeleteComment
  <2>1. spent' = [spent EXCEPT !.deletions = spent.deletions + 1] /\ UNCHANGED commands
    BY <1>4 DEF DeleteComment
  <2>2. spent' \in [changes : Nat, faults : Nat, deletions : Nat] /\ spent'.changes = spent.changes
    BY <1>1, <2>1
  <2>3. removed' \subseteq Ids
    BY <1>1, <1>4 DEF DeleteComment, TypeOK, Ids
  <2>4. TypeOK'
    BY <1>1, <1>2, <2>1, <2>2, <2>3 DEF TypeOK, Ids
  <2>5. CommandInv'
    BY <1>1, <1>2, <2>1 DEF CommandInv, Ids
  <2> QED
    BY <1>2, <1>3, <2>2, <2>4, <2>5, TruthSame DEF RecordsInv
<1>5. ASSUME commands' \in Seq(Nat), UNCHANGED <<removed, spent>>, DOMAIN commands \subseteq DOMAIN commands',
             \A k \in DOMAIN commands' : commands'[k] \in {None} \cup Ids
      PROVE  RecordsInv'
  <2>1. TypeOK'
    BY <1>1, <1>2, <1>5 DEF TypeOK, Ids
  <2>2. CommandInv'
    BY <1>1, <1>2, <1>5 DEF CommandInv, Ids
  <2> QED
    BY <1>2, <1>3, <1>5, <2>1, <2>2, TruthSame DEF RecordsInv
<1>6. CASE DeleteCommand
  <2>1. PICK k \in Eligible : commands' = [commands EXCEPT ![k] = None]
    BY <1>6 DEF DeleteCommand
  <2>2. commands' \in Seq(Nat) /\ DOMAIN commands' = DOMAIN commands
        /\ \A j \in DOMAIN commands : commands'[j] \in {None, commands[j]}
    BY <1>1, <2>1 DEF Eligible, None
  <2>3. \A j \in DOMAIN commands : commands[j] \in {None} \cup Ids
    BY <1>1 DEF CommandInv
  <2>4. UNCHANGED <<removed, spent>>
    BY <1>6 DEF DeleteCommand, log
  <2> QED
    BY <1>5, <2>2, <2>3, <2>4
<1>7. CASE Command
  <2>1. PICK i \in Ids : commands' = Append(commands, i)
    BY <1>7 DEF Command, Ids
  <2>2. commands' \in Seq(Nat) /\ DOMAIN commands \subseteq DOMAIN commands'
        /\ \A j \in DOMAIN commands' : commands'[j] = i \/ (j \in DOMAIN commands /\ commands'[j] = commands[j])
    BY <1>1, <2>1
  <2>3. \A j \in DOMAIN commands : commands[j] \in {None} \cup Ids
    BY <1>1 DEF CommandInv
  <2>4. UNCHANGED <<removed, spent>>
    BY <1>7 DEF Command, log
  <2> QED
    BY <1>5, <2>2, <2>3, <2>4
<1> QED
  BY <1>4, <1>6, <1>7


-----------------------------------------------------------------------------
(* The invariant.                                                          *)

(* It holds when nothing has been posted.                                  *)
LEMMA RecordsInit == Init => RecordsInv
<1> SUFFICES ASSUME Init PROVE RecordsInv
  OBVIOUS
<1>1. /\ run = Idle /\ run \in Run /\ run.phase = "idle" /\ run.posted = None
      /\ run.ignored = None /\ run.settling = FALSE
  BY IdleIs DEF Init
<1>2. /\ timeline = <<>> /\ timeline \in Seq(Record) /\ Len(timeline) = 0 /\ Ids = {}
      /\ removed = {} /\ anchored = {} /\ attested = {} /\ failed = {}
      /\ commands = <<>> /\ commands \in Seq(Nat) /\ DOMAIN commands = {}
      /\ spent \in [changes : Nat, faults : Nat, deletions : Nat] /\ spent.changes = 0
      /\ been = Actual(facts)
  BY DEF Init, Ids
<1>3. /\ facts \in [body : {0, 1}, accepted : Readiness, rev : Nat, pull : 0 .. 2]
      /\ facts.accepted.at \in {0, 1}
  BY DEF Init, Readiness
<1>4. TypeOK
  BY <1>1, <1>2, <1>3 DEF TypeOK, None
<1>5. PlaceInv /\ CommandInv /\ PlanInv
  BY <1>1, <1>2 DEF PlaceInv, CommandInv, PlanInv, Reading, Planned, Publishing
<1>6. ActiveInv
  <2>1. Active(attested) = {}
    BY <1>2 DEF Active
  <2> QED
    BY <2>1 DEF ActiveInv
<1>7. ChainIsLinear /\ CheckpointInv /\ CheckpointIsEarned
  BY <1>2 DEF ChainIsLinear, CheckpointInv, CheckpointIsEarned
<1>8. TruthInv
  BY <1>1, <1>2, <1>3 DEF TruthInv, Actual, Reading, Planned
<1> QED
  BY <1>4, <1>5, <1>6, <1>7, <1>8 DEF RecordsInv

(* Every step keeps it.                                                    *)
LEMMA RecordsStep == RecordsInv /\ [Next]_vars => RecordsInv'
<1> SUFFICES ASSUME RecordsInv, [Next]_vars PROVE RecordsInv'
  OBVIOUS
<1>1. CASE Scheduled
  BY <1>1, WakeStep DEF Scheduled
<1>2. CASE Direct
  BY <1>2, WakeStep DEF Direct
<1>3. CASE Steps
  BY <1>3, ReadOrphanStep, ReadHistoryStep, ReadFactsStep, ReadProducerHistoryStep, EvaluateStep,
     PostStep, AnchorStep, AttestStep, EndSteps DEF Steps
<1>4. CASE Lose
  BY <1>4, EndSteps
<1>5. CASE People
  BY <1>5, ChangeSteps, CommentSteps DEF People
<1>6. CASE UNCHANGED vars
  <2>1. UNCHANGED <<facts, timeline, removed, anchored, attested, failed, commands, run, been, spent>>
    BY <1>6 DEF vars
  <2>2. TypeOK /\ CommandInv
    BY DEF RecordsInv
  <2>3. TypeOK'
    BY <2>1, <2>2 DEF TypeOK, Ids
  <2>4. CommandInv'
    BY <2>1, <2>2 DEF CommandInv, Ids
  <2>5. TruthInv'
    BY <2>1, TruthSame
  <2>6. /\ PlaceInv' /\ PlanInv'
        /\ ChainIsLinear' /\ ActiveInv' /\ CheckpointInv' /\ CheckpointIsEarned'
    BY <2>1, RunKept
  <2> QED
    BY <2>3, <2>4, <2>5, <2>6 DEF RecordsInv
<1> QED
  BY <1>1, <1>2, <1>3, <1>4, <1>5, <1>6 DEF Next

(* It always holds.                                                        *)
LEMMA RecordsInvariant == Spec => []RecordsInv
BY RecordsInit, RecordsStep, PTL DEF Spec

-----------------------------------------------------------------------------
(* Theorems.                                                               *)

(* The variables hold what the writer, the reader and the coordinator put  *)
(* there, and a run that still goes on is never known as failed            *)
(* (lifecycle-record-writer.mjs).                                          *)
THEOREM RecordsTypeCorrect == Spec => []TypeOK
<1>1. RecordsInv => TypeOK
  BY DEF RecordsInv
<1> QED
  BY <1>1, RecordsInvariant, PTL

(* The authenticated records are one chain, whatever runs are lost between *)
(* the four calls of a publication and whatever people delete              *)
(* (readAuthenticatedHistory, writeRecord).                                *)
THEOREM ChainIsAlwaysLinear == Spec => []ChainIsLinear
<1>1. RecordsInv => ChainIsLinear
  BY DEF RecordsInv
<1> QED
  BY <1>1, RecordsInvariant, PTL

(* A checkpoint rests on one request, its claimed fence and one result of  *)
(* each producer, all of its own generation (transitionRecord).            *)
THEOREM CheckpointsAreEarned == Spec => []CheckpointIsEarned
<1>1. RecordsInv => CheckpointIsEarned
  BY DEF RecordsInv
<1> QED
  BY <1>1, RecordsInvariant, PTL

(* The generation of a checkpoint was true at some instant, although the   *)
(* coordinator reads the comments before the issue and its pull request.   *)
THEOREM CheckpointsWereTrue == Spec => []CheckpointWasTrue
<1>1. RecordsInv => CheckpointWasTrue
  BY DEF RecordsInv, TypeOK, TruthInv, CheckpointWasTrue
<1> QED
  BY <1>1, RecordsInvariant, PTL


(* A log without a gap is one chain from its newest checkpoint, and from   *)
(* the root of that checkpoint.                                            *)
LEMMA ChainOf ==
  ASSUME timeline \in Seq(Record), attested = Ids, ChainIsLinear,
         NEW root \in Ids \cup {None}, NEW last \in Ids \cup {None}
  PROVE  Chained({i \in Ids : i > root /\ i <= last}, root)
<1> DEFINE ids == {i \in Ids : i > root /\ i <= last}
<1>1. Ids = 1 .. Len(timeline) /\ Len(timeline) \in Nat
  BY DEF Ids
<1>2. ASSUME NEW i \in Ids PROVE timeline[i].prior = i - 1
  <2> DEFINE before == {j \in Ids : j < i}
  <2>1. timeline[i].prior = Newest(before)
    BY <1>2 DEF ChainIsLinear
  <2>2. before \in SUBSET (1 .. Len(timeline)) /\ i - 1 \in before \cup {None} /\ \A j \in before : j <= i - 1
    BY <1>1, <1>2 DEF None
  <2> HIDE DEF before
  <2>3. Newest(before) = i - 1
    BY <1>1, <2>2, NewestIsThe
  <2> QED
    BY <2>1, <2>3
<1>3. ASSUME NEW i \in ids PROVE timeline[i].prior \in ids \cup {root}
  <2>1. i \in Ids /\ timeline[i].prior = i - 1
    BY <1>2
  <2>2. i - 1 = root \/ i - 1 \in ids
    BY <1>1, <1>3 DEF None
  <2> QED
    BY <2>1, <2>2
<1>4. ASSUME NEW i \in ids, NEW j \in ids, timeline[i].prior = timeline[j].prior PROVE i = j
  <2>1. i - 1 = j - 1
    BY <1>2, <1>4
  <2> QED
    BY <1>1, <2>1
<1> QED
  BY <1>3, <1>4 DEF Chained

(* The steps of the run and of people leave the suffix as it is; the one   *)
(* that attests a record adds it, or begins another suffix.                *)
LEMMA FillStep == RecordsInv /\ FillInv /\ [Next]_vars => FillInv'
<1> SUFFICES ASSUME RecordsInv, FillInv, [Next]_vars PROVE FillInv'
  OBVIOUS
<1>1. /\ timeline \in Seq(Record) /\ attested \in SUBSET Ids /\ Ids = 1 .. Len(timeline) /\ Len(timeline) \in Nat
  BY TypeFacts DEF RecordsInv, TypeOK
<1>2. ASSUME attested' = attested, Grows PROVE FillInv'
  <2>1. Suffix(attested)' = Suffix(attested)
    BY <1>1, <1>2, SameLog
  <2> QED
    BY <2>1 DEF FillInv
<1>3. CASE Attest
  <2> DEFINE k == run.posted
             more == attested \cup {k}
  <2>1. /\ run.phase = "attest" /\ attested' = more /\ timeline' = timeline
    BY <1>3 DEF Attest
  <2>2. Cardinality(Suffix(attested)) <= LiveLimit /\ k \in Ids /\ k = Len(timeline) /\ k \notin attested
    BY <2>1 DEF RecordsInv, PlaceInv, Reading
  <2>3. IsFiniteSet(Suffix(attested)) /\ Suffix(attested) \in SUBSET (1 .. Len(timeline))
    <3>1. Suffix(attested) \in SUBSET (1 .. Len(timeline))
      BY <1>1 DEF Suffix
    <3>2. IsFiniteSet(1 .. Len(timeline))
      BY <1>1, FS_Interval
    <3> QED
      BY <3>1, <3>2, FS_Subset
  <2>4. Suffix(attested)' = Suffix(more)
    <3>1. NewestCheckpoint(attested)' = NewestCheckpoint(more)
      BY <2>1 DEF NewestCheckpoint, IsCheckpoint
    <3> QED
      BY <2>1, <3>1 DEF Suffix
  <2>5. Suffix(more) \subseteq Suffix(attested) \cup {k}
    <3> DEFINE old == NewestCheckpoint(attested)
               new == NewestCheckpoint(more)
    <3>1. /\ old \in attested \cup {None} /\ old \in 0 .. Len(timeline)
          /\ old # None => IsCheckpoint(old)
      BY <1>1, NewestCheckpointIs
    <3>2. more \in SUBSET Ids
      BY <1>1, <2>2
    <3>3. new \in 0 .. Len(timeline) /\ \A i \in more : IsCheckpoint(i) => i <= new
      <4> HIDE DEF more
      <4> QED
        BY <1>1, <3>2, NewestCheckpointIs
    <3>4. old <= new
      <4>1. old # None => old \in more
        BY <3>1
      <4> HIDE DEF old, new, more
      <4> QED
        BY <3>1, <3>3, <4>1 DEF None
    <3>5. Suffix(more) = {i \in more : i > new} /\ Suffix(attested) = {i \in attested : i > old}
      BY DEF Suffix
    <3>6. \A i \in attested : i \in Nat
      BY <1>1
    <3> HIDE DEF old, new
    <3>7. \A i \in attested : i > new => i > old
      BY <1>1, <3>1, <3>3, <3>4, <3>6
    <3> QED
      BY <3>5, <3>7
  <2>6. /\ IsFiniteSet(Suffix(attested) \cup {k})
        /\ Cardinality(Suffix(attested) \cup {k}) =
             IF k \in Suffix(attested) THEN Cardinality(Suffix(attested)) ELSE Cardinality(Suffix(attested)) + 1
    <3> HIDE DEF k
    <3> QED
      BY <2>3, FS_AddElement
  <2>7. Cardinality(Suffix(more)) <= Cardinality(Suffix(attested) \cup {k}) /\ Cardinality(Suffix(more)) \in Nat
    <3> HIDE DEF k, more
    <3> QED
      BY <2>5, <2>6, FS_Subset, FS_CardinalityType
  <2>8. Cardinality(Suffix(attested)) \in Nat /\ LiveLimit \in Nat
    BY <2>3, FS_CardinalityType, RecordsAssumption
  <2> DEFINE a == Cardinality(Suffix(attested))
             b == Cardinality(Suffix(attested) \cup {k})
             c == Cardinality(Suffix(more))
  <2>9. c <= LiveLimit + 1
    <3>1. a <= LiveLimit /\ a \in Nat /\ c \in Nat /\ c <= b /\ (b = a \/ b = a + 1) /\ LiveLimit \in Nat
      BY <2>2, <2>6, <2>7, <2>8
    <3> HIDE DEF a, b, c
    <3> QED
      BY <3>1
  <2> QED
    BY <2>4, <2>9 DEF FillInv
<1>4. CASE Post
  <2>1. timeline' = Append(timeline, run.plan) /\ attested' = attested
    BY <1>4 DEF Post
  <2>2. Grows
    BY <1>1, <2>1 DEF Grows, Ids
  <2> QED
    BY <1>2, <2>1, <2>2
<1>5. CASE timeline' = timeline /\ attested' = attested
  BY <1>2, <1>5 DEF Grows, Ids
<1>6. (timeline' = timeline /\ attested' = attested) \/ Attest \/ Post
  <2>1. CASE Scheduled \/ Direct
    BY <2>1 DEF Scheduled, Direct, Wake, log
  <2>2. CASE Steps
    BY <2>2 DEF Steps, ReadOrphan, ReadHistory, ReadFacts, ReadProducerHistory, Evaluate, Anchor, Verify, End, log
  <2>3. CASE Lose
    BY <2>3 DEF Lose
  <2>4. CASE People
    <3>1. CASE DeleteComment \/ DeleteCommand \/ Command
      BY <3>1 DEF DeleteComment, DeleteCommand, Command, log
    <3>2. CASE ~(DeleteComment \/ DeleteCommand \/ Command)
      BY <2>4, <3>2 DEF People, EditBody, AcceptReadiness, RejectReadiness, MoveFacts, OpenPull, ClosePull, Change, log
    <3> QED
      BY <3>1, <3>2
  <2>5. CASE UNCHANGED vars
    BY <2>5 DEF vars
  <2> QED
    BY <2>1, <2>2, <2>3, <2>4, <2>5 DEF Next
<1> QED
  BY <1>3, <1>4, <1>5, <1>6

(* It always holds.                                                        *)
LEMMA FillInvariant == Spec => [](RecordsInv /\ FillInv)
<1>1. Init => RecordsInv /\ FillInv
  <2>1. Init => RecordsInv
    BY RecordsInit
  <2>2. ASSUME Init PROVE FillInv
    <3>1. Suffix(attested) = {}
      BY <2>2 DEF Init, Suffix
    <3>2. Cardinality({}) = 0
      BY FS_EmptySet
    <3> QED
      BY <3>1, <3>2, RecordsAssumption DEF FillInv
  <2> QED
    BY <2>1, <2>2
<1>2. (RecordsInv /\ FillInv) /\ [Next]_vars => (RecordsInv /\ FillInv)'
  BY RecordsStep, FillStep
<1> QED
  BY <1>1, <1>2, PTL DEF Spec

(* One element more is at most one more.                                   *)
LEMMA OneElementMore ==
  ASSUME NEW S, IsFiniteSet(S), NEW n \in Nat, Cardinality(S) <= n, NEW x
  PROVE  IsFiniteSet(S \cup {x}) /\ Cardinality(S \cup {x}) <= n + 1
<1>1. /\ IsFiniteSet(S \cup {x})
      /\ Cardinality(S \cup {x}) = IF x \in S THEN Cardinality(S) ELSE Cardinality(S) + 1
  BY FS_AddElement
<1>2. Cardinality(S) \in Nat
  BY FS_CardinalityType
<1> QED
  BY <1>1, <1>2

(* Four elements are at most four.                                         *)
LEMMA AtMostFour ==
  ASSUME NEW a, NEW b, NEW c, NEW d
  PROVE  IsFiniteSet({a, b, c, d}) /\ Cardinality({a, b, c, d}) <= 4
<1> DEFINE one == {a}
           two == one \cup {b}
           three == two \cup {c}
           four == three \cup {d}
<1>1. four = {a, b, c, d}
  OBVIOUS
<1>2. IsFiniteSet(one) /\ Cardinality(one) <= 1
  BY FS_Singleton
<1>3. IsFiniteSet(two) /\ Cardinality(two) <= 1 + 1
  <2> HIDE DEF one
  <2> QED
    BY <1>2, OneElementMore
<1>4. IsFiniteSet(three) /\ Cardinality(three) <= 2 + 1
  <2>1. Cardinality(two) <= 2
    BY <1>3
  <2> HIDE DEF two
  <2> QED
    BY <1>3, <2>1, OneElementMore
<1>5. IsFiniteSet(four) /\ Cardinality(four) <= 3 + 1
  <2>1. Cardinality(three) <= 3
    BY <1>4
  <2> HIDE DEF three
  <2> QED
    BY <1>4, <2>1, OneElementMore
<1> HIDE DEF four
<1>6. Cardinality(four) <= 4
  BY <1>5
<1> QED
  BY <1>1, <1>5, <1>6

(* One generation that was not given up has at most four records: its      *)
(* request, its fence and a result of each producer.                       *)
LEMMA OpenIsSmall ==
  ASSUME timeline \in Seq(Record), attested \in SUBSET Ids, ActiveInv,
         \A i \in Suffix(attested) : ~Closes(i)
  PROVE  Cardinality(Suffix(attested)) <= 4
<1> DEFINE active == Active(attested)
           request == Min(active)
           fences == OfType(active, "fence")
           results == OfType(active, "producer")
<1>1. Suffix(attested) = active
  <2> DEFINE c == NewestCheckpoint(attested)
             e == Newest(Ends(attested))
             n == Len(timeline)
  <2>1. /\ active = {i \in attested : i > e} /\ e \in Ends(attested) \cup {None} /\ e \in 0 .. n
        /\ active \in SUBSET Suffix(attested) /\ n \in Nat
    BY ActiveIs
  <2>2. c \in 0 .. n /\ \A i \in attested : IsCheckpoint(i) => i <= c
    BY NewestCheckpointIs
  <2>3. Suffix(attested) = {i \in attested : i > c} /\ attested \in SUBSET (1 .. n)
    BY DEF Suffix, Ids
  <2>4. e <= c
    <3>1. CASE e = None
      BY <2>2, <3>1 DEF None
    <3>2. CASE e # None
      <4>1. e \in attested /\ (IsCheckpoint(e) \/ Closes(e))
        BY <2>1, <3>2 DEF Ends
      <4>2. e \notin Suffix(attested) \/ ~Closes(e)
        OBVIOUS
      <4> HIDE DEF c, e
      <4> QED
        BY <2>1, <2>2, <2>3, <4>1, <4>2
    <3> QED
      BY <3>1, <3>2
  <2> HIDE DEF c, e
  <2>5. \A i \in attested : i > c => i > e
    BY <2>1, <2>2, <2>3, <2>4
  <2> QED
    BY <2>1, <2>3, <2>5
<1>2. CASE active = {}
  <2>1. Cardinality({}) = 0
    BY FS_EmptySet
  <2> QED
    BY <1>1, <1>2, <2>1
<1>3. CASE active # {}
  <2>1. Opened(active) /\ request \in Ids /\ results \in SUBSET active /\ active \in SUBSET attested
    BY <1>3, OpenIs
  <2>2. /\ active \subseteq {request} \cup fences \cup results
        /\ \A i, j \in fences : i = j
        /\ \A i \in results : timeline[i].producer \in timeline[request].expected
        /\ \A i, j \in results : i < j =>
             timeline[i].producer = "issue-contract-current" /\ timeline[j].producer = "pr-contract"
    BY <2>1 DEF Opened
  <2>3. timeline[request].expected \in SUBSET Producers
    BY <2>1, RecordOf
  <2>4. results \in SUBSET Nat
    BY <2>1 DEF Ids
  <2> HIDE DEF results, fences, request, active
  <2>5. \A i, j \in results : timeline[i].producer = timeline[j].producer => i = j
    <3>1. \A i, j \in results : i # j => i < j \/ j < i
      BY <2>4
    <3> QED
      BY <2>2, <3>1
  <2>6. PICK f : fences \subseteq {f}
    BY <2>2
  <2>7. PICK a : \A i \in results : timeline[i].producer = "issue-contract-current" => i = a
    BY <2>5
  <2>8. PICK b : \A i \in results : timeline[i].producer = "pr-contract" => i = b
    BY <2>5
  <2>9. active \subseteq {request, f, a, b}
    <3>1. \A i \in results : i = a \/ i = b
      BY <2>2, <2>3, <2>7, <2>8 DEF Producers
    <3> QED
      BY <2>2, <2>6, <3>1
  <2>10. IsFiniteSet({request, f, a, b}) /\ Cardinality({request, f, a, b}) <= 4
    BY AtMostFour
  <2>11. Cardinality(active) <= Cardinality({request, f, a, b}) /\ Cardinality(active) \in Nat
    BY <2>9, <2>10, FS_Subset, FS_CardinalityType
  <2>12. Cardinality({request, f, a, b}) \in Nat
    BY <2>10, FS_CardinalityType
  <2> QED
    BY <1>1, <2>10, <2>11, <2>12
<1> QED
  BY <1>2, <1>3

(* What was posted is attested when nothing was cut short.                 *)
LEMMA AllAttested ==
  ASSUME RecordsInv, Ids \ {run.posted} \subseteq attested, run.phase \notin {"anchor", "attest"}
  PROVE  attested = Ids
<1> DEFINE posted == run.posted
<1>1. attested \subseteq Ids /\ None \notin Ids
  BY DEF RecordsInv, TypeOK, Ids, None
<1>2. posted \in {None} \cup attested /\ Ids \ {posted} \subseteq attested
  BY DEF RecordsInv, PlaceInv, TypeOK, Run
<1> HIDE DEF posted
<1> QED
  BY <1>1, <1>2

(* Within the limit such a log is readable.                                *)
LEMMA WithinIsReadable ==
  ASSUME RecordsInv, removed = {}, Ids \ {run.posted} \subseteq attested,
         run.phase \notin {"anchor", "attest"}, Cardinality(Suffix(Ids)) <= LiveLimit
  PROVE  Readable(None)
<1>1. /\ TypeOK /\ timeline \in Seq(Record) /\ Ids = 1 .. Len(timeline) /\ Len(timeline) \in Nat
      /\ ChainIsLinear /\ CheckpointInv
      /\ attested \subseteq anchored /\ anchored \subseteq Ids
  BY TypeFacts DEF RecordsInv, TypeOK
<1>3. attested = Ids /\ anchored = Ids
  BY <1>1, AllAttested
<1>4. Marked(None) = Ids
  BY <1>1 DEF Marked, Ids, None
<1> DEFINE c == NewestCheckpoint(Ids)
           ids == Live(Ids)
<1>5. /\ NewestCheckpoint(ids) = c /\ ids \ {c} = Suffix(Ids) /\ ids \in SUBSET Ids
  BY <1>1, LiveIs
<1>6. /\ c \in Ids \cup {None}
      /\ c # None => c \in Ids /\ IsCheckpoint(c)
  BY <1>1, NewestCheckpointIs
<1>7. Chained(ids \ {c}, c)
  <2>1. Len(timeline) \in Ids \cup {None} /\ \A i \in Ids : i <= Len(timeline)
    BY <1>1 DEF None
  <2>2. Suffix(Ids) = {i \in Ids : i > c /\ i <= Len(timeline)}
    BY <2>1 DEF Suffix
  <2> HIDE DEF c
  <2>3. Chained({i \in Ids : i > c /\ i <= Len(timeline)}, c)
    BY <1>1, <1>3, <1>6, <2>1, ChainOf
  <2> QED
    BY <1>5, <2>2, <2>3 DEF c
<1>8. ASSUME c # None PROVE CheckpointHolds(c)
  <2> DEFINE before == {j \in attested : j < c}
             r == timeline[c]
  <2>1. /\ r.root = NewestCheckpoint(before)
        /\ r.members = Suffix(before) /\ r.members # {} /\ Cardinality(r.members) <= LiveLimit
        /\ r.sequence = IF r.root = None THEN 1 ELSE timeline[r.root].sequence + 1
    BY <1>1, <1>3, <1>6, <1>8 DEF CheckpointInv, Compacted
  <2>2. before \in SUBSET Ids
    BY <1>3
  <2>3. /\ r.root \in before \cup {None}
        /\ r.root # None => r.root \in before /\ IsCheckpoint(r.root)
    <3> HIDE DEF before
    <3> QED
      BY <1>1, <2>1, <2>2, NewestCheckpointIs
  <2>4. {c} \cup r.members = {i \in Ids : i > r.root /\ i <= c}
    <3> DEFINE root == r.root
    <3>1. r.members = {i \in before : i > root}
      BY <2>1 DEF Suffix
    <3>2. c \in 1 .. Len(timeline) /\ root \in 0 .. Len(timeline) /\ root < c
      BY <1>1, <1>3, <1>6, <1>8, <2>3 DEF None
    <3>3. before = {j \in Ids : j < c}
      BY <1>3
    <3> HIDE DEF root, before, c
    <3>4. \A i \in Ids : i <= c <=> i < c \/ i = c
      BY <1>1, <3>2
    <3>5. c \in Ids /\ c > root
      BY <1>1, <3>2
    <3>6. {c} \cup r.members = {i \in Ids : i > root /\ i <= c}
      BY <3>1, <3>3, <3>4, <3>5
    <3> QED
      BY <3>6 DEF root
  <2>5. Chained({c} \cup r.members, r.root)
    <3>1. r.root \in Ids \cup {None} /\ c \in Ids \cup {None}
      BY <1>6, <2>2, <2>3
    <3>2. \A root \in Ids \cup {None} : Chained({i \in Ids : i > root /\ i <= c}, root)
      <4> HIDE DEF c
      <4> QED
        BY <1>1, <1>3, <3>1, ChainOf
    <3> QED
      BY <2>4, <3>1, <3>2
  <2> QED
    BY <2>1, <2>3, <2>5 DEF CheckpointHolds, Compacts
<1>9. Reconciled(None)
  BY <1>3, <1>4 DEF Reconciled
<1>10. Authenticated(ids)
  BY <1>3, <1>5 DEF Authenticated, Witnessed, HasAnchor, HasAttestation
<1>11. Cardinality(ids \ {c}) <= LiveLimit
  BY <1>5
<1> QED
  BY <1>4, <1>5, <1>7, <1>8, <1>9, <1>10, <1>11 DEF Readable

(* What is written without interruption is read again up to the limit of   *)
(* the live suffix; past it the log is unreadable, by exactly one record   *)
(* and only when closed generations have filled it.                        *)
THEOREM WrittenIsAlwaysReadable == Spec => []WrittenIsReadable
<1>1. ASSUME RecordsInv, FillInv, removed = {}, Ids \ {run.posted} \subseteq attested,
             run.phase \notin {"anchor", "attest"}
      PROVE  \/ Readable(None) /\ Cardinality(Suffix(Ids)) <= LiveLimit
             \/ ~Readable(None) /\ Overflown
  <2>1. timeline \in Seq(Record) /\ attested = Ids /\ TypeOK /\ ActiveInv
    BY <1>1, AllAttested DEF RecordsInv, TypeOK
  <2>2. IsFiniteSet(Suffix(Ids))
    <3>1. Suffix(Ids) \in SUBSET (1 .. Len(timeline)) /\ Len(timeline) \in Nat
      BY <2>1 DEF Suffix, Ids
    <3>2. IsFiniteSet(1 .. Len(timeline))
      BY <3>1, FS_Interval
    <3> QED
      BY <3>1, <3>2, FS_Subset
  <2>3. Cardinality(Suffix(Ids)) \in Nat /\ LiveLimit \in Nat /\ LiveLimit >= 4
    BY <2>2, FS_CardinalityType, RecordsAssumption
  <2>4. CASE Cardinality(Suffix(Ids)) <= LiveLimit
    BY <1>1, <2>4, WithinIsReadable
  <2>5. CASE ~(Cardinality(Suffix(Ids)) <= LiveLimit)
    <3>1. Cardinality(Suffix(Ids)) <= LiveLimit + 1
      BY <1>1, <2>1 DEF FillInv
    <3>2. Cardinality(Suffix(Ids)) = LiveLimit + 1
      BY <2>3, <2>5, <3>1
    <3>3. ~ \A i \in Suffix(Ids) : ~Closes(i)
      BY <2>1, <2>3, <2>5, OpenIsSmall
    <3>4. ~Readable(None)
      BY <2>1, <2>5, ReadableShows
    <3> QED
      BY <3>2, <3>3, <3>4 DEF Overflown
  <2> QED
    BY <2>4, <2>5
<1>2. RecordsInv /\ FillInv => WrittenIsReadable
  BY <1>1 DEF WrittenIsReadable
<1> QED
  BY <1>2, FillInvariant, PTL

=============================================================================
