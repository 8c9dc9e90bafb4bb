-------------------------- MODULE MCIssueLifecycle --------------------------
EXTENDS IssueLifecycle

CONSTANTS w, t, b1, b2, h1

\* a triage request, another request under the same identity, a request for a
\* pair nobody may ask for, and one the parser refuses
Request(id, s, target) ==
  [id |-> id, source |-> s, target |-> target, actor |-> w,
   reason |-> target \in Paused, attested |-> target = "triaged"]
Requests ==
  {Request("r1", "new", "triaged"), Request("r1", "triaged", "blocked"),
   Request("r2", "review", "ready"),
   [Request("r3", "new", "triaged") EXCEPT !.attested = FALSE]}
Edits == [a \in {"enabled", "disabled"} |-> IF a = "enabled" THEN 2 ELSE 3]
Gestured == {"ready", "done"}
Starts == [a \in {"enabled", "disabled"} |->
             IF a = "enabled" THEN {"new", "review"} ELSE {"ready", "review"}]

\* the two bodies and the two heads are alike, so it starts with one of each;
\* until the activation the issue starts with a pull request it made ready
MCInit ==
  /\ Init /\ issue.body = b1
  /\ \A p \in PRs : prs[p].head # "none" => prs[p].head = h1
  /\ ~Enabled => \E p \in PRs : prs[p].state = "open"
MCSpec == MCInit /\ [][Next]_vars /\ Fairness
=============================================================================
