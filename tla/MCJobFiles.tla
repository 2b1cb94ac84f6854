----------------------------- MODULE MCJobFiles -----------------------------
(***************************************************************************)
(* Two candidates and a repository of four paths: a source file and one    *)
(* that can be created beside it, one that git ignores, and a file outside *)
(* of the source root that can be moved, with an edit, beside the source   *)
(* file.  In one setup the job works on its candidates; in the others it   *)
(* is only started, with every kind of profile and request.                *)
(***************************************************************************)
EXTENDS JobFiles

CONSTANTS first, second,             \* candidates
          agent, model, other,       \* models
          evaluator, own, data, check,
          s, m, i, p, s0, p0, p1, n  \* paths and contents; p1 is like p0

MCBase == [f \in Paths |-> CASE f = s -> s0 [] f = p -> p0 [] OTHER -> Absent]

MCSimilar == {<<v, v>> : v \in Contents} \cup {<<p0, p1>>}

\* The second candidate is edited less, which keeps the run small.
MCWritable ==
    [c \in Candidates |-> [f \in Paths |->
        CASE f = s -> {s0, n}
          [] f = m -> IF c = first THEN {p1, Absent} ELSE {}
          [] f = i -> IF c = first THEN {n} ELSE {}
          [] f = p -> IF c = first THEN {Absent} ELSE {}]]

MCParents == [c \in Candidates |-> IF c = first THEN {None} ELSE {first}]

Profile0 ==
    [gate |-> "require_foundry_evaluation", bundle |-> TRUE, scoped |-> TRUE,
     dev |-> {evaluator, own}, val |-> {evaluator},
     checks |-> {}, guarded |-> TRUE, aligned |-> FALSE, activated |-> FALSE,
     minCandidates |-> 1, maxCandidates |-> 2, editable |-> {s, m, i},
     models |-> {model, other}, baseline |-> model]
Request0 ==
    [agent |-> None, budget |-> 2, models |-> None, scope |-> None,
     evaluators |-> {}, data |-> None, checks |-> {}, ack |-> FALSE]

Gate(g, bundle, checks) ==
    [Profile0 EXCEPT !.gate = g, !.bundle = bundle, !.checks = checks]
Profiles0 ==
    {Profile0, Gate("allow_repository_checks", TRUE, {}),
     Gate("allow_repository_checks", FALSE, {check}),
     Gate("allow_no_evidence", FALSE, {check}),
     Gate("allow_no_evidence", FALSE, {})}

Setup(profile, permission, dynamic, works) ==
    [registry |-> [a \in {agent} |-> profile], permission |-> permission,
     dynamic |-> dynamic, issue |-> Request0, works |-> works]

MCSetups ==
    {Setup(Profile0, "write", TRUE, TRUE)}
    \cup {Setup(profile, permission, dynamic, FALSE) :
             profile \in Profiles0, permission \in {"write", "read"},
             dynamic \in BOOLEAN}

MCIssueEdits ==
    {Request0, [Request0 EXCEPT !.scope = {s}], [Request0 EXCEPT !.ack = TRUE],
     [Request0 EXCEPT !.evaluators = {evaluator}],
     [Request0 EXCEPT !.evaluators = {own}],
     [Request0 EXCEPT !.checks = {check}], [Request0 EXCEPT !.data = data],
     [Request0 EXCEPT !.budget = 1]}

MCKeys == {"identity", "verification", "baseline", "decision", first, second}
MCIdentities ==
    {IdentityOf(x.registry, r) : x \in MCSetups, r \in MCIssueEdits}
MCValues == {Empty} \cup MCIdentities \cup V!Resolutions \cup Marks
=============================================================================
