------------------------------- MODULE Estimate ------------------------------
(***************************************************************************)
(* The structural estimates shown before a run: how often a worker, a      *)
(* pinned command or a child may at most be asked, and how many branches   *)
(* may be open at once. EstimateWorkflow reads the blocks of a workflow,   *)
(* EstimateRecipe the graph of a hand-written recipe. The estimated        *)
(* seconds are not modelled.                                               *)
(***************************************************************************)
EXTENDS NativeRecipe, FiniteSetsExt

NoCost ==
    [user |-> 0, submissions |-> 0, pinned |-> 0, child |-> 0, maxChild |-> 0,
     branches |-> 0, childBranches |-> 0, nodes |-> 0, fragments |-> 0]

Higher(a, b) == IF a >= b THEN a ELSE b

\* What happens one after the other adds up; peaks are the higher of the two.
Add(m, n) ==
    [f \in DOMAIN m |->
        IF f \in {"branches", "childBranches"} THEN Higher(m[f], n[f]) ELSE m[f] + n[f]]

Total(ms, field) == FoldLeft(LAMBDA a, m : a + m[field], 0, ms)
Highest(ms, field) == FoldLeft(LAMBDA a, m : Higher(a, m[field]), 0, ms)

(* Mutant: a retried block is counted once. *)
SingleTry(x) == 1

RetryLimit(x) == IF x.retry > 0 THEN x.retry ELSE 1

EstimateStep(x, times) ==
    [NoCost EXCEPT !.user = 1, !.submissions = RetryLimit(x) * times,
                   !.nodes = IF RetryLimit(x) > 1 THEN 3 ELSE 1]

EstimateVerify(x, times) ==
    [NoCost EXCEPT !.pinned = 1, !.submissions = RetryLimit(x) * times,
                   !.nodes = IF RetryLimit(x) > 1 THEN 4 ELSE 2]

EstimateCall(times) == [NoCost EXCEPT !.child = 1, !.maxChild = times, !.nodes = 1]

EstimateChoose(ms) ==
    [NoCost EXCEPT !.user = Total(ms, "user"), !.pinned = Total(ms, "pinned"),
                   !.child = Total(ms, "child"),
                   !.submissions = Highest(ms, "submissions"),
                   !.maxChild = Highest(ms, "maxChild"),
                   !.branches = Highest(ms, "branches"),
                   !.childBranches = Highest(ms, "childBranches"),
                   !.nodes = 2 + Total(ms, "nodes")]

EstimateParallel(ms) ==
    [NoCost EXCEPT !.branches = Higher(Len(ms), Highest(ms, "branches")),
                   !.childBranches = FoldLeft(LAMBDA a, m :
                        a + Higher(m.childBranches, IF m.maxChild > 0 THEN 1 ELSE 0), 0, ms),
                   !.user = Total(ms, "user"), !.submissions = Total(ms, "submissions"),
                   !.pinned = Total(ms, "pinned"), !.child = Total(ms, "child"),
                   !.maxChild = Total(ms, "maxChild"),
                   !.nodes = 2 + Total(ms, "nodes"),
                   !.fragments = Total(ms, "fragments")]

RECURSIVE EstimateFlow(_, _)
RECURSIVE EstimateBlock(_, _)

EstimateBlock(x, times) ==
    CASE x.b = "step" -> EstimateStep(x, times)
      [] x.b = "verify" -> EstimateVerify(x, times)
      [] x.b = "call" -> EstimateCall(times)
      [] x.b = "repeat" -> Add([NoCost EXCEPT !.nodes = 2],
                               EstimateFlow(x.do, times * x.limit))
      [] x.b = "choose" ->
            EstimateChoose([i \in DOMAIN x.bodies |-> EstimateFlow(x.bodies[i], times)]
                           \o [i \in DOMAIN x.default |-> EstimateFlow(x.default[i], times)])
      [] x.b = "parallel" ->
            EstimateParallel([i \in DOMAIN x.branches |-> EstimateFlow(x.branches[i], times)])
      [] x.b = "graph" -> [NoCost EXCEPT !.nodes = 1, !.fragments = 1]
      [] x.b = "escalate" -> NoCost
      [] OTHER -> [NoCost EXCEPT !.nodes = 1]

EstimateFlow(flow, times) ==
    FoldLeft(Add, NoCost, [i \in DOMAIN flow |-> EstimateBlock(flow[i], times)])

EstimateWorkflow(flow) == Add([NoCost EXCEPT !.nodes = 4], EstimateFlow(flow, 1))

(***************************************************************************)
(* A recipe: every cap on a cycle through a node multiplies its visits.    *)
(***************************************************************************)
Successors(d, S) == UNION {Range(d.edges[i].to) :
                             i \in {j \in DOMAIN d.edges : d.edges[j].from \cap S # {}}}

RECURSIVE Closed(_, _)
Closed(d, S) == LET T == S \cup Successors(d, S) IN IF T = S THEN S ELSE Closed(d, T)

\* A node reaches itself, as the source's search does at once.
Reaches(d, n, m) == m \in Closed(d, {n})

Executions(d, n) ==
    LET around == {g \in DOMAIN d.limits : Reaches(d, g, n) /\ Reaches(d, n, g)}
    IN  FoldSet(LAMBDA g, t : t * d.limits[g], 1, around)

FreeTargets(d, n) ==
    UNION {Range(d.edges[i].to) :
             i \in {j \in DOMAIN d.edges : n \in d.edges[j].from
                                           /\ d.edges[j].when = Always}}

PeakBranches(d) ==
    LET wide == {n \in DOMAIN d.nodes : Cardinality(FreeTargets(d, n)) > 1}
    IN  FoldSet(LAMBDA n, t : Higher(Cardinality(FreeTargets(d, n)), t), 0, wide)

EstimateNode(d, n) ==
    LET node == d.nodes[n] IN
    CASE node.kind = "manual" -> [NoCost EXCEPT !.user = 1, !.submissions = Executions(d, n)]
      [] node.kind = "verify" -> [NoCost EXCEPT !.pinned = 1, !.submissions = Executions(d, n)]
      [] OTHER -> NoCost

EstimateRecipe(d) ==
    [FoldSet(LAMBDA n, m : Add(EstimateNode(d, n), m), NoCost, DOMAIN d.nodes) EXCEPT
        !.nodes = Cardinality(DOMAIN d.nodes), !.branches = PeakBranches(d)]
=============================================================================
