------------------------------ MODULE MCCompiler ------------------------------
(***************************************************************************)
(* The workflow compiler on a list of small workflows and on every         *)
(* fragment and hand-written recipe of a family. A workflow the validation *)
(* accepts is lowered, and the executor runs the recipe with every answer  *)
(* an effect may be given; what the run does is compared with the meaning  *)
(* of the source. Some of the workflows are wrong on purpose: they are     *)
(* there for the validation to refuse. Beside it, in behaviours of their   *)
(* own, processes publish what was compiled (Authoring).                   *)
(***************************************************************************)
EXTENDS NativeGraph, Authoring

VARIABLES
  which,             \* "graph" or "authoring"
  source, estimate   \* the workflow, and what was announced of it

L == INSTANCE Lowering
V == INSTANCE WorkflowSemantics
W == INSTANCE WorkflowMeaning
F == INSTANCE Fragments
E == INSTANCE Estimate
P == INSTANCE Profile

CallsOf == [parent |-> <<"child">>, child |-> << >>]

O == INSTANCE CallOrder WITH Calls <- CallsOf

ReadsOf == O!ReadOrder("parent", << >>)
OrderOf == O!Complete("parent", << >>)

graphVars == <<vars, source, estimate>>

(***************************************************************************)
(* Blocks.                                                                 *)
(***************************************************************************)
Step(id, writes) ==
    [b |-> "step", id |-> id, retry |-> 0, writes |-> writes, artifact |-> << >>]
Retry(x, n) == [x EXCEPT !.retry = n]
Exporting(id, path, handle) ==
    [Step(id, {path}) EXCEPT !.artifact = <<[handle |-> handle, path |-> path]>>]
Verify(id) == [b |-> "verify", id |-> id, retry |-> 0]
Decide(id, labels) == [b |-> "decide", id |-> id, labels |-> labels]
Accept(id, from) == [b |-> "accept", id |-> id, from |-> from]
Escalate(id) == [b |-> "escalate", id |-> id]
Choose(id, value, cases, bodies, default) ==
    [b |-> "choose", id |-> id, value |-> value, cases |-> cases, bodies |-> bodies,
     default |-> default]
Parallel(id, timed, branches) ==
    [b |-> "parallel", id |-> id, timed |-> timed, branches |-> branches]
Repeat(id, limit, do, until) ==
    [b |-> "repeat", id |-> id, limit |-> limit, do |-> do, until |-> until]
Graph(id, g) == [b |-> "graph", id |-> id, graph |-> g]
Call(id, child, artifacts) ==
    [b |-> "call", id |-> id, child |-> child, runner |-> "runner", artifacts |-> artifacts]

Bound(handle, producer, dest) == [handle |-> handle, producer |-> producer, dest |-> dest]

(***************************************************************************)
(* A fragment: an effect w, perhaps a second one v and a gate g, and one   *)
(* passthrough node for each exit. Routes are lists of <<target, when>>.   *)
(***************************************************************************)
Local(type, kind, key, puts) ==
    [type |-> type, puts |-> puts, kind |-> kind, key |-> key, scopes |-> << >>,
     writes |-> {}]

LocalNodes ==
    [w |-> Local("effect", "manual", "rw", << >>),
     v |-> Local("effect", "verify", "rv", << >>),
     g |-> Local("pass", "", "", <<<<"x", "go">>>>),
     p |-> Local("pass", "", "", << >>),
     f |-> Local("pass", "", "", << >>),
     e |-> Local("pass", "", "", << >>)]

Routes(n, route) == [i \in DOMAIN route |-> [from |-> {n}, to |-> route[i][1],
                                             when |-> route[i][2]]]

Fragment(routes, limit, exit) ==
    LET inner == DOMAIN routes
    IN  [nodes |-> [n \in inner \cup {"p", "f", "e"} |-> LocalNodes[n]],
         edges |-> FlattenSeq([i \in 1..Cardinality(inner) |->
                      LET n == Listed(inner)[i] IN Routes(n, routes[n])]),
         entry |-> "w", exits |-> [pass |-> "p", fail |-> "f", error |-> "e"],
         limits |-> IF limit > 0 THEN "g" :> limit ELSE << >>,
         loopExits |-> IF limit > 0 THEN "g" :> exit ELSE << >>,
         writes |-> {}]

ByOutcome(key, s, t, u) ==
    <<<<s, Only(Is(key, "outcome", "PASS"))>>, <<t, Only(Is(key, "outcome", "FAIL"))>>,
      <<u, Only(Is(key, "outcome", "ERROR"))>>>>
PassOrElse(key, s, t) ==
    <<<<s, Only(Is(key, "outcome", "PASS"))>>, <<t, Only(IsNot(key, "outcome", "PASS"))>>>>
Gate(s, t) ==
    <<<<s, Only(Is("x", "self", "go"))>>, <<t, Only(IsNot("x", "self", "go"))>>>>

EffectRoutes(key, S, T, U) ==
    {ByOutcome(key, s, t, u) : s \in S, t \in T, u \in U}
    \cup {PassOrElse(key, s, t) : s \in S, t \in T}
    \cup {<<<<s, Only(Is(key, "outcome", "PASS"))>>>> : s \in S}
    \cup {<<<<s, Always>>>> : s \in S}

Family ==
    {Fragment([w |-> a], 0, "f") : a \in EffectRoutes("rw", {"p", "w"}, {"f", "p", "w"}, {"e", "f"})}
    \cup {Fragment([w |-> a, g |-> c], limit, exit) :
            a \in EffectRoutes("rw", {"p", "g"}, {"f", "g", "p"}, {"e", "g"}),
            c \in {Gate("w", "f"), Gate("p", "f"), Gate("w", "p")}, limit \in 0..2,
            exit \in {"p", "f"}}
    \cup {Fragment([w |-> a, v |-> b], 0, "f") :
            a \in EffectRoutes("rw", {"v", "p"}, {"f", "v"}, {"e", "v"}),
            b \in EffectRoutes("rv", {"p", "w"}, {"f", "p"}, {"e", "p"})}
    \cup {Fragment([w |-> a, v |-> b, g |-> c], limit, exit) :
            a \in EffectRoutes("rw", {"v"}, {"f", "g"}, {"e"}),
            b \in EffectRoutes("rv", {"p", "g"}, {"f", "g"}, {"e"}),
            c \in {Gate("w", "f"), Gate("v", "f")}, limit \in 0..2,
            exit \in {"p", "f"}}

\* The order of the exits is of no matter: they have no successors.
Orders == {order \o <<"p", "f", "e">> : order \in SetToSeqs({"w", "v", "g"})}

AdmittedFamily == {x \in Family : \E order \in Orders : F!Admitted(x, order)}

(***************************************************************************)
(* Workflows. The right ones come first; each of the others breaks one     *)
(* rule of the validation or of the lowering.                              *)
(***************************************************************************)
Plain == Step("a", {})
Checked == Retry(Verify("v"), 2)
Twice(id, x, v) == Repeat(id, 2, <<x, Verify(v)>>, v)
Report == <<Exporting("r", <<"r">>, "report"), Verify("w")>>
Reported == Call("c", Report, {Bound("doc", "r", <<"out">>)})
Loop == Fragment([w |-> ByOutcome("rw", "v", "g", "e"), v |-> ByOutcome("rv", "p", "f", "e"),
                  g |-> Gate("w", "f")], 1, "f")
Question == Decide("d", <<"yes", "no">>)
Branching(x, y) == Choose("o", "d", <<"yes">>, <<<<x>>>>, <<<<y>>>>)

Right ==
    << <<Retry(Plain, 2), Checked>>,
       <<Question, Choose("o", "d", <<"yes", "no">>, <<<<Plain>>, <<Escalate("n")>>>>, << >>),
         Verify("v")>>,
       <<Twice("l", Plain, "v"), Step("b", {})>>,
       <<Repeat("l", 2, <<Question, Branching(Plain, Step("b", {})), Verify("v")>>, "v")>>,
       <<Repeat("l", 2, <<Repeat("k", 2, <<Plain, Verify("u")>>, "u"), Verify("v")>>, "v")>>,
       <<Parallel("q", FALSE, <<<<Step("a", {<<"x">>})>>, <<Step("b", {<<"y">>}), Verify("u")>>>>),
         Choose("o", "q", <<"pass">>, <<<<Step("z", {})>>>>, <<<<>>>>)>>,
       <<Parallel("q", TRUE, <<<<Verify("u")>>, <<Call("c", <<Retry(Plain, 2)>>, {})>>>>)>>,
       <<Parallel("q", FALSE, <<<<Graph("h", Loop)>>, <<Retry(Plain, 2)>>>>)>>,
       <<Question, Reported,
         Choose("o", "d", <<"yes">>, <<<<Accept("t", "doc")>>>>, <<<<>>>>)>>,
       <<Repeat("l", 2, <<Call("c", <<Twice("m", Plain, "w")>>, {}), Verify("v")>>, "v")>>,
       <<Call("c", <<Call("k", <<Plain, Graph("h", Loop)>>, {}), Verify("w")>>, {}),
         Step("b", {})>>,
       <<Call("c", <<Parallel("q", TRUE, <<<<Verify("u")>>, <<Verify("w")>>>>)>>, {})>>,
       <<Question, Choose("o", "d", <<"yes", "no">>,
                       <<<<Reported>>, <<Escalate("n")>>>>, << >>),
         Accept("t", "doc")>>,
       <<Call("c", <<Parallel("q", TRUE, <<<<Verify("u")>>, <<Call("k", <<Plain>>, {})>>>>),
                     Choose("o", "q", <<"pass">>, <<<<Verify("w")>>>>, <<<<>>>>)>>, {})>>,
       <<Parallel("q", TRUE, <<<<Call("c", <<Plain>>, {})>>, <<Call("k", <<Verify("w")>>, {})>>>>)>>
    >>

Wrong ==
    << <<Plain, Plain>>,
       <<Step("a", {<<"x">>}), Accept("t", "doc")>>,
       <<Choose("o", "d", <<"yes">>, <<<<Plain>>>>, <<<<>>>>)>>,
       <<Question, Choose("o", "d", <<"yes">>, <<<<Plain>>>>, << >>)>>,
       <<Question, Choose("o", "d", <<"yes">>, <<<<Reported>>>>, <<<<>>>>), Accept("t", "doc")>>,
       <<Parallel("q", FALSE, <<<<Step("a", {<<"x">>})>>, <<Step("b", {<<"x", "y">>})>>>>)>>,
       <<Parallel("q", TRUE, <<<<Plain>>, <<Verify("u")>>>>)>>,
       <<Parallel("q", FALSE, <<<<Question>>, <<Verify("u")>>>>)>>,
       <<Parallel("q", FALSE, <<<<Call("c", <<Question>>, {})>>, <<Verify("u")>>>>)>>,
       <<Parallel("q", FALSE, <<<<Plain>>, <<Twice("l", Step("b", {}), "v")>>>>)>>,
       <<Repeat("l", 2, <<Verify("v"), Plain>>, "v")>>,
       <<Question, Repeat("l", 2, <<Branching(Plain, Escalate("n")), Verify("v")>>, "v")>>,
       <<Call("c", <<Step("a", {<<"x">>})>>, {})>>,
       <<Call("c", Report, {Bound("doc", "w", <<"out">>)}), Accept("t", "doc")>> >>

Validated(flow) == V!Validated(flow) /\ V!Lowerable(flow, FALSE, FALSE)

Accepted == {flow \in Range(Right \o Wrong) : Validated(flow)}
            \cup {<<Graph("h", g)>> : g \in AdmittedFamily}

(***************************************************************************)
(* A hand-written recipe: work w, of a worker's brief or a protected       *)
(* effect, its validator v, perhaps a gate g before an attempt, and the    *)
(* stop s that leads to the escalate marker x.                             *)
(***************************************************************************)
At(name) == Name(<< >>, "", name)

Hand(type, key) == [L!Passthrough(<< >>) EXCEPT !.type = type, !.key = At(key)]

HandNodes(work) ==
    (START :> L!Passthrough(<< >>)) @@ (END :> L!Passthrough(<< >>))
    @@ (At("w") :> [Hand(work, "evidence") EXCEPT
                      !.kind = IF work = "effect" THEN "manual" ELSE ""])
    @@ (At("v") :> Hand("python", "verdict"))
    @@ (At("g") :> L!Passthrough(<<L!Const(At("x"), "go")>>))
    @@ (At("s") :> L!Passthrough(<< >>)) @@ (At("x") :> Hand("escalate", "evidence"))

ByHand(work, entry, again, after, caps, stop) ==
    [nodes |-> HandNodes(work),
     edges |-> <<Edge({START}, <<At(entry)>>, Always), Edge({At("w")}, <<At("v")>>, Always),
                 Edge({At("v")}, <<END>>, Only(Is(At("verdict"), "self", "pass"))),
                 Edge({At("v")}, <<At(again)>>, Only(Is(At("verdict"), "self", "fail"))),
                 Edge({At("g")}, <<At(after)>>, Only(Is(At("x"), "self", "go"))),
                 Edge({At("g")}, <<At("s")>>, Only(IsNot(At("x"), "self", "go"))),
                 Edge({At("s")}, <<At("x")>>, Always)>>,
     limits |-> [n \in {At(c) : c \in caps} |-> 2],
     exits |-> [n \in {At(c) : c \in caps} |-> At(stop)]]

\* Where a recipe may keep its caps; the marker is never looped back to.
CONSTANT Caps

HandFamily == {ByHand(work, entry, again, after, caps, stop) :
                 work \in {"work", "effect"}, entry \in {"w", "g"},
                 again \in {"w", "v", "g", "s"}, after \in {"w", "v", "g"},
                 caps \in SUBSET Caps, stop \in {"s", "x"}}

(***************************************************************************)
(* The answers of an effect. A scope opens or fails to; a decision carries *)
(* its label, a worker's answer the id of its step.                        *)
(***************************************************************************)
Reply(o, v, code) == [outcome |-> o, value |-> v, code |-> code]

Failures == {Reply("ERROR", "error", "none"), Reply("ERROR", "error", "cancelled")}

RepliesTo(node) ==
    CASE node.kind = "decide" -> {Reply("PASS", l, "none") : l \in node.labels} \cup Failures
      [] node.kind = "verify" ->
            {Reply("PASS", "pass", "none"), Reply("FAIL", "fail", "none")} \cup Failures
      [] node.kind \in {"scope", "accept", "publish"} ->
            {Reply("PASS", "none", "none")} \cup Failures
      [] OTHER -> {Reply("PASS", node.key.k, "none"), Reply("FAIL", "fail", "none")} \cup Failures

Graphs ==
    \/ \E flow \in Accepted :
          /\ source = flow
          /\ estimate = E!EstimateWorkflow(flow)
          /\ Begin(L!BuildRecipe(flow))
    \/ \E d \in HandFamily :
          /\ P!Accepted(d, FALSE)
          /\ source = << >>
          /\ estimate = E!EstimateRecipe(d)
          /\ Begin(d)

(* The system that stands still is in one of its initial states.            *)
Init ==
    /\ AuthoringInit
    /\ \/ which = "graph" /\ Graphs /\ Sources = [r \in Roles |-> NoFile]
       \/ /\ which = "authoring"
          /\ source = << >> /\ estimate = E!NoCost
          /\ Begin(ByHand("work", "w", "w", "w", {}, "s"))

RunNext ==
    /\ UNCHANGED which
    /\ \/ which = "graph" /\ Next /\ UNCHANGED <<source, estimate, authoringVars>>
       \/ which = "authoring" /\ AuthoringNext /\ UNCHANGED graphVars

Spec == Init /\ [][RunNext]_<<which, graphVars, authoringVars>>

Interchangeable == Permutations(Publishers)

Compiled == source # << >>

(***************************************************************************)
(* Lowering: the graph asks for exactly the effects the source asks for,   *)
(* as often, with the same worker and input, and when nothing can move it  *)
(* has ended if and only if the source has, with the same outcome.         *)
(***************************************************************************)
Asked == {[node |-> n, runner |-> recipe.nodes[n].runner, input |-> InputOf(n)] : n \in Pending}

GraphMeansSource ==
    LET m == W!Meaning(source, log)
    IN  Compiled =>
        /\ \A n \in DOMAIN log : Got(m.used, n, 0) = Len(log[n])
        /\ Quiet => /\ Over <=> m.out # "WAIT"
                    /\ Over => Recorded = m.out
                    /\ ~Over => Asked = {[node |-> w.node, runner |-> w.runner,
                                          input |-> w.input] : w \in m.wait}

(***************************************************************************)
(* Lowering: an effect waits under the scopes of its blocks and calls, and *)
(* all of those were opened before. An effect names its nearest scopes and *)
(* they name the ones around them.                                         *)
(***************************************************************************)
ScopeNodes(keys) ==
    {n \in DOMAIN recipe.nodes : recipe.nodes[n].kind = "scope" /\ recipe.nodes[n].key \in keys}

RECURSIVE Enclosing(_)
Enclosing(keys) ==
    LET more == keys \cup UNION {Range(recipe.nodes[n].scopes) : n \in ScopeNodes(keys)}
    IN  IF more = keys THEN keys ELSE Enclosing(more)

ScopesAreInForce ==
    LET m == W!Meaning(source, log)
    IN  Compiled /\ Quiet /\ ~Over => \A w \in m.wait :
            LET keys == Enclosing(Range(recipe.nodes[w.node].scopes))
            IN  keys = w.scopes /\ \A k \in keys : Got(vals, k, NoResult).outcome = "PASS"

(***************************************************************************)
(* Validation: two steps that wait at the same time never write the same   *)
(* path, and an artifact is there when it is accepted or published.        *)
(***************************************************************************)
WorkIsApart ==
    \A n, m \in Pending : n # m =>
        \A p \in recipe.nodes[n].writes, q \in recipe.nodes[m].writes : ~V!Overlap(p, q)

ArtifactsExist ==
    \A n \in Pending : recipe.nodes[n].kind \in {"accept", "publish"} =>
        InputOf(n)[2].outcome = "PASS"

(***************************************************************************)
(* Fragments: a failure or an error that was answered last is the outcome, *)
(* never a pass, and a capped gate bounds the answers of every effect.     *)
(***************************************************************************)
FragmentsAreHonest ==
    LET g == source[1].graph
    IN  Compiled /\ source[1].b = "graph" =>
            /\ \A n \in DOMAIN log :
                  LET last == Last(log[n]).outcome
                  IN  /\ Over /\ last # "PASS" => Recorded = last
                      /\ Len(log[n]) <= 1 + Got(g.limits, "g", 0)
            /\ Over \/ at # {}

(***************************************************************************)
(* Estimate: a run asks for no more steps, verifications and child calls,  *)
(* and has no more branches open, than the estimate announced; for a       *)
(* hand-written recipe, if only its capped node leads to the work.         *)
(***************************************************************************)
Answers(kinds) ==
    FoldLeft(LAMBDA a, n : a + (IF n.ns = << >> /\ n.k \in kinds THEN Len(log[n]) ELSE 0),
             0, Listed(DOMAIN log))

WorkflowInBounds ==
    LET open == {n \in Pending : n.ns = << >>}
        children == {Head(n.ns) : n \in {m \in at : m.ns # << >>}}
    IN  /\ Answers({"step", "verify"}) <= estimate.submissions
        /\ Answers({"call"}) <= estimate.maxChild
        /\ Cardinality(open) <= E!Higher(1, estimate.branches)
        /\ Cardinality(children) <= E!Higher(1, estimate.childBranches)

EnteredByCap ==
    \E c \in DOMAIN recipe.limits : \A e \in Range(recipe.edges) :
        At("w") \in Range(e.to) => e.from = {c}

HandInBounds ==
    At("w") \in DOMAIN log /\ recipe.nodes[At("w")].type = "effect" /\ EnteredByCap
        => Len(log[At("w")]) <= estimate.submissions

EstimateBoundsRun == IF Compiled THEN WorkflowInBounds ELSE HandInBounds

(***************************************************************************)
(* Profile: what the compiler writes is accepted, and in an accepted       *)
(* recipe, whoever wrote it, no work is asked for more often than one      *)
(* spent cap after the other allows.                                       *)
(***************************************************************************)
CompiledIsAccepted == Compiled /\ at = {START} => P!Accepted(recipe, TRUE)

RetriesAreCapped ==
    ~Compiled => \A n \in DOMAIN log : Len(log[n]) <= 1 + 2 * Cardinality(DOMAIN recipe.limits)

(***************************************************************************)
(* What waits at one time may wait together: under its scopes, writing     *)
(* apart from the others, its artifact there.                              *)
(***************************************************************************)
WaitingIsLawful == ScopesAreInForce /\ WorkIsApart /\ ArtifactsExist

(***************************************************************************)
(* The profile and the compiler agree: what is compiled is accepted, and   *)
(* in what is accepted the cap of a retry loop holds.                      *)
(***************************************************************************)
ProfileIsKept == CompiledIsAccepted /\ RetriesAreCapped
=============================================================================
