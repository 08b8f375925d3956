------------------------------ MODULE Lowering -------------------------------
(***************************************************************************)
(* The workflow compiler's lowering: blocks of a validated workflow become *)
(* nodes, ordered edges, loop caps and loop exits of a native recipe.      *)
(*                                                                         *)
(* A block is a record with its kind in field b. A fragment of the recipe  *)
(* is what the lowering of a block returns: what it adds to the recipe,    *)
(* its entry, and its exits, each a node and the condition to leave it by. *)
(* The context is the state of the builder that a nested block sees: where *)
(* an outcome goes, the scopes in force, whether an aborted effect is kept *)
(* apart from an error, and the parallel branch a manual step belongs to.  *)
(***************************************************************************)
EXTENDS NativeRecipe

(***************************************************************************)
(* Nodes and what a lowering adds to the recipe.                           *)
(***************************************************************************)
Passthrough(puts) ==
    [type |-> "pass", puts |-> puts, kind |-> "", key |-> Nowhere,
     scopes |-> << >>, runner |-> "none", input |-> Nowhere,
     branch |-> << >>, labels |-> {}, writes |-> {}]

Interrupt(kind, key) ==
    [Passthrough(<< >>) EXCEPT !.type = "effect", !.kind = kind, !.key = key]

Const(key, v) == <<key, "const", v>>
CopyOf(key, from) == <<key, "copy", from>>

Nothing == [nodes |-> << >>, edges |-> << >>, limits |-> << >>, exits |-> << >>]

And(d, e) ==
    [nodes |-> e.nodes @@ d.nodes, edges |-> d.edges \o e.edges,
     limits |-> e.limits @@ d.limits, exits |-> e.exits @@ d.exits]

WithNode(d, n, node) == [d EXCEPT !.nodes = (n :> node) @@ @]

WithEdges(d, es) == [d EXCEPT !.edges = @ \o es]

WithLoop(d, gate, limit, exhausted) ==
    [d EXCEPT !.limits = (gate :> limit) @@ @, !.exits = (gate :> exhausted) @@ @]

Frag(doc, entry, outs) == [doc |-> doc, entry |-> entry, outs |-> outs]

Leaves(n, when) == <<[node |-> n, when |-> when]>>

Connect(outs, target) ==
    [i \in 1..Len(outs) |-> Edge({outs[i].node}, <<target>>, outs[i].when)]

Blank == Frag(Nothing, Nowhere, << >>)

Then(f, g) == Frag(WithEdges(And(f.doc, g.doc), Connect(f.outs, g.entry)),
                   IF f.entry = Nowhere THEN g.entry ELSE f.entry, g.outs)

(***************************************************************************)
(* One effect: its interrupt, the attempt gate of a retry, and the routes  *)
(* of its four outcomes. A cancelled effect is ABORTED before it is ERROR. *)
(***************************************************************************)
AttemptGate(d, p, kind, to, limit, fail) ==
    LET gate == Name(p, kind, "attempt")
        exhausted == Name(p, kind, "exhausted")
        nodes == WithNode(WithNode(d, gate, Passthrough(<<Const(Continue, "true")>>)),
                          exhausted, Passthrough(<< >>))
    IN  WithLoop(WithEdges(nodes,
            <<Edge({gate}, <<to>>, Only(Is(Continue, "self", "true"))),
              Edge({exhausted}, <<fail>>, Always)>>), gate, limit, exhausted)

ErrorCondition(key, capture) ==
    IF capture
    THEN {{Is(key, "outcome", "ERROR"), IsNot(key, "code", "cancelled")}}
    ELSE Only(Is(key, "outcome", "ERROR"))

DescriptorInterrupt(p, kind, effect, retry, failure, c) ==
    LET ask == Name(p, kind, "effect")
        gate == Name(p, kind, "attempt")
        fail == IF retry > 0 THEN gate
                ELSE IF failure # Nowhere THEN failure ELSE c.targets["FAIL"]
        node == WithNode(Nothing, ask, effect)
        gated == IF retry > 0
                 THEN AttemptGate(node, p, kind, ask, retry, c.targets["FAIL"])
                 ELSE node
    IN  Frag(WithEdges(gated,
               <<Edge({ask}, <<c.targets["ABORTED"]>>,
                      Only(Is(effect.key, "code", "cancelled"))),
                 Edge({ask}, <<c.targets["ERROR"]>>,
                      ErrorCondition(effect.key, c.capture)),
                 Edge({ask}, <<fail>>, Only(Is(effect.key, "outcome", "FAIL")))>>),
             IF retry > 0 THEN gate ELSE ask,
             Leaves(ask, Only(Is(effect.key, "outcome", "PASS"))))

(***************************************************************************)
(* Steps, verifications, decisions and acceptances.                        *)
(***************************************************************************)
LowerStep(x, p, failure, c) ==
    DescriptorInterrupt(p, "step",
        [Interrupt("manual", Result(x.id)) EXCEPT
            !.branch = c.branch, !.writes = x.writes],
        x.retry, failure, c)

LowerVerify(x, p, failure, c) ==
    LET command == Name(<< >>, x.id, "command")
        prepare == Name(p, "verify", "command")
        effect == DescriptorInterrupt(p, "verify",
            [Interrupt("verify", Result(x.id)) EXCEPT
                !.runner = "pinned", !.input = command, !.scopes = c.scopes],
            x.retry, failure, c)
        put == Passthrough(<<Const(command, <<"command", p>>)>>)
    IN  Frag(WithEdges(WithNode(effect.doc, prepare, put),
                       <<Edge({prepare}, <<effect.entry>>, Always)>>),
             prepare, effect.outs)

LowerDecide(x, p, c) ==
    DescriptorInterrupt(p, "decide",
        [Interrupt("decide", Result(x.id)) EXCEPT !.labels = Range(x.labels)],
        0, Nowhere, c)

Artifact(handle) == Name(<< >>, handle, "artifact")

LowerAccept(x, p, c) ==
    Then(DescriptorInterrupt(p, "accept",
            [Interrupt("accept", Result(x.id)) EXCEPT !.input = Artifact(x.from)],
            0, Nowhere, c),
         DescriptorInterrupt(p, "publish",
            [Interrupt("publish", Name(<< >>, x.id, "published")) EXCEPT
                !.input = Artifact(x.from)],
            0, Nowhere, c))

Escalate(c) == Frag(Nothing, c.targets["FAIL"], << >>)

(***************************************************************************)
(* A graph block: the nodes of its fragment, renamed into the namespace of *)
(* the block, between an entry and a pass gate. Its effects inherit the    *)
(* scopes in force.                                                        *)
(***************************************************************************)
Local(p, name) == Name(p, "fragment", name)

LocalCondition(p, when) ==
    {{[x EXCEPT !.key = Local(p, @)] : x \in all} : all \in when}

LocalNode(p, node, c) ==
    IF node.type = "pass"
    THEN Passthrough([i \in DOMAIN node.puts |->
             Const(Local(p, node.puts[i][1]), node.puts[i][2])])
    ELSE [Interrupt(node.kind, Local(p, node.key)) EXCEPT
             !.scopes = c.scopes \o [i \in DOMAIN node.scopes |-> Local(p, node.scopes[i])],
             !.branch = IF node.kind = "manual" THEN c.branch ELSE << >>,
             !.writes = node.writes]

InstallFragment(g, p, c) ==
    LET names == DOMAIN g.nodes
    IN  [nodes |-> [n \in {Local(p, x) : x \in names} |-> LocalNode(p, g.nodes[n.r], c)],
         edges |-> [i \in DOMAIN g.edges |->
                      Edge({Local(p, x) : x \in g.edges[i].from},
                           <<Local(p, g.edges[i].to)>>,
                           LocalCondition(p, g.edges[i].when))],
         limits |-> [n \in {Local(p, x) : x \in DOMAIN g.limits} |-> g.limits[n.r]],
         exits |-> [n \in {Local(p, x) : x \in DOMAIN g.loopExits} |->
                      Local(p, g.loopExits[n.r])]]

LowerGraph(x, p, c) ==
    LET g == x.graph
        entry == Name(p, "graph", "entry")
        pass == Name(p, "graph", "pass")
        nodes == WithNode(WithNode(InstallFragment(g, p, c), entry, Passthrough(<< >>)),
                          pass, Passthrough(<< >>))
        Out(exit, target) ==
            IF exit \in DOMAIN g.exits
            THEN <<Edge({Local(p, g.exits[exit])}, <<target>>, Always)>> ELSE << >>
    IN  Frag(WithEdges(nodes,
               <<Edge({entry}, <<Local(p, g.entry)>>, Always)>>
               \o Out("pass", pass) \o Out("fail", c.targets["FAIL"])
               \o Out("error", c.targets["ERROR"])),
             entry, Leaves(pass, Always))

(***************************************************************************)
(* A compiled child is specialised for its call: every node and channel    *)
(* enters the namespace of the call, except that the child's outcome       *)
(* becomes the outcome channel of the call; unmanaged steps get the runner *)
(* and the scope of the call, and a brief node in front of them; an effect *)
(* without a scope gets the call's, a scope gets it as an ancestor.        *)
(***************************************************************************)
Under(p, n) == [n EXCEPT !.ns = <<p>> \o @]

SpecializedKey(p, key) ==
    IF key = Nowhere THEN key
    ELSE IF key = Outcome THEN Name(p, "call", "outcome") ELSE Under(p, key)

SpecializedPut(p, put) ==
    <<SpecializedKey(p, put[1]), put[2],
      IF put[2] = "copy" THEN SpecializedKey(p, put[3]) ELSE put[3]>>

Brief(p, n) == [Under(p, n) EXCEPT !.p = Append(@, 0)]

Managed(node) == node.type = "effect" /\ node.kind = "manual"

(* Mutant: a scope the child opens is not below the scope of the call. *)
DetachedScopes(p, node) ==
    IF node.kind = "scope" THEN [i \in DOMAIN node.scopes |-> SpecializedKey(p, node.scopes[i])]
    ELSE IF Managed(node) \/ node.kind \in {"verify", "managed"}
         THEN <<Name(p, "call", "scope")>> ELSE << >>

SpecializedScopes(p, node) ==
    LET mapped == [i \in DOMAIN node.scopes |-> SpecializedKey(p, node.scopes[i])]
        own == <<Name(p, "call", "scope")>>
    IN  IF Managed(node) THEN own
        ELSE IF node.kind = "scope" THEN own \o mapped
        ELSE IF node.kind \in {"verify", "managed"} THEN IF mapped = << >> THEN own ELSE mapped
        ELSE << >>

SpecializedNode(p, n, node, runner) ==
    [node EXCEPT
        !.puts = [i \in DOMAIN @ |-> SpecializedPut(p, @[i])],
        !.key = SpecializedKey(p, @),
        !.input = IF Managed(node) THEN Brief(p, n) ELSE SpecializedKey(p, @),
        !.scopes = SpecializedScopes(p, node),
        !.kind = IF Managed(node) THEN "managed" ELSE @,
        !.runner = IF Managed(node) THEN runner ELSE @,
        !.branch = IF Managed(node) THEN << >> ELSE @]

SpecializedTarget(p, d, n) == IF Managed(d.nodes[n]) THEN Brief(p, n) ELSE Under(p, n)

SpecializedEdge(p, d, e) ==
    Edge({Under(p, n) : n \in e.from},
         [i \in DOMAIN e.to |-> SpecializedTarget(p, d, e.to[i])],
         {{[x EXCEPT !.key = SpecializedKey(p, @)] : x \in all} : all \in e.when})

BriefNode(p, n) == Passthrough(<<Const(Brief(p, n), <<"brief", n.p, n.r>>)>>)

Specialize(d, p, runner) ==
    LET nodes == DOMAIN d.nodes
        manual == {n \in nodes : Managed(d.nodes[n])}
        briefs == Listed(manual)
        renamed == [n \in {Under(p, m) : m \in nodes} |->
                        LET m == [n EXCEPT !.ns = Tail(@)]
                        IN  SpecializedNode(p, m, d.nodes[m], runner)]
        written == [n \in {Brief(p, m) : m \in manual} |->
                        BriefNode(p, [n EXCEPT !.ns = Tail(@), !.p = Front(@)])]
    IN  [nodes |-> written @@ renamed,
         edges |-> [i \in DOMAIN d.edges |-> SpecializedEdge(p, d, d.edges[i])]
                   \o [i \in DOMAIN briefs |->
                         Edge({Brief(p, briefs[i])}, <<Under(p, briefs[i])>>, Always)],
         limits |-> [n \in {Under(p, m) : m \in DOMAIN d.limits} |->
                        d.limits[[n EXCEPT !.ns = Tail(@)]]],
         exits |-> [n \in {Under(p, m) : m \in DOMAIN d.exits} |->
                        Under(p, d.exits[[n EXCEPT !.ns = Tail(@)]])]]

(***************************************************************************)
(* Composite blocks. A case, a branch or a body is a flow of its own, at a *)
(* pointer below the block's.                                              *)
(***************************************************************************)
RECURSIVE LowerFlow(_, _, _)
RECURSIVE LowerItem(_, _, _, _)
RECURSIVE BuildRecipe(_)

\* One item after another: the exits of each lead to the entry of the next.
Chain(frags) == FoldLeft(Then, Blank, frags)

LowerRepeat(x, p, c) ==
    LET gate == Name(p, "repeat", "attempt")
        body == Chain([i \in DOMAIN x.do |->
                    LowerItem(x.do[i], Append(p, i),
                              IF i = Len(x.do) THEN gate ELSE Nowhere, c)])
    IN  Frag(AttemptGate(body.doc, p, "repeat", body.entry, x.limit, c.targets["FAIL"]),
             gate, body.outs)

LowerChoose(x, p, c) ==
    LET router == Name(p, "choose", "route")
        join == Name(p, "choose", "join")
        key == Result(x.value)
        nodes == WithNode(WithNode(Nothing, router, Passthrough(<< >>)),
                          join, Passthrough(<< >>))
        Case(d, flow, q, when) ==
            LET f == LowerFlow(flow, q, c)
            IN  WithEdges(And(d, f.doc),
                    <<Edge({router}, <<f.entry>>, when)>> \o Connect(f.outs, join))
        cases == FoldLeft(LAMBDA d, i : Case(d, x.bodies[i], Append(p, i),
                                             Only(Is(key, "value", x.cases[i]))),
                          nodes, [i \in DOMAIN x.cases |-> i])
        whole == IF x.default = << >> THEN cases
                 ELSE Case(cases, x.default[1], Append(p, 9),
                           {{IsNot(key, "value", l) : l \in Range(x.cases)}})
    IN  Frag(whole, router, Leaves(join, Always))

BranchOutcome(p, i) == Name(Append(p, i), "branch", "outcome")

Outcomes == <<"PASS", "FAIL", "ERROR", "ABORTED">>

LowerBranch(x, p, i, c, scopes) ==
    LET q == Append(p, i)
        Setter(o) == Name(q, "branch", o)
        complete == Name(q, "branch", "complete")
        inner == [targets |-> [o \in Range(Outcomes) |-> Setter(o)], scopes |-> scopes,
                  capture |-> TRUE, branch |-> <<x.id, i>>]
        f == LowerFlow(x.branches[i], q, inner)
        setters == [n \in {Setter(o) : o \in Range(Outcomes)} |->
                       Passthrough(<<Const(BranchOutcome(p, i), n.r)>>)]
    IN  Frag([f.doc EXCEPT
                !.nodes = (complete :> Passthrough(<< >>)) @@ setters @@ @,
                !.edges = @ \o [j \in DOMAIN Outcomes |->
                                  Edge({Setter(Outcomes[j])}, <<complete>>, Always)]
                            \o Connect(f.outs, Setter("PASS"))],
             f.entry, Leaves(complete, Always))

\* After the join: ABORTED before ERROR before FAIL, each over every branch.
Precedence == <<"ABORTED", "ERROR", "FAIL">>

Aggregate(o) ==
    CASE o = "PASS" -> [outcome |-> "PASS", value |-> "pass", code |-> "none"]
      [] o = "FAIL" -> [outcome |-> "FAIL", value |-> "fail", code |-> "none"]
      [] o = "ERROR" -> [outcome |-> "ERROR", value |-> "error", code |-> "none"]
      [] OTHER -> [outcome |-> "ERROR", value |-> "error", code |-> "cancelled"]

RouteOutcomes(x, p, join, c) ==
    LET many == Len(x.branches)
        Settled(o) == Name(p, "outcome", o)
        Check(j, i) == Name(Append(p, i), "check", Precedence[j])
        RouteAt(j, i) == IF i > 1 THEN Check(j, i - 1)
                         ELSE IF j > 1 THEN Check(j - 1, many) ELSE join
        nodes == [n \in {Settled(o) : o \in Range(Outcomes)} |->
                     Passthrough(<<Const(Result(x.id), Aggregate(n.r))>>)]
                 @@ [n \in {Check(j, i) : j \in 1..3, i \in 1..many} |->
                       Passthrough(<< >>)]
        Step(j, i) ==
            <<Edge({RouteAt(j, i)}, <<Settled(Precedence[j])>>,
                   Only(Is(BranchOutcome(p, i), "self", Precedence[j]))),
              Edge({RouteAt(j, i)}, <<Check(j, i)>>,
                   Only(IsNot(BranchOutcome(p, i), "self", Precedence[j])))>>
        chain == FlattenSeq([j \in 1..3 |-> FlattenSeq([i \in 1..many |-> Step(j, i)])])
    IN  Frag([Nothing EXCEPT
                !.nodes = nodes,
                !.edges = chain
                    \o <<Edge({Check(3, many)}, <<Settled("PASS")>>, Always)>>
                    \o [j \in DOMAIN Precedence |->
                          Edge({Settled(Precedence[j])}, <<c.targets[Precedence[j]]>>,
                               Always)]],
             join, Leaves(Settled("PASS"), Always))

ScopeFrag(p, kind, runner, c) ==
    DescriptorInterrupt(p, kind,
        [Interrupt("scope", Name(p, kind, "scope")) EXCEPT
            !.runner = runner, !.scopes = c.scopes],
        0, Nowhere, c)

LowerParallel(x, p, c) ==
    LET fork == Name(p, "parallel", "fork")
        join == Name(p, "parallel", "join")
        scopes == IF x.timed THEN Append(c.scopes, Name(p, "parallel", "scope"))
                  ELSE c.scopes
        branches == << >> \o [i \in DOMAIN x.branches |-> LowerBranch(x, p, i, c, scopes)]
        entries == [i \in DOMAIN branches |-> branches[i].entry]
        complete == {branches[i].outs[1].node : i \in DOMAIN branches}
        route == RouteOutcomes(x, p, join, c)
        all == FoldLeft(And, route.doc, [i \in DOMAIN branches |-> branches[i].doc])
        nodes == WithNode(WithNode(all, fork, Passthrough(<< >>)), join, Passthrough(<< >>))
        forked == Frag(WithEdges(nodes, <<Edge(complete, <<join>>, Always),
                                          Edge({fork}, entries, Always)>>),
                       fork, route.outs)
    IN  IF x.timed THEN Then(ScopeFrag(p, "parallel", "none", c), forked) ELSE forked

(***************************************************************************)
(* A call: the parent's loop counts are saved and cleared, the scope is    *)
(* opened, the specialised child runs, its exported artifacts are copied   *)
(* out, the counts are restored, and its outcome is routed.                *)
(***************************************************************************)
SavedCounts(p) == Name(p, "call", "loop_counts")

(* Mutant: the counts of the child stay where the parent keeps its own. *)
LeakCounts(p) == Passthrough(<< >>)

RestoreCounts(p) == Passthrough(<<CopyOf(Counts, SavedCounts(p))>>)

CallNodes(x, p) ==
    LET exported == Listed(x.artifacts)
    IN  (Name(p, "call", "context") :>
            Passthrough(<<CopyOf(SavedCounts(p), Counts), Const(Counts, << >>)>>))
        @@ (Name(p, "call", "pre") :> Passthrough(<< >>))
        @@ (Name(p, "call", "direct") :> Passthrough(<< >>))
        @@ (Name(p, "call", "post") :>
              Passthrough([i \in DOMAIN exported |->
                  CopyOf(Artifact(exported[i].handle), Under(p, Result(exported[i].producer)))]))
        @@ [n \in {Name(p, "restore", o) : o \in Range(Outcomes)} |-> RestoreCounts(p)]

FinishCall(x, p, child, c) ==
    LET scope == ScopeFrag(p, "call", x.runner, c)
        At(role) == Name(p, "call", role)
        Restore(o) == Name(p, "restore", o)
        doc == And(And(scope.doc, child), [Nothing EXCEPT !.nodes = CallNodes(x, p)])
    IN  Frag(WithEdges(doc,
            <<Edge({At("context")}, <<scope.entry>>, Always)>>
            \o Connect(scope.outs, At("pre"))
            \o <<Edge({At("pre")}, <<At("direct")>>, Always),
                 Edge({At("direct")}, <<Under(p, START)>>, Always),
                 Edge({Under(p, END)}, <<At("post")>>, Always)>>
            \o [j \in DOMAIN Outcomes |->
                  Edge({At("post")}, <<Restore(Outcomes[j])>>,
                       Only(Is(At("outcome"), "self", Outcomes[j])))]
            \o [j \in DOMAIN Precedence |->
                  Edge({Restore(Precedence[j])}, <<c.targets[Precedence[j]]>>, Always)]),
            At("context"), Leaves(Restore("PASS"), Always))

LowerCall(x, p, c) ==
    FinishCall(x, p, Specialize(BuildRecipe(x.child), p, x.runner), c)

(***************************************************************************)
(* One lowering per block kind; a flow is the chain of its items, and an   *)
(* empty flow one passthrough node.                                        *)
(***************************************************************************)
LowerItem(x, p, failure, c) ==
    CASE x.b = "step" -> LowerStep(x, p, failure, c)
      [] x.b = "verify" -> LowerVerify(x, p, failure, c)
      [] x.b = "decide" -> LowerDecide(x, p, c)
      [] x.b = "accept" -> LowerAccept(x, p, c)
      [] x.b = "escalate" -> Escalate(c)
      [] x.b = "choose" -> LowerChoose(x, p, c)
      [] x.b = "graph" -> LowerGraph(x, p, c)
      [] x.b = "call" -> LowerCall(x, p, c)
      [] x.b = "parallel" -> LowerParallel(x, p, c)
      [] x.b = "repeat" -> LowerRepeat(x, p, c)

LowerFlow(flow, p, c) ==
    IF flow = << >>
    THEN LET empty == Name(p, "flow", "empty")
         IN  Frag(WithNode(Nothing, empty, Passthrough(<< >>)), empty,
                  Leaves(empty, Always))
    ELSE Chain([i \in DOMAIN flow |-> LowerItem(flow[i], Append(p, i), Nowhere, c)])

Terminal(o) == Name(<< >>, "terminal", o)

Root == [targets |-> [o \in Range(Outcomes) |-> Terminal(o)], scopes |-> << >>,
         capture |-> FALSE, branch |-> << >>]

BuildRecipe(flow) ==
    LET f == LowerFlow(flow, << >>, Root)
        terminals == [n \in {Terminal(o) : o \in Range(Outcomes)} |->
                         Passthrough(<<Const(Outcome, n.r)>>)]
        ends == (START :> Passthrough(<< >>)) @@ (END :> Passthrough(<< >>))
    IN  [f.doc EXCEPT
            !.nodes = terminals @@ ends @@ @,
            !.edges = @ \o <<Edge({START}, <<f.entry>>, Always)>>
                        \o Connect(f.outs, Terminal("PASS"))
                        \o [j \in DOMAIN Outcomes |->
                              Edge({Terminal(Outcomes[j])}, <<END>>, Always)]]
=============================================================================
