--------------------------- MODULE WorkflowMeaning ---------------------------
(***************************************************************************)
(* What a workflow means, block by block, with no graph: the reference the *)
(* lowering is checked against. Given the answers each effect has had so   *)
(* far, Meaning says how the workflow ended, or which effects it waits     *)
(* for, with whom, on what input and under which scopes.                   *)
(*                                                                         *)
(* An outcome is PASS, FAIL, ERROR, ABORTED or WAIT. A limit counts the    *)
(* attempts of its block over one activation of its workflow.              *)
(***************************************************************************)
EXTENDS NativeRecipe

Artifact(handle) == Name(<< >>, handle, "artifact")

In(c, n) == [n EXCEPT !.ns = c.ns]

Verdict(r) == IF r.code = "cancelled" THEN "ABORTED" ELSE r.outcome

Ended(st, o) == [st EXCEPT !.out = o]

(***************************************************************************)
(* One effect: its next answer, or a wait.                                 *)
(***************************************************************************)
Ask(st, h, want, key) ==
    LET given == Got(h, want.node, << >>)
        k == Got(st.used, want.node, 0)
    IN  IF k < Len(given)
        THEN [st EXCEPT !.used = Put(@, want.node, k + 1),
                        !.vals = Put(@, key, given[k + 1]),
                        !.out = Verdict(given[k + 1])]
        ELSE [st EXCEPT !.wait = @ \cup {want}, !.out = "WAIT"]

Want(c, p, kind, role, input) ==
    [node |-> In(c, Name(p, kind, role)), as |-> kind, runner |-> "none",
     input |-> input, scopes |-> {}]

WantStep(x, p, c) ==
    IF c.runner = "none" THEN Want(c, p, "step", "effect", <<"none">>)
    ELSE [Want(c, p, "step", "effect", <<"brief", p, "effect">>) EXCEPT
            !.runner = c.runner, !.scopes = c.scopes]

WantVerify(x, p, c) ==
    [Want(c, p, "verify", "effect", <<"command", p>>) EXCEPT
        !.runner = "pinned", !.scopes = c.scopes]

WantScope(p, kind, runner, c) ==
    [Want(c, p, kind, "effect", <<"none">>) EXCEPT
        !.runner = runner, !.scopes = c.scopes]

WantArtifact(x, p, kind, c, st) ==
    Want(c, p, kind, "effect",
         <<"result", Got(st.vals, In(c, Artifact(x.from)), NoResult)>>)

RECURSIVE Attempts(_, _, _, _, _, _)
Attempts(st, h, want, key, gate, limit) ==
    IF limit = 0 THEN Ask(st, h, want, key)
    ELSE IF Got(st.counts, gate, 0) >= limit THEN Ended(st, "FAIL")
    ELSE LET tried == Ask([st EXCEPT !.counts = Put(@, gate, Got(@, gate, 0) + 1)],
                          h, want, key)
         IN  IF tried.out = "FAIL" THEN Attempts(tried, h, want, key, gate, limit)
             ELSE tried

(***************************************************************************)
(* A fragment is walked node by node until one of its exits.               *)
(***************************************************************************)
LocalName(c, p, name) == In(c, Name(p, "fragment", name))

Meets(st, c, p, when) ==
    \E all \in when : \A t \in all :
        LET v == IF t.field = "self" THEN Got(st.vals, LocalName(c, p, t.key), "none")
                 ELSE Got(st.vals, LocalName(c, p, t.key), NoResult)[t.field]
        IN  (v = t.lit) = t.eq

FirstEdge(g, n, Open(_)) ==
    LET open == {i \in DOMAIN g.edges : n \in g.edges[i].from /\ Open(g.edges[i].when)}
    IN  g.edges[CHOOSE i \in open : \A j \in open : i <= j].to

ExitOutcome(g, n) ==
    IF n = g.exits["pass"] THEN "PASS"
    ELSE IF "fail" \in DOMAIN g.exits /\ n = g.exits["fail"] THEN "FAIL"
    ELSE "ERROR"

WantLocal(g, n, p, c) ==
    LET node == g.nodes[n]
        managed == node.kind = "manual" /\ c.runner # "none"
    IN  [Want(c, p, "fragment", n,
              IF managed THEN <<"brief", p, n>> ELSE <<"none">>) EXCEPT
            !.runner = IF managed THEN c.runner ELSE "none", !.scopes = c.scopes]

RECURSIVE Walk(_, _, _, _, _, _)
Walk(g, n, p, c, st, h) ==
    LET node == g.nodes[n]
        gate == LocalName(c, p, n)
        spent == n \in DOMAIN g.limits /\ Got(st.counts, gate, 0) >= g.limits[n]
        put == FoldLeft(LAMBDA v, w : Put(v, LocalName(c, p, w[1]), w[2]),
                        st.vals, node.puts)
        ran == IF node.type = "effect"
               THEN Ask(st, h, WantLocal(g, n, p, c), LocalName(c, p, node.key))
               ELSE [st EXCEPT !.vals = put,
                        !.counts = IF n \in DOMAIN g.limits
                                   THEN Put(@, gate, Got(@, gate, 0) + 1) ELSE @]
    IN  IF n \in Range(g.exits) THEN Ended(st, ExitOutcome(g, n))
        ELSE IF spent THEN Walk(g, g.loopExits[n], p, c, st, h)
        ELSE IF ran.out = "WAIT" THEN ran
        ELSE Walk(g, FirstEdge(g, n, LAMBDA when : Meets(ran, c, p, when)),
                  p, c, Ended(ran, "PASS"), h)

(***************************************************************************)
(* Flows: the first item that does not pass ends the flow.                 *)
(***************************************************************************)
RECURSIVE RunFlow(_, _, _, _, _, _)
RECURSIVE RunItem(_, _, _, _, _)
RECURSIVE RunRepeat(_, _, _, _, _)

RunChoose(x, p, c, st, h) ==
    LET v == Got(st.vals, In(c, Result(x.value)), NoResult).value
        hit == {i \in DOMAIN x.cases : x.cases[i] = v}
    IN  IF hit # {}
        THEN LET i == CHOOSE i \in hit : TRUE
             IN  RunFlow(x.bodies[i], Append(p, i), c, st, h, 1)
        ELSE IF x.default = << >> THEN Ended(st, "ERROR")
        ELSE RunFlow(x.default[1], Append(p, 9), c, st, h, 1)

\* FAIL of the last item is another iteration; of any other item it is FAIL.
RunRepeat(x, p, c, st, h) ==
    LET gate == In(c, Name(p, "repeat", "attempt"))
        n == Len(x.do)
        begun == [st EXCEPT !.counts = Put(@, gate, Got(@, gate, 0) + 1)]
        head == RunFlow(SubSeq(x.do, 1, n - 1), p, c, begun, h, 1)
        last == RunItem(x.do[n], Append(p, n), c, head, h)
    IN  IF Got(st.counts, gate, 0) >= x.limit THEN Ended(st, "FAIL")
        ELSE IF head.out # "PASS" THEN head
        ELSE IF last.out = "FAIL" THEN RunRepeat(x, p, c, Ended(last, "PASS"), h)
        ELSE last

Worst(outs) ==
    IF "WAIT" \in outs THEN "WAIT"
    ELSE IF "ABORTED" \in outs THEN "ABORTED"
    ELSE IF "ERROR" \in outs THEN "ERROR"
    ELSE IF "FAIL" \in outs THEN "FAIL"
    ELSE "PASS"

Passed == [outcome |-> "PASS", value |-> "pass", code |-> "none"]

RunBranches(x, p, c, st, h) ==
    LET Branch(acc, i) ==
            LET s == RunFlow(x.branches[i], Append(p, i), c, Ended(acc.st, "PASS"), h, 1)
            IN  [st |-> s, outs |-> acc.outs \cup {s.out}]
        all == FoldLeft(Branch, [st |-> st, outs |-> {}], [i \in DOMAIN x.branches |-> i])
    IN  Ended([all.st EXCEPT !.vals = Put(@, In(c, Result(x.id)), Passed)],
              Worst(all.outs))

RunParallel(x, p, c, st, h) ==
    LET scope == In(c, Name(p, "parallel", "scope"))
        opened == Ask(st, h, WantScope(p, "parallel", "none", c), scope)
    IN  IF ~x.timed THEN RunBranches(x, p, c, st, h)
        ELSE IF opened.out # "PASS" THEN opened
        ELSE RunBranches(x, p, [c EXCEPT !.scopes = @ \cup {scope}], opened, h)

RunCall(x, p, c, st, h) ==
    LET scope == In(c, Name(p, "call", "scope"))
        opened == Ask(st, h, WantScope(p, "call", x.runner, c), scope)
        inner == [ns |-> Append(c.ns, p), scopes |-> c.scopes \cup {scope},
                  runner |-> x.runner]
        child == RunFlow(x.child, << >>, inner, [opened EXCEPT !.counts = << >>], h, 1)
        Export(v, a) == Put(v, In(c, Artifact(a.handle)),
                            Got(child.vals, In(inner, Result(a.producer)), NoResult))
        exported == FoldLeft(Export, child.vals, Listed(x.artifacts))
    IN  IF opened.out # "PASS" THEN opened
        ELSE IF child.out = "WAIT" THEN child
        ELSE [child EXCEPT !.counts = opened.counts,
                           !.vals = Put(exported, In(c, Result(x.id)), Passed)]

RunItem(x, p, c, st, h) ==
    LET key == In(c, Result(x.id))
    IN  CASE x.b = "step" ->
               Attempts(st, h, WantStep(x, p, c), key,
                        In(c, Name(p, "step", "attempt")), x.retry)
          [] x.b = "verify" ->
               Attempts(st, h, WantVerify(x, p, c), key,
                        In(c, Name(p, "verify", "attempt")), x.retry)
          [] x.b = "decide" ->
               Ask(st, h, Want(c, p, "decide", "effect", <<"none">>), key)
          [] x.b = "accept" ->
               LET accepted == Ask(st, h, WantArtifact(x, p, "accept", c, st), key)
               IN  IF accepted.out # "PASS" THEN accepted
                   ELSE Ask(accepted, h, WantArtifact(x, p, "publish", c, st), key)
          [] x.b = "escalate" -> Ended(st, "FAIL")
          [] x.b = "choose" -> RunChoose(x, p, c, st, h)
          [] x.b = "graph" -> Walk(x.graph, x.graph.entry, p, c, st, h)
          [] x.b = "call" -> RunCall(x, p, c, st, h)
          [] x.b = "parallel" -> RunParallel(x, p, c, st, h)
          [] x.b = "repeat" -> RunRepeat(x, p, c, st, h)

RunFlow(flow, p, c, st, h, i) ==
    IF i > Len(flow) THEN Ended(st, "PASS")
    ELSE LET s == RunItem(flow[i], Append(p, i), c, st, h)
         IN  IF s.out = "PASS" THEN RunFlow(flow, p, c, s, h, i + 1) ELSE s

Meaning(flow, h) ==
    RunFlow(flow, << >>, [ns |-> << >>, scopes |-> {}, runner |-> "none"],
            [used |-> << >>, counts |-> << >>, vals |-> << >>, out |-> "PASS",
             wait |-> {}], h, 1)
=============================================================================
