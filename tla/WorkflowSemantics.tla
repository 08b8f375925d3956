-------------------------- MODULE WorkflowSemantics --------------------------
(***************************************************************************)
(* Semantic validation of a workflow, before it is lowered. The walk       *)
(* threads one record through the blocks: the ids and exports seen, the    *)
(* artifacts a later accept may name, and whether everything held so far.  *)
(* Each block adds the outcomes a later choose may route on, and the       *)
(* project paths it writes. A path is the sequence of its components.      *)
(***************************************************************************)
EXTENDS NativeRecipe

Start == [ok |-> TRUE, ids |-> {}, artifacts |-> {}, exports |-> {}]

Require(st, holds) == [st EXCEPT !.ok = @ /\ holds]

\* What the validation of a block or a flow returns.
Found(st, symbols, writes) == [st |-> st, symbols |-> symbols, writes |-> writes]

Terminals == {"pass", "fail", "error"}

ParallelBlocks == {"step", "verify", "choose", "call", "graph"}

TrackId(st, x) == [Require(st, x.id \notin st.ids) EXCEPT !.ids = @ \cup {x.id}]

Covers(write, path) == IsPrefix(write, path)

Overlap(p, q) == IsPrefix(p, q) \/ IsPrefix(q, p)

(***************************************************************************)
(* A step that exports an artifact must write it, under a handle, a path   *)
(* and a producer of its own; the artifact is not a write of the workflow. *)
(***************************************************************************)
RegisterExport(st, x, a) ==
    [Require(st, /\ \E w \in x.writes : Covers(w, a.path)
                 /\ \A e \in st.exports : /\ e.handle # a.handle
                                          /\ e.path # a.path
                                          /\ e.producer # x.id) EXCEPT
        !.exports = @ \cup {[handle |-> a.handle, path |-> a.path, producer |-> x.id]}]

ValidStep(st, x) ==
    IF x.artifact = << >> THEN Found(st, << >>, x.writes)
    ELSE Found(RegisterExport(st, x, x.artifact[1]), << >>,
               x.writes \ {x.artifact[1].path})

ValidVerify(st, x) == Found(st, x.id :> Terminals, {})

ValidDecide(st, x) ==
    Found(Require(st, Cardinality(Range(x.labels)) = Len(x.labels)),
          x.id :> Range(x.labels), {})

ValidAccept(st, x) ==
    Found(Require(st, x.from \in {a.handle : a \in st.artifacts}), << >>, {})

(***************************************************************************)
(* The exports a child offers, and the writes that are not among them: a   *)
(* call may expose only declared artifacts.                                *)
(***************************************************************************)
RECURSIVE ValidFlow(_, _, _, _)
RECURSIVE ValidBlock(_, _, _, _)

Child(flow) == ValidFlow(Start, flow, << >>, FALSE)

Bind(st, child, a) ==
    [Require(st, /\ \E e \in child.st.exports : e.producer = a.producer
                 /\ \A b \in st.artifacts : /\ b.handle # a.handle
                                            /\ ~Overlap(b.dest, a.dest)) EXCEPT
        !.artifacts = @ \cup {a}]

ValidCall(st, x) ==
    LET child == Child(x.child)
        bound == FoldLeft(LAMBDA s, a : Bind(s, child, a),
                          Require(st, child.st.ok /\ child.writes = {}),
                          Listed(x.artifacts))
    IN  Found(bound, x.id :> Terminals, {a.dest : a \in x.artifacts})

ValidGraph(st, x, parallel) ==
    Found(Require(st, parallel => x.graph.writes = {}), << >>, x.graph.writes)

(***************************************************************************)
(* A choose routes on the outcome of an earlier block: its labels are      *)
(* outcomes of it, and they are all of them unless there is a default.     *)
(* Only artifacts of every case remain.                                    *)
(***************************************************************************)
ValidChoose(st, x, symbols, parallel) ==
    LET values == Got(symbols, x.value, {})
        flows == x.bodies \o x.default
        Case(acc, flow) ==
            LET f == ValidFlow([acc.st EXCEPT !.artifacts = st.artifacts], flow,
                               symbols, parallel)
            IN  [st |-> f.st, writes |-> acc.writes \cup f.writes,
                 shared |-> Append(acc.shared, f.st.artifacts)]
        routed == Require(st, /\ x.value \in DOMAIN symbols
                              /\ Range(x.cases) \subseteq values
                              /\ x.default = << >> => values \subseteq Range(x.cases))
        all == FoldLeft(Case, [st |-> routed, writes |-> {}, shared |-> << >>], flows)
        shared == {a \in UNION Range(all.shared) : \A v \in Range(all.shared) : a \in v}
    IN  Found([all.st EXCEPT !.artifacts = st.artifacts \cup shared], << >>, all.writes)

(***************************************************************************)
(* Parallel: two to eight branches of the permitted blocks, whose manual   *)
(* writes do not overlap between branches.                                 *)
(***************************************************************************)
RECURSIVE ManualWrites(_)
ManualWrites(flow) ==
    UNION {IF x.b = "step" THEN x.writes
           ELSE IF x.b = "choose"
                THEN UNION {ManualWrites(f) : f \in Range(x.bodies \o x.default)}
                ELSE {} : x \in Range(flow)}

DisjointBranches(writes) ==
    \A i, j \in DOMAIN writes : i # j =>
        \A p \in writes[i], q \in writes[j] : ~Overlap(p, q)

ValidParallel(st, x, symbols) ==
    LET Branch(acc, flow) ==
            LET f == ValidFlow([acc.st EXCEPT !.artifacts = st.artifacts], flow,
                               symbols, TRUE)
            IN  [st |-> f.st, arts |-> acc.arts \cup f.st.artifacts,
                 writes |-> Append(acc.writes, f.writes \cup ManualWrites(flow))]
        all == FoldLeft(Branch, [st |-> st, arts |-> {}, writes |-> << >>], x.branches)
        apart == \A a, b \in all.arts : a # b => ~Overlap(a.dest, b.dest)
    IN  Found([Require(all.st, /\ Len(x.branches) \in 2..8
                               /\ DisjointBranches(all.writes)
                               /\ apart) EXCEPT !.artifacts = st.artifacts \cup all.arts],
              x.id :> Terminals,
              UNION {ManualWrites(f) : f \in Range(x.branches)})

(***************************************************************************)
(* Repeat: the body ends in the verification the repeat waits for, which   *)
(* does not retry, every path through the body runs it exactly once, and   *)
(* no escalation lies on any.                                              *)
(***************************************************************************)
RECURSIVE Escalates(_)
Escalates(flow) ==
    \E x \in Range(flow) :
        \/ x.b = "escalate"
        \/ x.b = "choose" /\ \E f \in Range(x.bodies \o x.default) : Escalates(f)

RECURSIVE Cardinalities(_, _)
Cardinalities(flow, producer) ==
    LET Through(counts, x) ==
            CASE x.b = "choose" ->
                    {n + m : n \in counts,
                             m \in UNION {Cardinalities(f, producer) :
                                            f \in Range(x.bodies \o x.default)}}
              [] OTHER -> {n + (IF x.b = "verify" /\ x.id = producer THEN 1 ELSE 0) :
                             n \in counts}
    IN  FoldLeft(Through, {0}, flow)

ValidRepeat(st, x, symbols) ==
    LET last == Last(x.do)
        ends == /\ x.limit >= 1 /\ x.do # << >>
                /\ last.b = "verify" /\ last.id = x.until /\ last.retry = 0
                /\ ~Escalates(x.do) /\ Cardinalities(x.do, x.until) = {1}
        body == ValidFlow(Require(st, ends), x.do, symbols, FALSE)
    IN  Found(body.st, << >>, body.writes)

ValidBlock(st, x, symbols, parallel) ==
    LET s == TrackId(Require(st, parallel => x.b \in ParallelBlocks), x)
    IN  CASE x.b = "step" -> ValidStep(s, x)
          [] x.b = "verify" -> ValidVerify(s, x)
          [] x.b = "decide" -> ValidDecide(s, x)
          [] x.b = "accept" -> ValidAccept(s, x)
          [] x.b = "choose" -> ValidChoose(s, x, symbols, parallel)
          [] x.b = "call" -> ValidCall(s, x)
          [] x.b = "graph" -> ValidGraph(s, x, parallel)
          [] x.b = "parallel" -> ValidParallel(s, x, symbols)
          [] x.b = "repeat" -> ValidRepeat(s, x, symbols)
          [] x.b = "escalate" -> Found(s, << >>, {})

ValidFlow(st, flow, inherited, parallel) ==
    LET Next(acc, x) ==
            LET f == ValidBlock(acc.st, x, acc.symbols, parallel)
            IN  Found(f.st, f.symbols @@ acc.symbols, acc.writes \cup f.writes)
    IN  FoldLeft(Next, Found(st, inherited, {}), flow)

Validated(flow) == ValidFlow(Start, flow, << >>, FALSE).st.ok

(***************************************************************************)
(* What the lowering itself refuses: a manual step in a timed scope, and a *)
(* decision inside a parallel branch, however deep a call or a fragment    *)
(* hides it.                                                               *)
(***************************************************************************)
RECURSIVE Lowerable(_, _, _)
Lowerable(flow, timed, branch) ==
    \A x \in Range(flow) :
        CASE x.b = "step" -> ~timed
          [] x.b = "decide" -> ~branch
          [] x.b = "graph" -> \A n \in DOMAIN x.graph.nodes :
                LET node == x.graph.nodes[n]
                IN  node.type = "effect" => /\ node.kind = "manual" => ~timed
                                            /\ node.kind = "decide" => ~branch
          [] x.b = "choose" -> \A f \in Range(x.bodies \o x.default) :
                                   Lowerable(f, timed, branch)
          [] x.b = "repeat" -> Lowerable(x.do, timed, branch)
          [] x.b = "parallel" -> \A f \in Range(x.branches) :
                                     Lowerable(f, timed \/ x.timed, TRUE)
          [] x.b = "call" -> /\ Lowerable(x.child, FALSE, FALSE)
                             /\ Lowerable(x.child, FALSE, branch)
          [] OTHER -> TRUE
=============================================================================
