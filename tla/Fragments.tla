------------------------------ MODULE Fragments ------------------------------
(***************************************************************************)
(* Admission of a graph fragment: what the intermediate representation and *)
(* the lowering check before the fragment's nodes enter a recipe. All of   *)
(* it is decided from the text of the fragment, never by running it.       *)
(*                                                                         *)
(* Conditions are those of NativeRecipe; the comparison of a result with   *)
(* an outcome is the only one whose value the checks understand. The       *)
(* depth-first search visits the successors of a node in the order of a    *)
(* Python set, which the source leaves open: order is a parameter.         *)
(***************************************************************************)
EXTENDS NativeRecipe

ExitNames == {"pass", "fail", "error"}

Exits(g) == Range(g.exits)

\* The entry and the exits are nodes of the fragment, the exits distinct.
ClosedBoundary(g) ==
    /\ g.entry \in DOMAIN g.nodes
    /\ "pass" \in DOMAIN g.exits /\ DOMAIN g.exits \subseteq ExitNames
    /\ Exits(g) \subseteq DOMAIN g.nodes
    /\ \A x, y \in DOMAIN g.exits : x # y => g.exits[x] # g.exits[y]

Effects(g) == {n \in DOMAIN g.nodes : g.nodes[n].type = "effect"}

\* Writes are those of the effects; no passthrough overwrites an effect's result.
ClosedEffects(g) ==
    /\ g.writes = UNION {g.nodes[n].writes : n \in Effects(g)}
    /\ \A n \in DOMAIN g.nodes \ Effects(g), e \in Effects(g) :
          \A i \in DOMAIN g.nodes[n].puts : g.nodes[n].puts[i][1] # g.nodes[e].key

ClosedEdges(g) ==
    \A i \in DOMAIN g.edges :
        LET e == g.edges[i]
        IN  /\ e.from # {} /\ e.from \subseteq DOMAIN g.nodes
            /\ e.to \in DOMAIN g.nodes
            /\ Cardinality(e.from) > 1 => e.when = Always

ClosedLoops(g) ==
    /\ DOMAIN g.limits = DOMAIN g.loopExits
    /\ DOMAIN g.limits \subseteq DOMAIN g.nodes
    /\ \A n \in DOMAIN g.limits : g.limits[n] >= 1 /\ g.loopExits[n] \in Exits(g)

(***************************************************************************)
(* Routing: the conditions of a node are all or none, and exhaustive, for  *)
(* an effect over its outcomes or else by two complementary comparisons.   *)
(***************************************************************************)
(* Mutant: it is forgotten that an effect may fail. *)
WithoutFail(node) == IF node.kind = "accept" THEN {"PASS"} ELSE {"PASS", "ERROR"}

EffectOutcomes(node) ==
    CASE node.kind \in {"scope", "decide"} -> {"PASS", "ERROR"}
      [] node.kind = "accept" -> {"PASS"}
      [] OTHER -> {"PASS", "FAIL", "ERROR"}

Outgoing(g, n) == {i \in DOMAIN g.edges : n \in g.edges[i].from}

Complements(a, b) == a = [b EXCEPT !.eq = ~@]

\* The first comparison is complemented and the text that follows it is the same.
OppositeTexts(when, other) ==
    \E all \in when, any \in other :
        /\ Cardinality(when) = 1 /\ Cardinality(other) = 1
        /\ \E a \in all, b \in any : Complements(a, b) /\ all \ {a} = any \ {b}

Exhaustive(g, n, conditions) ==
    LET node == g.nodes[n]
        covered == {o \in {"PASS", "FAIL", "ERROR"} :
                      Only(Is(node.key, "outcome", o)) \in conditions}
    IN  \/ node.type = "effect" /\ EffectOutcomes(node) \subseteq covered
        \/ \E when, other \in conditions : OppositeTexts(when, other)

RoutesAreClosed(g) ==
    \A n \in DOMAIN g.nodes :
        LET conditions == {g.edges[i].when : i \in Outgoing(g, n)}
        IN  \/ conditions \subseteq {Always}
            \/ Always \notin conditions /\ Exhaustive(g, n, conditions)

(***************************************************************************)
(* Outcomes: from an effect, one outcome leads to one successor, and then  *)
(* only to its own exit, or, for a pass, only to further effects.          *)
(***************************************************************************)
MayMatch(when, key, o) ==
    \E all \in when : \A c \in all :
        c.key = key /\ c.field = "outcome" => (c.lit = o) = c.eq

Targets(g, n, key, o) ==
    {g.edges[i].to : i \in {j \in Outgoing(g, n) : MayMatch(g.edges[j].when, key, o)}}
    \cup (IF n \in DOMAIN g.loopExits THEN {g.loopExits[n]} ELSE {})

RECURSIVE Spread(_, _, _, _, _)
Spread(g, start, o, seen, todo) ==
    IF todo \ seen = {} THEN seen
    ELSE LET from == todo \ seen
             through == {n \in from : n = start \/ n \notin Effects(g)}
         IN  Spread(g, start, o, seen \cup from,
                    UNION {Targets(g, n, g.nodes[start].key, o) : n \in through})

ExitOf(o) == CASE o = "PASS" -> "pass" [] o = "FAIL" -> "fail" [] OTHER -> "error"

OutcomesAreHonest(g) ==
    \A n \in Effects(g) : \A o \in EffectOutcomes(g.nodes[n]) :
        LET reached == Spread(g, n, o, {}, {n})
            further == (reached \cap Effects(g)) \ {n} # {}
            exits == {x \in DOMAIN g.exits : g.exits[x] \in reached}
        IN  /\ ExitOf(o) \in DOMAIN g.exits
            /\ Cardinality(Targets(g, n, g.nodes[n].key, o)) = 1
            /\ IF o = "PASS" /\ further THEN exits = {}
               ELSE ~further /\ exits = {ExitOf(o)}

(***************************************************************************)
(* Topology: every node is reachable and can reach an exit, exits are the  *)
(* only ends, and every cycle the search closes has a cap.                 *)
(***************************************************************************)
NextNodes(g, n) == {g.edges[i].to : i \in Outgoing(g, n)}

Analysed(g, n) == NextNodes(g, n) \cup (IF n \in DOMAIN g.loopExits
                                        THEN {g.loopExits[n]} ELSE {})

RECURSIVE Forward(_, _)
Forward(g, S) ==
    LET T == S \cup UNION {Analysed(g, n) : n \in S}
    IN  IF T = S THEN S ELSE Forward(g, T)

RECURSIVE Backward(_, _)
Backward(g, S) ==
    LET T == S \cup {n \in DOMAIN g.nodes : Analysed(g, n) \cap S # {}}
    IN  IF T = S THEN S ELSE Backward(g, T)

Capped(g, from, to) == (IF to \in DOMAIN g.limits THEN to ELSE from) \in DOMAIN g.limits

\* One visit: what was visited, and whether every edge back onto the path is capped.
RECURSIVE Visiting(_, _, _, _, _)
Visiting(g, order, n, path, acc) ==
    LET Successor(a, t) ==
            IF t \notin NextNodes(g, n) THEN a
            ELSE IF t \in path \cup {n} THEN [a EXCEPT !.ok = @ /\ Capped(g, n, t)]
            ELSE IF t \in a.visited THEN a
            ELSE Visiting(g, order, t, path \cup {n}, a)
        done == FoldLeft(Successor, acc, order)
    IN  [done EXCEPT !.visited = @ \cup {n}]

CyclesAreCapped(g, order) ==
    Visiting(g, order, g.entry, {}, [visited |-> {}, ok |-> TRUE]).ok

ClosedTopology(g, order) ==
    /\ Forward(g, {g.entry}) = DOMAIN g.nodes
    /\ Backward(g, Exits(g)) = DOMAIN g.nodes
    /\ CyclesAreCapped(g, order)
    /\ {n \in DOMAIN g.nodes : NextNodes(g, n) = {}} = Exits(g)

Admitted(g, order) ==
    /\ ClosedBoundary(g) /\ ClosedEffects(g) /\ ClosedEdges(g) /\ ClosedLoops(g)
    /\ RoutesAreClosed(g)
    /\ OutcomesAreHonest(g)
    /\ ClosedTopology(g, order)
=============================================================================
