------------------------------- MODULE Profile -------------------------------
(***************************************************************************)
(* The recipe profile: what a native recipe must satisfy before the engine *)
(* admits it, written by hand or by the compiler. Nodes have the types     *)
(* pass, effect (an interrupt with a protected descriptor), work (one with *)
(* a worker's brief), escalate (the marker), python and llm. The errors    *)
(* are the set of the rules broken, and a recipe is accepted without any.  *)
(*                                                                         *)
(* Briefs are complete and checks are literal here: the rules about their  *)
(* text are not modelled.                                                  *)
(***************************************************************************)
EXTENDS NativeRecipe

Forbidden == {"llm", "agent", "router", "copilot", "race"}

Interrupts == {"effect", "work", "escalate"}

OutgoingEdges(d, n) == SelectSeq(d.edges, LAMBDA e : n \in e.from)

Rule(holds, name) == IF holds THEN {} ELSE {name}

(***************************************************************************)
(* The shape of the document: every join distinct, unconditional and to    *)
(* one node, every limit positive.                                         *)
(***************************************************************************)
ShapeErrors(d) ==
    UNION {Rule(/\ d.edges[i].from # {} /\ d.edges[i].to # << >>
                /\ Cardinality(d.edges[i].from) > 1 =>
                      d.edges[i].when = Always /\ Len(d.edges[i].to) = 1, "edge") :
             i \in DOMAIN d.edges}
    \cup UNION {Rule(d.limits[n] > 0, "limit") : n \in DOMAIN d.limits}

(***************************************************************************)
(* Work interrupts: one step name each, and one way on, to a validator.    *)
(* Protected effects and the escalate marker are exempt; a scope needs the *)
(* authority of the compiler, and its result under its resume key.         *)
(***************************************************************************)
StepErrors(d) ==
    LET work == {n \in DOMAIN d.nodes : d.nodes[n].type = "work"}
    IN  UNION {Rule(n # m => d.nodes[n].key # d.nodes[m].key, "duplicate step") :
                 n \in work, m \in work}

InterruptErrors(d, n, authorized) ==
    LET targets == UNION {Range(e.to) : e \in Range(OutgoingEdges(d, n))}
    IN  CASE d.nodes[n].type = "effect" ->
               Rule(d.nodes[n].kind = "scope" => authorized, "provenance")
          [] d.nodes[n].type = "work" ->
               Rule(/\ Cardinality(targets) = 1 /\ targets \subseteq DOMAIN d.nodes
                    /\ \A t \in targets : d.nodes[t].type = "python", "no validator")
          [] OTHER -> {}

(***************************************************************************)
(* Loops: a depth-first search from START over the edges in their order;   *)
(* an edge to a node on its stack is a back edge, and needs a cap and an   *)
(* exit, on its target or else on its source.                              *)
(***************************************************************************)
RECURSIVE Search(_, _, _, _)
Search(d, n, stack, acc) ==
    LET Follow(a, t) ==
            IF t = END THEN a
            ELSE IF t \in stack \cup {n} THEN [a EXCEPT !.back = @ \cup {<<n, t>>}]
            ELSE IF t \in a.visited THEN a
            ELSE Search(d, t, stack \cup {n}, a)
        targets == FlattenSeq([i \in DOMAIN OutgoingEdges(d, n) |->
                                  OutgoingEdges(d, n)[i].to])
    IN  FoldLeft(Follow, [acc EXCEPT !.visited = @ \cup {n}], targets)

BackEdges(d) ==
    IF OutgoingEdges(d, START) = << >> THEN {}
    ELSE Search(d, START, {}, [visited |-> {}, back |-> {}]).back

(* Mutant: any cap of the recipe will do. *)
AnyCap(d, e) == IF DOMAIN d.limits = {} THEN e[1] ELSE CHOOSE n \in DOMAIN d.limits : TRUE

CappedEnd(d, e) == IF e[2] \in DOMAIN d.limits THEN e[2] ELSE e[1]

LoopErrors(d) ==
    LET exits == {d.exits[n] : n \in DOMAIN d.exits}
    IN  UNION {Rule(n \in DOMAIN d.nodes => d.nodes[n].type \notin Interrupts,
                    "exit into an interrupt") : n \in exits}
        \cup UNION {LET n == CappedEnd(d, e)
                    IN  Rule(n \in DOMAIN d.limits /\ Got(d.limits, n, 0) >= 1, "no cap")
                        \cup Rule(n \in DOMAIN d.exits
                                  /\ Got(d.exits, n, Nowhere) \in DOMAIN d.nodes, "no exit") :
                      e \in BackEdges(d)}

(***************************************************************************)
(* The verdict on one document. Authority is a capability over the exact   *)
(* bytes of a compiled recipe; a project file never has it.                *)
(***************************************************************************)
ProfileErrors(d, authorized) ==
    ShapeErrors(d)
    \cup UNION {Rule(d.nodes[n].type \notin Forbidden, "forbidden node") : n \in DOMAIN d.nodes}
    \cup StepErrors(d)
    \cup UNION {InterruptErrors(d, n, authorized) : n \in DOMAIN d.nodes}
    \cup LoopErrors(d)

Accepted(d, authorized) == ProfileErrors(d, authorized) = {}
=============================================================================
