----------------------------- MODULE NativeGraph -----------------------------
(***************************************************************************)
(* The executor of a compiled recipe: yamlgraph over langgraph, as the     *)
(* adapter drives it (recipe/yamlgraph_adapter.py). The library is not     *)
(* part of the repository; what it does is taken from the dialect the      *)
(* adapter records and from what the compiler relies on.                   *)
(*                                                                         *)
(* A recipe is a record of nodes, an ordered list of edges, and the caps   *)
(* of looping nodes with the node a spent cap leads to. Passthrough nodes  *)
(* write channels; python nodes run a validator and write its verdict;     *)
(* interrupt nodes wait for an answer. The executor moves one token at a   *)
(* time: a superstep of the library is one of the orders allowed here.     *)
(***************************************************************************)
EXTENDS NativeRecipe

CONSTANT Replies(_)       \* the answers an effect node may be given

VARIABLES recipe,         \* the recipe that runs
          at,             \* nodes that hold a token
          arrived,        \* <<edge, source>> pairs a join has seen
          vals,           \* channel -> value
          log             \* effect node -> the answers it was given, in order

vars == <<recipe, at, arrived, vals, log>>

Compare(v, c) ==
    LET found == IF c.field = "self" THEN Got(v, c.key, "none")
                                     ELSE Got(v, c.key, NoResult)[c.field]
    IN  (found = c.lit) = c.eq

Holds(when, v) == \E all \in when : \A c \in all : Compare(v, c)

(***************************************************************************)
(* Leaving a node: the first conditional edge that holds, or every         *)
(* unconditional edge. Nothing that holds leaves no token at all.          *)
(***************************************************************************)
OutEdges(n) == {i \in DOMAIN recipe.edges : n \in recipe.edges[i].from}

Conditional(n) == {i \in OutEdges(n) : recipe.edges[i].when # Always}

Taken(n, v) ==
    IF Conditional(n) # {}
    THEN LET open == {i \in Conditional(n) : Holds(recipe.edges[i].when, v)}
         IN  {i \in open : \A j \in open : i <= j}
    ELSE OutEdges(n)

Joins(i) == Cardinality(recipe.edges[i].from) > 1

Leave(n, v) ==
    LET now == Taken(n, v)
        seen == arrived \cup {<<i, n>> : i \in {j \in now : Joins(j)}}
        whole == {i \in now : Joins(i) =>
                     \A m \in recipe.edges[i].from : <<i, m>> \in seen}
    IN  /\ at' = (at \ {n}) \cup UNION {Range(recipe.edges[i].to) : i \in whole}
        /\ arrived' = {s \in seen : s[1] \notin whole}

(***************************************************************************)
(* A passthrough node. The guard of a cap is read before the node runs: a  *)
(* spent cap skips the node and takes its loop exit, which is consulted    *)
(* only where the routing of conditional edges is.                         *)
(***************************************************************************)
Spent(n) ==
    /\ n \in DOMAIN recipe.limits
    /\ Got(Got(vals, Counts, << >>), n, 0) >= recipe.limits[n]

Written(put, v) == IF put[2] = "copy" THEN Got(v, put[3], NoResult) ELSE put[3]

RECURSIVE WriteAll(_, _, _)
WriteAll(puts, old, v) ==
    IF puts = << >> THEN v
    ELSE WriteAll(Tail(puts), old, Put(v, Head(puts)[1], Written(Head(puts), old)))

Counted(n, v) ==
    IF n \notin DOMAIN recipe.limits THEN v
    ELSE LET c == Got(v, Counts, << >>)
         IN  Put(v, Counts, Put(c, n, Got(c, n, 0) + 1))

\* What running a node may write; a cap is counted with it, and skips it when spent.
Results(n) ==
    IF recipe.nodes[n].type = "pass" THEN {WriteAll(recipe.nodes[n].puts, vals, vals)}
    ELSE {Put(vals, recipe.nodes[n].key, verdict) : verdict \in {"pass", "fail"}}

Visit(n) ==
    /\ n \in at
    /\ recipe.nodes[n].type \in {"pass", "python"}
    /\ n # END
    /\ IF Spent(n) /\ Conditional(n) # {}
       THEN /\ at' = (at \ {n}) \cup {recipe.exits[n]}
            /\ UNCHANGED <<vals, arrived>>
       ELSE \E ran \in IF Spent(n) THEN {vals} ELSE Results(n) :
               LET after == IF Spent(n) THEN ran ELSE Counted(n, ran)
               IN  vals' = after /\ Leave(n, after)
    /\ UNCHANGED <<recipe, log>>

(***************************************************************************)
(* The answer of an interrupt is written under the node's resume key, and  *)
(* the edges are routed on it. No cap is read here.                        *)
(***************************************************************************)
Asks(n) == recipe.nodes[n].type \in {"effect", "work", "escalate"}

Answer(n) ==
    /\ n \in at
    /\ Asks(n)
    /\ \E r \in Replies(recipe.nodes[n]) :
        LET after == Put(vals, recipe.nodes[n].key, r)
        IN  /\ vals' = after
            /\ log' = Put(log, n, Append(Got(log, n, << >>), r))
            /\ Leave(n, after)
    /\ UNCHANGED recipe

Begin(r) ==
    /\ recipe = r
    /\ at = {START}
    /\ arrived = {}
    /\ vals = << >>
    /\ log = << >>

Next == \E n \in at : Visit(n) \/ Answer(n)

(***************************************************************************)
(* What a caller sees: the effects that wait, whether the run is over, and *)
(* the outcome it recorded.                                                *)
(***************************************************************************)
Pending == {n \in at : Asks(n)}

Quiet == at \subseteq Pending \cup {END}

Over == END \in at

Recorded == Got(vals, Outcome, "none")

InputOf(n) ==
    LET node == recipe.nodes[n]
    IN  IF node.input = Nowhere THEN <<"none">>
        ELSE IF node.kind \in {"accept", "publish"}
             THEN <<"result", Got(vals, node.input, NoResult)>>
             ELSE Got(vals, node.input, <<"none">>)
=============================================================================
