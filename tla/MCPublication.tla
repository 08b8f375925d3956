---------------------------- MODULE MCPublication ----------------------------
(* Two runs of a project: the first publishes two files; the second publishes *)
(* either one of those or a third.                                            *)
EXTENDS Publication
CONSTANTS r1, r2, p1, p2, p3
MCRuns == {r1, r2}
MCPaths == {p1, p2, p3}
MCPlans == {[r \in MCRuns |-> IF r = r1 THEN <<p1, p2>> ELSE <<q>>] : q \in {p2, p3}}
=============================================================================
