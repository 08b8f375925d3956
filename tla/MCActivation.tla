----------------------------- MODULE MCActivation -----------------------------
(* One server with two command threads and its pump, two owners, two runs  *)
(* that need the same key.  BOUND: two owners before the first command, or *)
(* one owner who lives, against the threads of a server; he grants the key *)
(* or takes it back, and another installation is put in place only between *)
(* two provisionings.                                                      *)
EXTENDS Activation
CONSTANTS k1, codex, i1, i2, o1, o2, t1, t2, r1, r2

MCSelector == [k \in Keys |-> codex]
MCRequirement == [r \in Runs |-> k1]

SmallEnough ==
  commands' > 0 =>
    /\ request'[o2] = None
    /\ request'[o1] # None => request'[o1].inventory = Keys
    /\ request[o1] # None => request'[o1] # None \/ snapshot' = pending[o1]
    /\ request[o1] # None /\ pending[o1] = None /\ holder = None => pending'[o1] # None
    /\ run[r1] = "absent" => \A t \in Threads : cur'[t] = r2 =>
                               \E other \in Threads : cur'[other] = r1
    /\ commands = 0 => op'[t2] = None
    /\ installed' # installed => request[o1] = None /\ installed[codex] = i1

MCInit == Init /\ installed[codex] = i1
MCNext == Next /\ SmallEnough
MCSpec == MCInit /\ [][MCNext]_vars
=============================================================================
