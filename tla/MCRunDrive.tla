------------------------------ MODULE MCRunDrive ------------------------------
(* Two processes, two runs and a single slot in each process.  BOUND: two  *)
(* runs compete for the slot of one process (the first comes to two waits, *)
(* the second to one), or two processes drive one run that waits once.     *)
EXTENDS RunDrive
CONSTANTS r1, r2, s1, s2

SmallEnough ==
  /\ left'[r2] > 0
  /\ up'[s2] => left'[r1] > 0 /\ graph'[r2] = "absent"

MCNext == Next /\ SmallEnough
MCSpec == Init /\ [][MCNext]_vars /\ Fairness
=============================================================================
