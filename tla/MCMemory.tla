------------------------------ MODULE MCMemory ------------------------------
(***************************************************************************)
(* Clients and a migration of two areas: one serves an earlier profile,    *)
(* the other holds a record older than the profiles.                       *)
(***************************************************************************)
EXTENDS Migration, TLC

Areas == <<"mem", "legacy">>

CONSTANTS
  Old,          \* the profile in use at first
  LateCalls     \* calls of a behaviour that has a migration

VARIABLE procs    \* the processes there are: calls, commands, or one of each

(* Two records of one area, and no migration.                              *)
Serving ==
    /\ state = [a \in Area |-> Active(Old)]
    /\ parents = [a \in Area |->
          IF a = "mem" THEN [m \in {1, 2} |-> [Parent(1, Day) EXCEPT !.gen[Old] = m]]
          ELSE <<>>]
    /\ chunks = [a \in Area |->
          [k \in IF a = "mem" THEN Keys(Old, 1, 1) \cup Keys(Old, 2, 2) ELSE {} |-> Day]]
    /\ calls = 0 /\ runs = MaxRuns

(* One area serves a profile; its record may have a generation of the      *)
(* target from an earlier migration there and back, with chunks that live  *)
(* shorter. The other has a record from before the profiles.               *)
Left == {Key(Target, 1, 2, i) : i \in 1..Chunks}

Migrates(again) ==
    LET record == Parent(1, Day)
        gen == IF again THEN 2 ELSE 0
    IN  /\ state = ("mem" :> Active(Old)) @@ ("legacy" :> Blank)
        /\ parents = ("mem" :> (1 :> [record EXCEPT !.gen[Old] = 1, !.gen[Target] = gen]))
                  @@ ("legacy" :> (2 :> [record EXCEPT !.gen[Legacy] = 1]))
        /\ chunks = ("legacy" :> <<>>)
             @@ ("mem" :> [k \in Keys(Old, 1, 1) \cup (IF again THEN Left ELSE {}) |->
                              IF k.profile = Old THEN Day ELSE 1])
        /\ calls = MaxCalls - LateCalls /\ runs = 0

(* BOUND: records expire at 2, so a migration starts one tick before that, *)
(* and a call beside it works on the area that serves a profile.           *)
Init ==
    /\ \/ Serving /\ procs = Client /\ now = 0
       \/ Migrates(TRUE) /\ procs = Migrator /\ now = 0
       \/ Migrates(FALSE) /\ \E c \in Client, x \in Migrator : procs = {c, x} /\ now = 1
    /\ used = {1, 2} /\ gens = 2
    /\ client = [c \in Client |-> Idle]
    /\ lock = 0 /\ manifest = None
    /\ migr = [x \in Migrator |-> Off]
    /\ MigrationInit

Next ==
    /\ UNCHANGED procs
    /\ \/ /\ Tick \/ \E c \in Client \cap procs :
                        ClientStep(c) /\ client'[c].area # "legacy"
          /\ UNCHANGED mvars
       \/ \E x \in Migrator \cap procs : MigratorStep(x)
       \/ LockExpires

vars == <<memory, client, mvars, procs>>

Spec == Init /\ [][Next]_vars

Symmetry == Permutations(Client) \cup Permutations(Migrator)
=============================================================================
