---------------------------- MODULE ActivationProofs ----------------------------
(***************************************************************************)
(* Proofs about the owner policy and the writable core of a server, for    *)
(* any number of command threads, owners, runs and generations.            *)
(***************************************************************************)
EXTENDS Activation, TLAPS

(***************************************************************************)
(* The owner's file.  A snapshot is what NextSnapshot makes; generations   *)
(* only grow, and one that takes the same two as its predecessor is the    *)
(* predecessor.  Who has a successor in hand is in snapshot.lock.          *)
(***************************************************************************)
Formed(s) ==
  /\ s.config \in 1 .. MaxGeneration /\ s.policy \in 1 .. MaxGeneration
  /\ s.binding \in [Runners -> Installs \cup {None}]
  /\ DOMAIN s.grant \subseteq Keys
  /\ s = [config |-> s.config, policy |-> s.policy, binding |-> s.binding,
          grant |-> [key \in DOMAIN s.grant |->
            [digest |-> RequirementDigest(key, BindingFor(s, key), s.config),
             generation |-> s.grant[key].generation]]]
  /\ \A key \in DOMAIN s.grant : s.grant[key].generation \in Nat \ {0}

Follows(s, t) ==
  /\ s.config >= t.config /\ s.policy >= t.policy
  /\ s.config = t.config /\ s.policy = t.policy => s = t

Asked(q) ==
  /\ q.binding \in [Runners -> Installs \cup {None}]
  /\ q.keys \subseteq q.inventory /\ q.inventory \subseteq Keys

PolicyInv ==
  /\ installed \in [Runners -> Installs]
  /\ request = [o \in Owners |-> request[o]] /\ pending = [o \in Owners |-> pending[o]]
  /\ snapshot = None => written = {}
  /\ snapshot # None => snapshot \in written /\ Formed(snapshot)
  /\ \A s \in written : Formed(s) /\ Follows(snapshot, s)
  /\ GenerationsNameContent
  /\ \A o \in Owners : request[o] # None => Asked(request[o])
  /\ \A o \in Owners : pending[o] # None =>
       /\ holder = o /\ request[o] # None /\ Formed(pending[o])
       /\ snapshot # None => Follows(pending[o], snapshot)

(***************************************************************************)
(* The threads: where each is, and which of the three locks it has there.  *)
(***************************************************************************)
ThreadSteps == {"free", "activation", "admission", "hold", "try", "wait", "passed",
                "configure", "prepare", "persist", "install", "enter", "sweep", "commit",
                "leave", "relock", "readmit", "close", "join"}
PumpSteps   == {"off", "idle", "drain", "drive", "launch", "install", "enter", "sweep",
                "commit"}

StartPrepares(t) == pc[t] = "prepare" /\ op[t] = "start"
Starting(t) ==
  \/ pc[t] \in {"admission", "hold", "try", "wait", "passed", "configure", "persist"}
  \/ StartPrepares(t)

HasActivation(t) ==
  t # Pump /\ pc[t] \in {"passed", "configure", "prepare", "persist", "install", "enter",
                         "sweep", "commit", "leave", "readmit"}

HasAdmission(t) ==
  \/ pc[t] \in {"hold", "try", "configure", "persist", "sweep", "commit", "drive", "launch"}
  \/ StartPrepares(t)
  \/ t # Pump /\ pc[t] = "install" /\ ~prepared[t]

HasSnapshot(t) ==
  pc[t] \in {"try", "configure", "persist", "commit", "launch"} \/ StartPrepares(t)

Place(t) ==
  /\ pc[t] \in IF t = Pump THEN PumpSteps ELSE ThreadSteps
  /\ op[t] \in {None} \cup Ops /\ prepared[t] \in BOOLEAN
  /\ (activation = t) <=> HasActivation(t)
  /\ (admission = t) <=> HasAdmission(t)
  /\ (holder = t) <=> HasSnapshot(t)
  /\ prepared[t] => t # Pump /\ pc[t] \in {"persist", "install", "enter", "sweep", "commit"}
  /\ t # Pump /\ pc[t] = "enter" => prepared[t]
  /\ Starting(t) => op[t] = "start"
  /\ pc[t] = "activation" => op[t] # "start"

Shapes ==
  /\ pc = [t \in All |-> pc[t]] /\ op = [t \in All |-> op[t]]
  /\ decision = [t \in All |-> decision[t]] /\ cur = [t \in All |-> cur[t]]
  /\ prepared = [t \in All |-> prepared[t]]

PlaceInv ==
  /\ Shapes
  /\ activation \in {None} \cup All /\ admission \in {None} \cup All
  /\ holder \in {None} \cup Owners \cup All
  /\ \A t \in All : Place(t)

(***************************************************************************)
(* The runs: who starts or commits which, and what was decided for it.     *)
(***************************************************************************)
Quotes(s, r) ==
  /\ s # None /\ Preflight(s, {requirement[r]})
  /\ record[r].binding = BindingFor(s, requirement[r])
  /\ record[r].policy = s.policy /\ record[r].config = s.config

Duty(t) ==
  /\ cur[t] \in {None} \cup Runs
  /\ Starting(t) =>
       /\ cur[t] # None /\ run[cur[t]] = "absent"
       /\ decision[t] # None /\ Formed(decision[t])
       /\ Preflight(decision[t], {requirement[cur[t]]})
  /\ Starting(t) /\ HasSnapshot(t) => snapshot = decision[t]
  /\ pc[t] \in {"commit", "launch"} =>
       cur[t] # None /\ run[cur[t]] = "prepared" /\ Quotes(snapshot, cur[t])
  /\ cur[t] # None /\ run[cur[t]] = "absent" => Starting(t)

RunInv ==
  /\ run \in [Runs -> {"absent", "parked", "prepared", "launched", "done"}]
  /\ record = [r \in Runs |-> record[r]]
  /\ \A r \in Runs : record[r] = None <=> run[r] \in {"absent", "parked"}
  /\ \A t \in All : Duty(t)
  /\ \A s, t \in All : s # t /\ cur[s] = cur[t] /\ cur[s] # None
                          => run[cur[s]] # "absent"

(***************************************************************************)
(* The core: what is open, by whom it is being opened, and which authority *)
(* a drive finds there.                                                    *)
(***************************************************************************)
Recovering(t) ==
  \/ pc[t] \in {"relock", "readmit"}
  \/ pc[t] \in {"install", "sweep", "commit"} /\ ~prepared[t]
Recovered(t) == prepared[t] /\ pc[t] \in {"enter", "sweep", "commit"}

CoreDuty(t) ==
  /\ prepared[t] => ~active /\ ~closed /\ stores
  /\ pc[t] = "join" => closed
  /\ pc[t] = "leave" => active
  /\ pc[t] = "persist" => prepared[t] \/ active
  /\ Recovering(t) => active \/ closed
  /\ pc[t] = "persist" \/ StartPrepares(t) => context # None

CoreInv ==
  /\ active \in BOOLEAN /\ closed \in BOOLEAN /\ stores \in BOOLEAN
  /\ stop \in BOOLEAN /\ failure \in BOOLEAN
  /\ context # None => Formed(context)
  /\ deferred \in {None} \cup Runs
  /\ active => stores /\ ~closed /\ ~stop /\ (pc[Pump] # "off" \/ failure)
  /\ ~active /\ ~closed => ~stop /\ pc[Pump] = "off"
  /\ closed /\ pc[Pump] # "off" => stop
  /\ (\A t \in Threads : ~prepared[t]) => deferred = None /\ (stores => active \/ closed)
  /\ (\A t \in Threads : ~prepared[t] /\ ~StartPrepares(t)) =>
       (context # None => active \/ closed)
  /\ \A t \in Threads : CoreDuty(t)

(* Somebody may come to drive the runs that are parked. *)
Attended ==
  active \/ pc[Pump] # "off" \/ \E t \in Threads : Recovering(t) \/ Recovered(t)

Matches(s) ==
  \A r \in Protected : record[r] # None => record[r].binding = BindingFor(s, requirement[r])

AuthorityInv ==
  /\ context = None /\ Attended => Protected = {}
  /\ context # None /\ (active \/ \E t \in Threads : Recovered(t)) => Matches(context)

IInv == PolicyInv /\ PlaceInv /\ RunInv /\ CoreInv /\ AuthorityInv

-----------------------------------------------------------------------------
(* Names and values *)

LEMMA Names ==
  /\ Pump \notin Threads /\ Pump \in All /\ Threads \subseteq All
  /\ None \notin All /\ None \notin Owners /\ None \notin Runs
  /\ \A o \in Owners : o \notin All
  /\ requirement \in [Runs -> Keys] /\ selector \in [Keys -> Runners]
BY ActivationAssumption, OwnerPolicyAssumption DEF All

(***************************************************************************)
(* A step of one thread: what it leaves to the others.                     *)
(***************************************************************************)
OthersStay(t) ==
  /\ \A s \in All \ {t} :
       /\ pc'[s] = pc[s] /\ op'[s] = op[s] /\ decision'[s] = decision[s]
       /\ prepared'[s] = prepared[s] /\ cur'[s] = cur[s]
       /\ (activation' = s) <=> (activation = s)
       /\ (admission' = s) <=> (admission = s)
       /\ (holder' = s) <=> (holder = s)
  /\ \A o \in Owners : (holder' = o) <=> (holder = o)
  /\ activation' \in {activation, None, t} /\ admission' \in {admission, None, t}
  /\ holder' \in {holder, None, t}

Local(t) == Shapes' /\ OthersStay(t)

LEMMA PolicyKept ==
  ASSUME PolicyInv, UNCHANGED owner, \A o \in Owners : holder = o => holder' = o
  PROVE  PolicyInv'
BY DEF PolicyInv, owner, ownerFile, ownerWork, Formed, BindingFor, Follows, Asked,
   GenerationsNameContent

LEMMA PlaceKept ==
  ASSUME PlaceInv, NEW t \in All, Local(t), Place(t)'
  PROVE  PlaceInv'
<1>1. \A s \in All : Place(s)'
  BY DEF PlaceInv, Local, OthersStay, Place, HasActivation, HasAdmission, HasSnapshot,
         Starting, StartPrepares
<1> QED
  BY <1>1 DEF PlaceInv, Local, OthersStay

LEMMA RunKept ==
  ASSUME RunInv, NEW t \in All, Local(t), UNCHANGED <<durable, snapshot>>, Duty(t)',
         \A s \in All \ {t} : cur'[t] # None /\ cur[s] = cur'[t] => run[cur[s]] # "absent"
  PROVE  RunInv'
<1> USE DEF durable
<1>1. ASSUME NEW s \in All \ {t}
      PROVE  Duty(s)'
  <2>1. Duty(s)
    BY DEF RunInv
  <2>2. /\ pc'[s] = pc[s] /\ cur'[s] = cur[s] /\ decision'[s] = decision[s]
        /\ Starting(s)' <=> Starting(s)
        /\ HasSnapshot(s)' <=> HasSnapshot(s)
    BY DEF Local, OthersStay, Starting, StartPrepares, HasSnapshot
  <2>3. /\ Preflight(decision[s], {requirement[cur[s]]})'
             <=> Preflight(decision[s], {requirement[cur[s]]})
        /\ Formed(decision[s])' <=> Formed(decision[s])
        /\ Quotes(snapshot, cur[s])' <=> Quotes(snapshot, cur[s])
    BY <2>2 DEF Preflight, Formed, Quotes, BindingFor
  <2> QED
    BY <2>1, <2>2, <2>3 DEF Duty
<1>2. \A s \in All : Duty(s)'
  BY <1>1
<1>3. \A s, u \in All : s # u /\ cur'[s] = cur'[u] /\ cur'[s] # None
                          => run'[cur'[s]] # "absent"
  BY DEF RunInv, Local, OthersStay
<1> QED
  BY <1>2, <1>3 DEF RunInv

(* A step that leaves the core as it is. *)
LEMMA CoreKept ==
  ASSUME CoreInv, AuthorityInv, NEW t \in Threads, Local(t), UNCHANGED <<core, durable>>,
         CoreDuty(t)', prepared'[t] = prepared[t],
         StartPrepares(t) => StartPrepares(t)' \/ active \/ closed,
         Recovering(t)' => active \/ Recovering(t),
         Recovered(t)' => active \/ Recovered(t)
  PROVE  CoreInv' /\ AuthorityInv'
<1>0. t \in All /\ Threads \subseteq All /\ Pump \in All \ {t}
  BY Names
<1> USE DEF core, durable
<1>1. \A s \in Threads \ {t} :
        /\ pc'[s] = pc[s] /\ prepared'[s] = prepared[s]
        /\ Recovering(s)' <=> Recovering(s)
        /\ Recovered(s)' <=> Recovered(s)
        /\ StartPrepares(s)' <=> StartPrepares(s)
  BY <1>0 DEF Local, OthersStay, Recovering, Recovered, StartPrepares
<1>2. pc'[Pump] = pc[Pump]
  BY <1>0 DEF Local, OthersStay
<1>3. \A s \in Threads : CoreDuty(s)'
  BY <1>1 DEF CoreInv, CoreDuty
<1>4. Formed(context)' <=> Formed(context)
  BY DEF Formed, BindingFor
<1>5. CoreInv'
  BY <1>1, <1>2, <1>3, <1>4 DEF CoreInv
<1>6. Attended' => Attended
  BY <1>1, <1>2 DEF Attended
<1>7. AuthorityInv'
  <2>1. Protected' = Protected
    BY DEF Protected
  <2>2. Matches(context)' <=> Matches(context)
    BY <2>1 DEF Matches, BindingFor
  <2>3. active' \/ (\E s \in Threads : Recovered(s)') =>
          active \/ \E s \in Threads : Recovered(s)
    BY <1>1
  <2> QED
    BY <1>6, <2>1, <2>2, <2>3 DEF AuthorityInv
<1> QED
  BY <1>5, <1>7

(* A step of the pump that leaves the core as it is. *)
LEMMA PumpCoreKept ==
  ASSUME CoreInv, AuthorityInv, Local(Pump), UNCHANGED <<core, durable>>,
         pc[Pump] # "off", pc'[Pump] # "off"
  PROVE  CoreInv' /\ AuthorityInv'
<1>0. Threads \subseteq All \ {Pump}
  BY Names
<1> USE DEF core, durable
<1>1. \A s \in Threads :
        /\ pc'[s] = pc[s] /\ prepared'[s] = prepared[s]
        /\ Recovering(s)' <=> Recovering(s)
        /\ Recovered(s)' <=> Recovered(s)
        /\ StartPrepares(s)' <=> StartPrepares(s)
  BY <1>0 DEF Local, OthersStay, Recovering, Recovered, StartPrepares
<1>3. \A s \in Threads : CoreDuty(s)'
  BY <1>1 DEF CoreInv, CoreDuty
<1>4. Formed(context)' <=> Formed(context)
  BY DEF Formed, BindingFor
<1>5. CoreInv'
  BY <1>1, <1>3, <1>4 DEF CoreInv
<1>7. AuthorityInv'
  <2>1. Protected' = Protected
    BY DEF Protected
  <2>2. Matches(context)' <=> Matches(context)
    BY <2>1 DEF Matches, BindingFor
  <2>3. (\E s \in Threads : Recovered(s)') => \E s \in Threads : Recovered(s)
    BY <1>1
  <2> QED
    BY <2>1, <2>2, <2>3 DEF AuthorityInv, Attended
<1> QED
  BY <1>5, <1>7

-----------------------------------------------------------------------------
(* Steps that leave the core as it is *)

Handed(before, after, t) ==
  after = before \/ (before = None /\ after = t) \/ (before = t /\ after = None)

(* A thread goes on, takes some locks and lets go of others.               *)
Walks(t, step) ==
  /\ Goto(t, step) /\ UNCHANGED <<owner, durable, local>>
  /\ Handed(activation, activation', t) /\ Handed(admission, admission', t)
  /\ Handed(holder, holder', t)

LEMMA WalkIsLocal ==
  ASSUME PlaceInv, NEW t \in All, NEW step, Walks(t, step)
  PROVE  /\ Local(t) /\ pc'[t] = step /\ op'[t] = op[t] /\ prepared'[t] = prepared[t]
         /\ cur'[t] = cur[t] /\ decision'[t] = decision[t]
BY Names DEF PlaceInv, Shapes, Walks, Local, OthersStay, Handed, Goto, Put, local

LEMMA ReturnIsLocal ==
  ASSUME PlaceInv, NEW t \in Threads, Return(t)
  PROVE  /\ Local(t) /\ Place(t)' /\ pc'[t] = "free" /\ prepared'[t] = FALSE
         /\ op'[t] = None /\ cur'[t] = None /\ decision'[t] = None
<1>0. t \in All /\ t # None /\ t # Pump /\ t \notin Owners /\ None \notin Owners
  BY Names
<1>1. /\ Shapes' /\ pc'[t] = "free" /\ prepared'[t] = FALSE
      /\ op'[t] = None /\ cur'[t] = None /\ decision'[t] = None
  BY <1>0 DEF PlaceInv, Shapes, Return, Goto, Put
<1>2. activation' # t /\ admission' # t /\ holder' # t
  BY <1>0 DEF Return
<1>3. OthersStay(t)
  BY <1>0, Names DEF PlaceInv, Shapes, OthersStay, Return, Goto, Put
<1>4. Place(t)'
  BY <1>0, <1>1, <1>2, Names DEF Place, HasActivation, HasAdmission, HasSnapshot, Starting,
     StartPrepares, ThreadSteps
<1> QED
  BY <1>1, <1>3, <1>4 DEF Local

LEMMA QuietThread ==
  ASSUME IInv, NEW t \in Threads, Local(t), UNCHANGED <<owner, durable, core>>,
         Place(t)', Duty(t)', CoreDuty(t)', prepared'[t] = prepared[t],
         \A s \in All \ {t} : cur'[t] # None /\ cur[s] = cur'[t] => run[cur[s]] # "absent",
         StartPrepares(t) => StartPrepares(t)' \/ active \/ closed,
         Recovering(t)' => active \/ Recovering(t),
         Recovered(t)' => active \/ Recovered(t)
  PROVE  IInv'
<1>0. t \in All
  BY Names
<1>1. PolicyInv'
  BY PolicyKept DEF IInv, Local, OthersStay
<1>2. PlaceInv'
  BY <1>0, PlaceKept DEF IInv
<1>3. RunInv'
  BY <1>0, RunKept DEF IInv, owner, ownerFile
<1>4. CoreInv' /\ AuthorityInv'
  BY CoreKept DEF IInv
<1> QED
  BY <1>1, <1>2, <1>3, <1>4 DEF IInv

LEMMA QuietPump ==
  ASSUME IInv, Local(Pump), UNCHANGED <<owner, durable, core>>,
         Place(Pump)', Duty(Pump)', pc[Pump] # "off", pc'[Pump] # "off",
         \A s \in Threads : cur'[Pump] # None /\ cur[s] = cur'[Pump] => run[cur[s]] # "absent"
  PROVE  IInv'
<1>0. Pump \in All /\ All \ {Pump} \subseteq Threads
  BY Names DEF All
<1>1. PolicyInv'
  BY PolicyKept DEF IInv, Local, OthersStay
<1>2. PlaceInv'
  BY <1>0, PlaceKept DEF IInv
<1>3. RunInv'
  BY <1>0, RunKept DEF IInv, owner, ownerFile
<1>4. CoreInv' /\ AuthorityInv'
  BY PumpCoreKept DEF IInv
<1> QED
  BY <1>1, <1>2, <1>3, <1>4 DEF IInv

LEMMA QuietReturn ==
  ASSUME IInv, NEW t \in Threads, Return(t), UNCHANGED <<owner, durable, core>>,
         ~prepared[t], StartPrepares(t) => active \/ closed
  PROVE  IInv'
<1>1. /\ Local(t) /\ Place(t)' /\ pc'[t] = "free" /\ prepared'[t] = FALSE
      /\ op'[t] = None /\ cur'[t] = None /\ decision'[t] = None
  BY ReturnIsLocal DEF IInv
<1>2. prepared[t] = FALSE
  BY Names DEF IInv, PlaceInv, Place
<1>3. Duty(t)' /\ CoreDuty(t)' /\ ~Recovering(t)' /\ ~Recovered(t)'
  BY <1>1 DEF Duty, CoreDuty, Recovering, Recovered, Starting, StartPrepares
<1> QED
  BY <1>1, <1>2, <1>3, QuietThread

(* What a thread is bound to goes with it.                                 *)
LEMMA DutyGoesAlong ==
  ASSUME IInv, NEW t \in All, NEW step, Walks(t, step),
         step \notin {"commit", "launch"},
         Starting(t)' <=> Starting(t),
         Starting(t) /\ HasSnapshot(t)' => HasSnapshot(t) \/ snapshot = decision[t]
  PROVE  Duty(t)'
<1>1. /\ pc'[t] = step /\ cur'[t] = cur[t] /\ decision'[t] = decision[t]
      /\ UNCHANGED <<run, record, snapshot>>
  BY WalkIsLocal DEF IInv, Walks, owner, ownerFile, durable
<1>2. Duty(t)
  BY DEF IInv, RunInv
<1>3. /\ Preflight(decision[t], {requirement[cur[t]]})'
           <=> Preflight(decision[t], {requirement[cur[t]]})
      /\ Formed(decision[t])' <=> Formed(decision[t])
  BY <1>1 DEF Preflight, Formed, BindingFor
<1> QED
  BY <1>1, <1>2, <1>3 DEF Duty

(* The name a thread keeps is nobody's else.                               *)
LEMMA NameKept ==
  ASSUME IInv, NEW t \in All, Local(t), cur'[t] = cur[t]
  PROVE  \A s \in All \ {t} : cur'[t] # None /\ cur[s] = cur'[t] => run[cur[s]] # "absent"
BY DEF IInv, RunInv

LEMMA QuietWalk ==
  ASSUME IInv, NEW t \in Threads, NEW step, Walks(t, step), UNCHANGED core,
         Place(t)', CoreDuty(t)',
         step # "commit", Starting(t)' <=> Starting(t),
         Starting(t) /\ HasSnapshot(t)' => HasSnapshot(t) \/ snapshot = decision[t],
         StartPrepares(t) => active \/ closed,
         Recovering(t)' => active \/ Recovering(t),
         Recovered(t)' => active \/ Recovered(t)
  PROVE  IInv'
<1>0. t \in All /\ t # Pump
  BY Names
<1>1. /\ Local(t) /\ pc'[t] = step /\ op'[t] = op[t] /\ prepared'[t] = prepared[t]
      /\ cur'[t] = cur[t]
  BY <1>0, WalkIsLocal DEF IInv
<1>2. step # "launch"
  BY <1>0, <1>1 DEF Place, ThreadSteps
<1>3. Duty(t)'
  BY <1>0, <1>2, DutyGoesAlong
<1>4. \A s \in All \ {t} : cur'[t] # None /\ cur[s] = cur'[t] => run[cur[s]] # "absent"
  BY <1>0, <1>1, NameKept
<1> QED
  BY <1>1, <1>3, <1>4, QuietThread DEF Walks

-----------------------------------------------------------------------------
(* The steps of a command, one lemma each *)

LEMMA ArriveKeeps ==
  ASSUME IInv, NEW t \in Threads, Arrive(t)
  PROVE  IInv'
<1>0. t \in All /\ t # Pump /\ Pump \notin Threads /\ All \ {t} \subseteq Threads \cup {Pump}
  BY Names DEF All
<1>1. /\ pc[t] = "free" /\ UNCHANGED <<owner, holder, durable, locks, core, prepared>>
      /\ Local(t)
  <2>1. /\ pc[t] = "free" /\ UNCHANGED <<owner, holder, durable, locks, core, prepared>>
        /\ \E step : pc' = [pc EXCEPT ![t] = step]
        /\ \E o : op' = [op EXCEPT ![t] = o]
        /\ decision' = decision \/ decision' = [decision EXCEPT ![t] = snapshot]
        /\ cur' = cur \/ \E r : cur' = [cur EXCEPT ![t] = r]
    BY DEF Arrive, Goto, Put
  <2>2. Shapes
    BY DEF IInv, PlaceInv
  <2>3. Shapes'
    BY <2>1, <2>2 DEF Shapes
  <2>4. OthersStay(t)
    BY <1>0, <2>1, <2>2 DEF Shapes, OthersStay, locks
  <2> QED
    BY <2>1, <2>3, <2>4 DEF Local
<1>2. ~prepared[t] /\ prepared'[t] = FALSE /\ ~StartPrepares(t) /\ ~Recovering(t)
  BY <1>0, <1>1 DEF IInv, PlaceInv, Place, StartPrepares, Recovering
<1>3. \/ /\ op'[t] = "start" /\ pc'[t] = "admission"
         /\ snapshot # None /\ decision'[t] = snapshot
         /\ \E r \in Runs :
              /\ cur'[t] = r /\ run[r] = "absent" /\ \A s \in Threads : cur[s] # r
              /\ Preflight(snapshot, {requirement[r]})
      \/ /\ op'[t] \in Ops \ {"start"} /\ pc'[t] \in {"close", "activation"}
         /\ cur' = cur
  BY <1>0 DEF Arrive, IInv, PlaceInv, Shapes, Goto, Put
<1>4. pc'[t] \in {"admission", "close", "activation"} /\ op'[t] \in Ops
  BY <1>3 DEF Ops
<1>5. Place(t)'
  <2>1. activation' # t /\ admission' # t /\ holder' # t
    BY <1>0, <1>1, <1>2 DEF IInv, PlaceInv, Place, HasActivation, HasAdmission, HasSnapshot,
       StartPrepares, locks
  <2> QED
    BY <1>0, <1>1, <1>2, <1>3, <1>4, <2>1 DEF Place, HasActivation, HasAdmission, HasSnapshot,
       Starting, StartPrepares, ThreadSteps
<1>6. CoreDuty(t)' /\ ~Recovering(t)' /\ ~Recovered(t)'
  BY <1>2, <1>4 DEF CoreDuty, Recovering, Recovered, StartPrepares
<1>7. cur[t] # None => run[cur[t]] # "absent"
  BY <1>0, <1>1 DEF IInv, RunInv, Duty, Starting, StartPrepares
<1>8. cur[Pump] # None => run[cur[Pump]] # "absent"
  BY <1>0, Names DEF IInv, PlaceInv, Place, RunInv, Duty, Starting, StartPrepares, PumpSteps
<1>9. Duty(t)'
  <2>0. UNCHANGED <<run, record, snapshot>>
    BY <1>1 DEF owner, ownerFile, durable
  <2>1. CASE op'[t] = "start"
    <3>1. Formed(snapshot)
      BY <1>3, <2>1 DEF IInv, PolicyInv
    <3>2. PICK r \in Runs : /\ cur'[t] = r /\ run[r] = "absent"
                            /\ Preflight(snapshot, {requirement[r]})
      BY <1>3, <2>1
    <3>3. Formed(decision[t])' /\ Preflight(decision[t], {requirement[cur[t]]})'
      BY <1>3, <2>1, <3>1, <3>2 DEF Formed, Preflight, BindingFor
    <3>4. Starting(t)' /\ ~HasSnapshot(t)'
      BY <1>3, <2>1 DEF Starting, HasSnapshot, StartPrepares
    <3> QED
      BY <1>3, <2>0, <2>1, <3>2, <3>3, <3>4, Names DEF Duty
  <2>2. CASE op'[t] # "start"
    <3>1. cur' = cur /\ cur[t] \in {None} \cup Runs
      BY <1>0, <1>3, <2>2 DEF IInv, RunInv, Duty
    <3>2. ~Starting(t)' /\ pc'[t] \notin {"commit", "launch"}
      BY <1>3, <2>2 DEF Starting, StartPrepares
    <3> QED
      BY <1>7, <2>0, <3>1, <3>2 DEF Duty
  <2> QED
    BY <2>1, <2>2
<1>10. \A s \in All \ {t} : cur'[t] # None /\ cur[s] = cur'[t] => run[cur[s]] # "absent"
  BY <1>0, <1>3, <1>7, <1>8
<1> QED
  BY <1>1, <1>2, <1>5, <1>6, <1>9, <1>10, QuietThread

(* What a thread knows of itself before a step. *)
LEMMA Self ==
  ASSUME IInv, NEW t \in Threads
  PROVE  /\ t \in All /\ t # Pump /\ t # None /\ t \notin Owners /\ None \notin Owners
         /\ Place(t) /\ Duty(t) /\ CoreDuty(t)
BY Names DEF IInv, PlaceInv, RunInv, CoreInv

LEMMA EnterActivationKeeps ==
  ASSUME IInv, NEW t \in Threads, EnterActivation(t)
  PROVE  IInv'
<1>0. /\ t \in All /\ t # Pump /\ t # None /\ t \notin Owners /\ None \notin Owners
      /\ Place(t) /\ Duty(t) /\ CoreDuty(t)
  BY Self
<1>1. Walks(t, "prepare")
  BY <1>0 DEF EnterActivation, Walks, Handed
<1>2. /\ pc'[t] = "prepare" /\ op'[t] = op[t] /\ prepared'[t] = prepared[t]
  BY <1>0, <1>1, WalkIsLocal DEF IInv
<1>3. Place(t)'
  BY <1>0, <1>2 DEF EnterActivation, Place, HasActivation, HasAdmission, HasSnapshot,
     Starting, StartPrepares, ThreadSteps
<1>4. CoreDuty(t)'
  BY <1>0, <1>2 DEF EnterActivation, CoreDuty, Recovering, Place, StartPrepares
<1> QED
  BY <1>0, <1>1, <1>2, <1>3, <1>4, QuietWalk
     DEF EnterActivation, Starting, StartPrepares, HasSnapshot, Recovering, Recovered, Place

LEMMA EnterAdmissionKeeps ==
  ASSUME IInv, NEW t \in Threads, EnterAdmission(t)
  PROVE  IInv'
<1>0. /\ t \in All /\ t # Pump /\ t # None /\ t \notin Owners /\ None \notin Owners
      /\ Place(t) /\ Duty(t) /\ CoreDuty(t)
  BY Self
<1>1. Walks(t, "hold")
  BY <1>0 DEF EnterAdmission, Walks, Handed
<1>2. pc'[t] = "hold" /\ op'[t] = op[t] /\ prepared'[t] = prepared[t]
  BY <1>0, <1>1, WalkIsLocal DEF IInv
<1>3. Place(t)'
  BY <1>0, <1>2 DEF EnterAdmission, Place, HasActivation, HasAdmission, HasSnapshot,
     Starting, StartPrepares, ThreadSteps, locks
<1>4. CoreDuty(t)'
  BY <1>0, <1>2 DEF EnterAdmission, CoreDuty, Recovering, Place, StartPrepares, core
<1> QED
  BY <1>0, <1>1, <1>2, <1>3, <1>4, QuietWalk
     DEF EnterAdmission, Starting, StartPrepares, HasSnapshot, Recovering, Recovered, Place,
         CoreDuty

LEMMA HoldCurrentKeeps ==
  ASSUME IInv, NEW t \in Threads, HoldCurrent(t)
  PROVE  IInv'
<1>0. /\ t \in All /\ t # Pump /\ t # None /\ t \notin Owners /\ None \notin Owners
      /\ Place(t) /\ Duty(t) /\ CoreDuty(t)
  BY Self
<1>1. CASE snapshot = decision[t]
  <2>1. Walks(t, "try")
    BY <1>0, <1>1 DEF HoldCurrent, Walks, Handed, locks
  <2>2. pc'[t] = "try" /\ op'[t] = op[t] /\ prepared'[t] = prepared[t]
    BY <1>0, <2>1, WalkIsLocal DEF IInv
  <2>3. Place(t)'
    BY <1>0, <1>1, <2>2 DEF HoldCurrent, Place, HasActivation, HasAdmission, HasSnapshot,
       Starting, StartPrepares, ThreadSteps, locks
  <2>4. CoreDuty(t)'
    BY <1>0, <1>1, <2>2 DEF HoldCurrent, CoreDuty, Recovering, Place, StartPrepares, core
  <2> QED
    BY <1>0, <1>1, <2>1, <2>2, <2>3, <2>4, QuietWalk
       DEF HoldCurrent, Starting, StartPrepares, HasSnapshot, Recovering, Recovered, Place,
           CoreDuty
<1>2. CASE snapshot # decision[t]
  <2>1. Return(t) /\ UNCHANGED <<owner, durable, core>>
    BY <1>0, <1>2 DEF HoldCurrent
  <2> QED
    BY <1>0, <1>2, <2>1, QuietReturn DEF HoldCurrent, Place, StartPrepares, CoreDuty
<1> QED
  BY <1>1, <1>2 DEF HoldCurrent

LEMMA TryActivationKeeps ==
  ASSUME IInv, NEW t \in Threads, TryActivation(t)
  PROVE  IInv'
<1>0. /\ t \in All /\ t # Pump /\ t # None /\ t \notin Owners /\ None \notin Owners
      /\ Place(t) /\ Duty(t) /\ CoreDuty(t)
  BY Self
<1>1. CASE activation = None
  <2>1. Walks(t, "configure")
    BY <1>0, <1>1 DEF TryActivation, Walks, Handed
  <2>2. pc'[t] = "configure" /\ op'[t] = op[t] /\ prepared'[t] = prepared[t]
    BY <1>0, <2>1, WalkIsLocal DEF IInv
  <2>3. Place(t)'
    BY <1>0, <1>1, <2>2 DEF TryActivation, Place, HasActivation, HasAdmission, HasSnapshot,
       Starting, StartPrepares, ThreadSteps, locks
  <2>4. CoreDuty(t)'
    BY <1>0, <1>1, <2>2 DEF TryActivation, CoreDuty, Recovering, Place, StartPrepares, core
  <2> QED
    BY <1>0, <1>1, <2>1, <2>2, <2>3, <2>4, QuietWalk
       DEF TryActivation, Starting, StartPrepares, HasSnapshot, Recovering, Recovered, Place,
           CoreDuty
<1>2. CASE activation # None
  <2>1. Walks(t, "wait")
    BY <1>0, <1>2 DEF TryActivation, Walks, Handed, Place, HasAdmission, HasSnapshot
  <2>2. pc'[t] = "wait" /\ op'[t] = op[t] /\ prepared'[t] = prepared[t]
    BY <1>0, <2>1, WalkIsLocal DEF IInv
  <2>3. Place(t)'
    BY <1>0, <1>2, <2>2 DEF TryActivation, Place, HasActivation, HasAdmission, HasSnapshot,
       Starting, StartPrepares, ThreadSteps, locks
  <2>4. CoreDuty(t)'
    BY <1>0, <1>2, <2>2 DEF TryActivation, CoreDuty, Recovering, Place, StartPrepares, core
  <2> QED
    BY <1>0, <1>2, <2>1, <2>2, <2>3, <2>4, QuietWalk
       DEF TryActivation, Starting, StartPrepares, HasSnapshot, Recovering, Recovered, Place,
           CoreDuty
<1> QED
  BY <1>1, <1>2 DEF TryActivation

LEMMA PassActivationKeeps ==
  ASSUME IInv, NEW t \in Threads, PassActivation(t)
  PROVE  IInv'
<1>0. /\ t \in All /\ t # Pump /\ t # None /\ t \notin Owners /\ None \notin Owners
      /\ Place(t) /\ Duty(t) /\ CoreDuty(t)
  BY Self
<1>1. CASE pc[t] = "wait"
  <2>1. Walks(t, "passed")
    BY <1>0, <1>1 DEF PassActivation, Walks, Handed
  <2>2. pc'[t] = "passed" /\ op'[t] = op[t] /\ prepared'[t] = prepared[t]
    BY <1>0, <2>1, WalkIsLocal DEF IInv
  <2>3. Place(t)'
    BY <1>0, <1>1, <2>2 DEF PassActivation, Place, HasActivation, HasAdmission, HasSnapshot,
       Starting, StartPrepares, ThreadSteps, locks
  <2>4. CoreDuty(t)'
    BY <1>0, <1>1, <2>2 DEF PassActivation, CoreDuty, Recovering, Place, StartPrepares, core
  <2> QED
    BY <1>0, <1>1, <2>1, <2>2, <2>3, <2>4, QuietWalk
       DEF PassActivation, Starting, StartPrepares, HasSnapshot, Recovering, Recovered, Place,
           CoreDuty
<1>2. CASE pc[t] = "passed"
  <2>1. Walks(t, "admission")
    BY <1>0, <1>2 DEF PassActivation, Walks, Handed, Place, HasActivation
  <2>2. pc'[t] = "admission" /\ op'[t] = op[t] /\ prepared'[t] = prepared[t]
    BY <1>0, <2>1, WalkIsLocal DEF IInv
  <2>3. Place(t)'
    BY <1>0, <1>2, <2>2 DEF PassActivation, Place, HasActivation, HasAdmission, HasSnapshot,
       Starting, StartPrepares, ThreadSteps, locks
  <2>4. CoreDuty(t)'
    BY <1>0, <1>2, <2>2 DEF PassActivation, CoreDuty, Recovering, Place, StartPrepares, core
  <2> QED
    BY <1>0, <1>2, <2>1, <2>2, <2>3, <2>4, QuietWalk
       DEF PassActivation, Starting, StartPrepares, HasSnapshot, Recovering, Recovered, Place,
           CoreDuty
<1> QED
  BY <1>1, <1>2 DEF PassActivation

LEMMA LeaveKeeps ==
  ASSUME IInv, NEW t \in Threads, Leave(t)
  PROVE  IInv'
<1>0. /\ t \in All /\ t # Pump /\ t # None /\ t \notin Owners /\ None \notin Owners
      /\ Place(t) /\ Duty(t) /\ CoreDuty(t)
  BY Self
<1>1. CASE op[t] = "recover"
  <2>1. Walks(t, "relock")
    BY <1>0, <1>1 DEF Leave, Walks, Handed, Place, HasActivation, locks
  <2>2. pc'[t] = "relock" /\ op'[t] = op[t] /\ prepared'[t] = prepared[t]
    BY <1>0, <2>1, WalkIsLocal DEF IInv
  <2>3. Place(t)'
    BY <1>0, <1>1, <2>2 DEF Leave, Place, HasActivation, HasAdmission, HasSnapshot,
       Starting, StartPrepares, ThreadSteps, locks
  <2>4. CoreDuty(t)'
    BY <1>0, <1>1, <2>2 DEF Leave, CoreDuty, Recovering, Place, StartPrepares, core
  <2> QED
    BY <1>0, <1>1, <2>1, <2>2, <2>3, <2>4, QuietWalk
       DEF Leave, Starting, StartPrepares, HasSnapshot, Recovering, Recovered, Place,
           CoreDuty
<1>2. CASE op[t] # "recover"
  <2>1. Return(t) /\ UNCHANGED <<owner, durable, core>>
    BY <1>0, <1>2 DEF Leave
  <2> QED
    BY <1>0, <1>2, <2>1, QuietReturn DEF Leave, Place, StartPrepares, CoreDuty
<1> QED
  BY <1>1, <1>2 DEF Leave

LEMMA RelockKeeps ==
  ASSUME IInv, NEW t \in Threads, Relock(t)
  PROVE  IInv'
<1>0. /\ t \in All /\ t # Pump /\ t # None /\ t \notin Owners /\ None \notin Owners
      /\ Place(t) /\ Duty(t) /\ CoreDuty(t)
  BY Self
<1>1. CASE pc[t] = "relock"
  <2>1. Walks(t, "readmit")
    BY <1>0, <1>1 DEF Relock, Walks, Handed
  <2>2. pc'[t] = "readmit" /\ op'[t] = op[t] /\ prepared'[t] = prepared[t]
    BY <1>0, <2>1, WalkIsLocal DEF IInv
  <2>3. Place(t)'
    BY <1>0, <1>1, <2>2 DEF Relock, Place, HasActivation, HasAdmission, HasSnapshot,
       Starting, StartPrepares, ThreadSteps, locks
  <2>4. CoreDuty(t)'
    BY <1>0, <1>1, <2>2 DEF Relock, CoreDuty, Recovering, Place, StartPrepares, core
  <2> QED
    BY <1>0, <1>1, <2>1, <2>2, <2>3, <2>4, QuietWalk
       DEF Relock, Starting, StartPrepares, HasSnapshot, Recovering, Recovered, Place,
           CoreDuty
<1>2. CASE pc[t] = "readmit"
  <2>1. Walks(t, "install")
    BY <1>0, <1>2 DEF Relock, Walks, Handed
  <2>2. pc'[t] = "install" /\ op'[t] = op[t] /\ prepared'[t] = prepared[t]
    BY <1>0, <2>1, WalkIsLocal DEF IInv
  <2>3. Place(t)'
    BY <1>0, <1>2, <2>2 DEF Relock, Place, HasActivation, HasAdmission, HasSnapshot,
       Starting, StartPrepares, ThreadSteps, locks
  <2>4. CoreDuty(t)'
    BY <1>0, <1>2, <2>2 DEF Relock, CoreDuty, Recovering, Place, StartPrepares, core
  <2> QED
    BY <1>0, <1>2, <2>1, <2>2, <2>3, <2>4, QuietWalk
       DEF Relock, Starting, StartPrepares, HasSnapshot, Recovering, Recovered, Place,
           CoreDuty
<1> QED
  BY <1>1, <1>2 DEF Relock

LEMMA EnterSweepKeeps ==
  ASSUME IInv, NEW t \in Threads, EnterSweep(t)
  PROVE  IInv'
<1>0. /\ t \in All /\ t # Pump /\ t # None /\ t \notin Owners /\ None \notin Owners
      /\ Place(t) /\ Duty(t) /\ CoreDuty(t)
  BY Self
<1>1. pc[t] = "enter"
  BY <1>0 DEF EnterSweep, Place, ThreadSteps
<1>2. Walks(t, "sweep")
  BY <1>0, <1>1 DEF EnterSweep, Walks, Handed, locks
<1>3. pc'[t] = "sweep" /\ op'[t] = op[t] /\ prepared'[t] = prepared[t]
  BY <1>0, <1>2, WalkIsLocal DEF IInv
<1>4. Place(t)'
  BY <1>0, <1>1, <1>3 DEF EnterSweep, Place, HasActivation, HasAdmission, HasSnapshot,
     Starting, StartPrepares, ThreadSteps, locks
<1>5. CoreDuty(t)'
  BY <1>0, <1>1, <1>3 DEF EnterSweep, CoreDuty, Recovering, Place, StartPrepares, core
<1> QED
  BY <1>0, <1>1, <1>2, <1>3, <1>4, <1>5, QuietWalk
     DEF EnterSweep, Starting, StartPrepares, HasSnapshot, Recovering, Recovered, Place,
         CoreDuty

(* In the activation lock a thread is alone with the core.                 *)
LEMMA Alone ==
  ASSUME PlaceInv, NEW t \in Threads, activation \in {None, t}
  PROVE  \A s \in Threads \ {t} :
           /\ s \in All \ {t} /\ s # Pump /\ ~prepared[s] /\ ~StartPrepares(s) /\ ~Recovered(s)
           /\ Recovering(s) => pc[s] = "relock"
           /\ pc[s] \notin {"leave", "persist"}
<1>1. ASSUME NEW s \in Threads \ {t}
      PROVE  /\ s \in All \ {t} /\ s # Pump /\ activation # s /\ Place(s)
             /\ prepared[s] \in BOOLEAN
  BY Names DEF PlaceInv, Place
<1> QED
  BY <1>1 DEF Place, HasActivation, StartPrepares, Recovered, Recovering

LEMMA StepKeeps ==
  ASSUME IInv, NEW t \in All, Local(t), UNCHANGED owner, Place(t)', RunInv', CoreInv',
         AuthorityInv'
  PROVE  IInv'
<1>1. PolicyInv'
  BY PolicyKept DEF IInv, Local, OthersStay
<1>2. PlaceInv'
  BY PlaceKept DEF IInv
<1> QED
  BY <1>1, <1>2 DEF IInv

(* What the others are with respect to the core, after a step of t.        *)
LEMMA OthersCore ==
  ASSUME NEW t \in All, Local(t)
  PROVE  \A s \in Threads \ {t} :
           /\ s \in All /\ pc'[s] = pc[s] /\ prepared'[s] = prepared[s]
           /\ Recovering(s)' <=> Recovering(s)
           /\ Recovered(s)' <=> Recovered(s)
           /\ StartPrepares(s)' <=> StartPrepares(s)
<1>1. \A s \in Threads \ {t} : s \in All \ {t}
  BY Names
<1> QED
  BY <1>1 DEF Local, OthersStay, Recovering, Recovered, StartPrepares

LEMMA ConfigureKeeps ==
  ASSUME IInv, NEW t \in Threads, Configure(t)
  PROVE  IInv'
<1>0. /\ t \in All /\ t # Pump /\ t # None /\ t \notin Owners /\ None \notin Owners
      /\ Place(t) /\ Duty(t) /\ CoreDuty(t)
  BY Self
<1>1. ~prepared[t] /\ ~StartPrepares(t) /\ Starting(t) /\ HasSnapshot(t) /\ activation = t
  BY <1>0 DEF Configure, Place, StartPrepares, Starting, HasSnapshot, HasActivation
<1>2. CASE context \notin {None, decision[t]}
  <2>1. Return(t) /\ UNCHANGED <<owner, durable, core>>
    BY <1>2 DEF Configure
  <2> QED
    BY <1>1, <2>1, QuietReturn
<1>3. CASE context \in {None, decision[t]}
  <2>1. /\ Walks(t, "prepare") /\ context' = decision[t]
        /\ UNCHANGED <<active, closed, stores, deferred, stop, failure, durable, owner>>
    BY <1>3 DEF Configure, Walks, Handed, locks
  <2>2. /\ Local(t) /\ pc'[t] = "prepare" /\ op'[t] = op[t] /\ prepared'[t] = prepared[t]
        /\ cur'[t] = cur[t]
    BY <1>0, <2>1, WalkIsLocal DEF IInv
  <2>3. Place(t)'
    BY <1>0, <1>3, <2>2 DEF Configure, Place, HasActivation, HasAdmission, HasSnapshot,
       Starting, StartPrepares, ThreadSteps, locks
  <2>4. RunInv'
    <3>1. Duty(t)'
      BY <1>0, <1>1, <2>1, <2>2, DutyGoesAlong DEF Starting, StartPrepares, Place
    <3>2. \A s \in All \ {t} : cur'[t] # None /\ cur[s] = cur'[t] => run[cur[s]] # "absent"
      BY <1>0, <2>2, NameKept
    <3> QED
      BY <1>0, <2>1, <2>2, <3>1, <3>2, RunKept DEF IInv, owner, ownerFile
  <2>5. StartPrepares(t)' /\ ~prepared'[t] /\ ~Recovering(t)' /\ ~Recovered(t)'
    BY <1>0, <1>1, <2>2 DEF StartPrepares, Recovering, Recovered, Place
  <2>6. context' # None /\ Formed(context)'
    BY <1>0, <1>1, <2>1 DEF Duty, Formed, BindingFor
  <2>7. \A s \in Threads \ {t} :
          /\ pc'[s] = pc[s] /\ prepared'[s] = prepared[s] /\ ~prepared[s]
          /\ pc[s] \notin {"leave", "persist"} /\ ~StartPrepares(s)'
          /\ Recovering(s)' <=> Recovering(s)
          /\ ~Recovered(s)'
    BY <1>0, <1>1, <2>2, Alone, OthersCore DEF IInv
  <2>8. pc'[Pump] = pc[Pump]
    BY <1>0, <2>2, Names DEF Local, OthersStay
  <2>9. CoreInv'
    <3>1. CoreDuty(t)'
      BY <2>2, <2>5, <2>6 DEF CoreDuty
    <3>2. \A s \in Threads \ {t} : CoreDuty(s)'
      BY <2>1, <2>7 DEF CoreDuty, IInv, CoreInv
    <3> QED
      BY <1>1, <2>1, <2>5, <2>6, <2>7, <2>8, <3>1, <3>2 DEF IInv, CoreInv
  <2>10. AuthorityInv'
    <3>1. ASSUME active
          PROVE  Matches(context)'
      <4>1. CASE context = None
        <5>1. Protected' = {}
          BY <2>1, <3>1, <4>1 DEF IInv, AuthorityInv, Attended, Protected, durable
        <5> QED
          BY <5>1 DEF Matches
      <4>2. CASE context # None
        <5>1. context' = context /\ Matches(context)
          BY <1>3, <2>1, <3>1, <4>2 DEF IInv, AuthorityInv
        <5> QED
          BY <2>1, <5>1 DEF Matches, Protected, durable, BindingFor
      <4> QED
        BY <4>1, <4>2
    <3> QED
      BY <2>1, <2>5, <2>6, <2>7, <3>1 DEF AuthorityInv
  <2> QED
    BY <1>0, <2>1, <2>2, <2>3, <2>4, <2>9, <2>10, StepKeeps
<1> QED
  BY <1>2, <1>3

(***************************************************************************)
(* An activation that is taken back: the core is as if it had never been   *)
(* opened.                                                                 *)
(***************************************************************************)
Unopened ==
  /\ ~stores /\ context = None /\ deferred = None /\ ~stop /\ ~active
  /\ stores \in BOOLEAN /\ stop \in BOOLEAN /\ active \in BOOLEAN /\ failure \in BOOLEAN

LEMMA TakenBack ==
  ASSUME IInv, NEW t \in Threads, Return(t), ~active, ~closed, activation = t,
         Unopened', UNCHANGED <<owner, durable, closed>>
  PROVE  IInv'
<1>0. /\ t \in All /\ t # Pump
  BY Self
<1>1. /\ Local(t) /\ Place(t)' /\ pc'[t] = "free" /\ prepared'[t] = FALSE
      /\ op'[t] = None /\ cur'[t] = None /\ decision'[t] = None
  BY ReturnIsLocal DEF IInv
<1>2. RunInv'
  <2>1. Duty(t)'
    BY <1>1 DEF Duty, Starting, StartPrepares
  <2> QED
    BY <1>0, <1>1, <2>1, RunKept DEF IInv, owner, ownerFile
<1>3. \A s \in Threads \ {t} :
        /\ pc'[s] = pc[s] /\ prepared'[s] = FALSE /\ pc[s] \notin {"leave", "persist"}
        /\ ~StartPrepares(s)' /\ ~Recovered(s)' /\ ~Recovering(s)'
  <2>1. \A s \in Threads : Recovering(s) => active \/ closed
    BY DEF IInv, CoreInv, CoreDuty
  <2>2. \A s \in Threads \ {t} : prepared[s] \in BOOLEAN
    BY Names DEF IInv, PlaceInv, Place
  <2> QED
    BY <1>0, <1>1, <2>1, <2>2, Alone, OthersCore DEF IInv
<1>4. ~Recovering(t)' /\ ~Recovered(t)' /\ ~StartPrepares(t)' /\ CoreDuty(t)'
  BY <1>1 DEF Recovering, Recovered, StartPrepares, CoreDuty
<1>5. pc'[Pump] = "off" /\ pc[Pump] = "off"
  BY <1>0, <1>1, Names DEF Local, OthersStay, IInv, CoreInv
<1>6. CoreInv'
  <2>1. \A s \in Threads \ {t} : CoreDuty(s)'
    BY <1>3 DEF CoreDuty, IInv, CoreInv, Unopened
  <2> QED
    BY <1>4, <1>5, <2>1 DEF IInv, CoreInv, Unopened
<1>7. AuthorityInv'
  BY <1>3, <1>4, <1>5 DEF AuthorityInv, Attended, Unopened
<1> QED
  BY <1>0, <1>1, <1>2, <1>6, <1>7, StepKeeps

LEMMA PrepareKeeps ==
  ASSUME IInv, NEW t \in Threads, Prepare(t)
  PROVE  IInv'
<1>0. /\ t \in All /\ t # Pump /\ t # None /\ t \notin Owners /\ None \notin Owners
      /\ Place(t) /\ Duty(t) /\ CoreDuty(t)
  BY Self
<1>1. /\ pc[t] = "prepare" /\ ~prepared[t] /\ activation = t
      /\ UNCHANGED <<owner, durable>>
  BY <1>0 DEF Prepare, Place, HasActivation
<1>2. CASE active /\ UNCHANGED core
  <2>1. CASE op[t] = "start" /\ Goto(t, "persist") /\ UNCHANGED <<holder, locks, local>>
    <3>1. Walks(t, "persist")
      BY <1>1, <2>1 DEF Walks, Handed, locks
    <3>2. pc'[t] = "persist" /\ op'[t] = op[t] /\ prepared'[t] = prepared[t]
      BY <1>0, <3>1, WalkIsLocal DEF IInv
    <3>3. Place(t)'
      BY <1>0, <1>1, <2>1, <3>2 DEF Place, HasActivation, HasAdmission, HasSnapshot,
         Starting, StartPrepares, ThreadSteps, locks
    <3>4. CoreDuty(t)'
      BY <1>0, <1>1, <1>2, <2>1, <3>2 DEF CoreDuty, Recovering, StartPrepares, core
    <3> QED
      BY <1>0, <1>1, <1>2, <2>1, <3>1, <3>2, <3>3, <3>4, QuietWalk
         DEF Starting, StartPrepares, HasSnapshot, Recovering, Recovered
  <2>2. CASE /\ op[t] = "recover" /\ Goto(t, "relock") /\ activation' = None
             /\ UNCHANGED <<holder, admission, local>>
    <3>1. Walks(t, "relock")
      BY <1>1, <2>2 DEF Walks, Handed
    <3>2. pc'[t] = "relock" /\ op'[t] = op[t] /\ prepared'[t] = prepared[t]
      BY <1>0, <3>1, WalkIsLocal DEF IInv
    <3>3. Place(t)'
      BY <1>0, <1>1, <2>2, <3>2 DEF Place, HasActivation, HasAdmission, HasSnapshot,
         Starting, StartPrepares, ThreadSteps
    <3>4. CoreDuty(t)'
      BY <1>0, <1>1, <1>2, <3>2 DEF CoreDuty, Recovering, StartPrepares, core
    <3> QED
      BY <1>0, <1>1, <1>2, <2>2, <3>1, <3>2, <3>3, <3>4, QuietWalk
         DEF Starting, StartPrepares, HasSnapshot, Recovering, Recovered
  <2>3. CASE op[t] = "command" /\ Return(t)
    BY <1>1, <1>2, <2>3, QuietReturn
  <2> QED
    BY <1>2, <2>1, <2>2, <2>3 DEF Prepare
<1>3. CASE ~active /\ closed /\ Return(t) /\ UNCHANGED core
  BY <1>1, <1>3, QuietReturn
<1>4. CASE /\ ~active /\ ~closed /\ stores' = TRUE /\ prepared' = Put(prepared, t, TRUE)
           /\ Goto(t, IF op[t] = "start" THEN "persist" ELSE "install")
           /\ context # None \/ Protected = {} \/ Reconstructs(snapshot)
           /\ context' = IF context = None /\ Protected # {} THEN snapshot ELSE context
           /\ UNCHANGED <<holder, locks, op, decision, cur, active, closed, deferred,
                          stop, failure>>
  <2>0. Shapes
    BY DEF IInv, PlaceInv
  <2>1. /\ pc'[t] = IF op[t] = "start" THEN "persist" ELSE "install"
        /\ prepared'[t] = TRUE /\ op'[t] = op[t] /\ cur'[t] = cur[t]
        /\ decision'[t] = decision[t]
    BY <1>0, <1>4, <2>0 DEF Shapes, Goto, Put
  <2>2. Local(t)
    BY <1>0, <1>4, <2>0 DEF Shapes, Goto, Put, Local, OthersStay, locks
  <2>3. Place(t)'
    BY <1>0, <1>1, <1>4, <2>1 DEF Place, HasActivation, HasAdmission, HasSnapshot,
       Starting, StartPrepares, ThreadSteps, locks
  <2>4. RunInv'
    <3>1. Starting(t)' <=> Starting(t)
      BY <1>1, <2>1 DEF Starting, StartPrepares
    <3>2. Starting(t) => HasSnapshot(t)
      BY <1>1 DEF Starting, HasSnapshot, StartPrepares
    <3>3. pc'[t] \notin {"commit", "launch"}
      BY <2>1
    <3>4. UNCHANGED <<run, record, snapshot>>
      BY <1>1 DEF owner, ownerFile, durable
    <3>5. /\ Preflight(decision[t], {requirement[cur[t]]})'
               <=> Preflight(decision[t], {requirement[cur[t]]})
          /\ Formed(decision[t])' <=> Formed(decision[t])
      BY <2>1 DEF Preflight, Formed, BindingFor
    <3>6. Duty(t)'
      BY <1>0, <2>1, <3>1, <3>2, <3>3, <3>4, <3>5 DEF Duty
    <3>7. \A s \in All \ {t} : cur'[t] # None /\ cur[s] = cur'[t] => run[cur[s]] # "absent"
      BY <1>0, <2>1, <2>2, NameKept
    <3> QED
      BY <1>0, <1>1, <2>2, <3>4, <3>6, <3>7, RunKept DEF IInv
  <2>5. pc'[Pump] = pc[Pump] /\ pc[Pump] = "off"
    BY <1>0, <1>4, <2>2, Names DEF Local, OthersStay, IInv, CoreInv
  <2>6. \A s \in Threads \ {t} : ~Recovered(s)' /\ ~Recovering(s)' /\ CoreDuty(s)'
    <3>1. \A s \in Threads : Recovering(s) => active \/ closed
      BY DEF IInv, CoreInv, CoreDuty
    <3>2. \A s \in Threads \ {t} :
            /\ pc'[s] = pc[s] /\ prepared'[s] = prepared[s] /\ ~prepared[s]
            /\ ~Recovered(s)' /\ ~Recovering(s)' /\ ~StartPrepares(s)'
            /\ pc[s] \notin {"leave", "persist"}
      BY <1>0, <1>1, <1>4, <2>2, <3>1, Alone, OthersCore DEF IInv
    <3> QED
      BY <1>4, <3>2 DEF CoreDuty, IInv, CoreInv
  <2>7. CoreDuty(t)' /\ ~Recovering(t)' /\ ~Recovered(t)'
    <3>1. op[t] = "start" => context # None
      BY <1>0, <1>1 DEF CoreDuty, StartPrepares
    <3> QED
      BY <1>4, <2>1, <3>1 DEF CoreDuty, Recovering, Recovered, StartPrepares
  <2>8. context' # None => Formed(context)'
    <3>1. CASE context' = context
      BY <3>1 DEF IInv, CoreInv, Formed, BindingFor
    <3>2. CASE context' = snapshot
      BY <3>2 DEF IInv, PolicyInv, Formed, BindingFor
    <3> QED
      BY <1>4, <3>1, <3>2
  <2>9. CoreInv'
    BY <1>4, <2>1, <2>5, <2>6, <2>7, <2>8 DEF IInv, CoreInv
  <2>10. AuthorityInv'
    BY <1>4, <2>5, <2>6, <2>7 DEF AuthorityInv, Attended
  <2> QED
    BY <1>0, <1>1, <2>2, <2>3, <2>4, <2>9, <2>10, StepKeeps
<1>5. CASE ~active /\ ~closed /\ Rollback /\ Return(t)
  BY <1>1, <1>5, TakenBack DEF Rollback, Unopened, IInv, CoreInv
<1> QED
  BY <1>2, <1>3, <1>4, <1>5 DEF Prepare

LEMMA PersistKeeps ==
  ASSUME IInv, NEW t \in Threads, Persist(t)
  PROVE  IInv'
<1>0. /\ t \in All /\ t # Pump /\ t # None /\ t \notin Owners /\ None \notin Owners
      /\ Place(t) /\ Duty(t) /\ CoreDuty(t)
  BY Self
<1>1. /\ pc[t] = "persist" /\ activation = t /\ admission = t /\ holder = t /\ Starting(t)
      /\ op[t] = "start" /\ UNCHANGED <<owner, record>>
  BY <1>0 DEF Persist, Place, HasActivation, HasAdmission, HasSnapshot, Starting
<1>2. /\ cur[t] \in Runs /\ run[cur[t]] = "absent" /\ context # None
      /\ prepared[t] \/ active
  BY <1>0, <1>1 DEF Duty, CoreDuty
<1>3. CASE /\ run' = Put(run, cur[t], "parked")
           /\ holder' = (IF holder = t THEN None ELSE holder) /\ admission' = None
           /\ IF prepared[t]
              THEN Goto(t, "install") /\ deferred' = cur[t]
              ELSE Goto(t, "leave") /\ UNCHANGED deferred
           /\ UNCHANGED <<activation, local, active, closed, stores, context, stop, failure>>
  <2> DEFINE r == cur[t]
  <2>0. Shapes
    BY DEF IInv, PlaceInv
  <2>1. /\ pc'[t] = IF prepared[t] THEN "install" ELSE "leave"
        /\ UNCHANGED <<op, decision, prepared, cur>>
    BY <1>0, <1>3, <2>0 DEF Shapes, Goto, Put, local
  <2>2. Local(t)
    <3>1. \E step : pc' = [pc EXCEPT ![t] = step]
      BY <1>3 DEF Goto, Put
    <3>2. holder' = None /\ admission' = None /\ activation' = activation
      BY <1>1, <1>3
    <3> QED
      BY <1>0, <1>1, <2>0, <2>1, <3>1, <3>2, Names DEF Shapes, Local, OthersStay
  <2>3. Place(t)'
    BY <1>0, <1>1, <1>3, <2>1 DEF Place, HasActivation, HasAdmission, HasSnapshot,
       Starting, StartPrepares, ThreadSteps
  <2>4. /\ run'[r] = "parked" /\ \A q \in Runs \ {r} : run'[q] = run[q]
        /\ run' \in [Runs -> {"absent", "parked", "prepared", "launched", "done"}]
    BY <1>2, <1>3 DEF Put, IInv, RunInv
  <2>5. RunInv'
    <3>0. RunInv /\ UNCHANGED <<record, snapshot>>
      BY <1>1 DEF IInv, owner, ownerFile
    <3>1. \A q \in Runs : record'[q] = None <=> run'[q] \in {"absent", "parked"}
      BY <1>2, <2>4, <3>0 DEF RunInv
    <3>2. Duty(t)'
      BY <1>0, <1>2, <2>1, <2>4 DEF Duty, Starting, StartPrepares
    <3>3. ASSUME NEW s \in All \ {t}
          PROVE  Duty(s)'
      <4>1. Duty(s) /\ (cur[s] = r => run[r] # "absent")
        BY <1>0, <1>2, <3>0, Names DEF RunInv
      <4>2. cur[s] # r
        BY <1>2, <4>1
      <4>3. /\ pc'[s] = pc[s] /\ cur'[s] = cur[s] /\ decision'[s] = decision[s]
            /\ Starting(s)' <=> Starting(s)
            /\ HasSnapshot(s)' <=> HasSnapshot(s)
        BY <2>2 DEF Local, OthersStay, Starting, StartPrepares, HasSnapshot
      <4>4. /\ Preflight(decision[s], {requirement[cur[s]]})'
                 <=> Preflight(decision[s], {requirement[cur[s]]})
            /\ Formed(decision[s])' <=> Formed(decision[s])
            /\ Quotes(snapshot, cur[s])' <=> Quotes(snapshot, cur[s])
        BY <3>0, <4>3 DEF Preflight, Formed, Quotes, BindingFor
      <4>5. cur[s] # None => run'[cur[s]] = run[cur[s]]
        BY <2>4, <4>1, <4>2 DEF Duty
      <4> QED
        BY <3>0, <4>1, <4>3, <4>4, <4>5 DEF Duty
    <3>4. \A s, u \in All : s # u /\ cur'[s] = cur'[u] /\ cur'[s] # None
                              => run'[cur'[s]] # "absent"
      <4>1. \A s \in All : cur[s] \in {None} \cup Runs
        BY <3>0 DEF RunInv, Duty
      <4> QED
        BY <2>1, <2>4, <3>0, <4>1 DEF RunInv
    <3>5. record' = [q \in Runs |-> record'[q]]
      BY <3>0 DEF RunInv
    <3>6. \A s \in All : Duty(s)'
      BY <3>2, <3>3
    <3> QED
      BY <2>4, <3>1, <3>4, <3>5, <3>6 DEF RunInv
  <2>6. pc'[Pump] = pc[Pump]
    BY <1>0, <2>2, Names DEF Local, OthersStay
  <2>7. Formed(context)' <=> Formed(context)
    BY <1>3 DEF Formed, BindingFor
  <2>8. CoreDuty(t)' /\ ~Recovering(t)' /\ ~Recovered(t)' /\ ~StartPrepares(t)'
        /\ ~StartPrepares(t)
    BY <1>0, <1>1, <1>2, <1>3, <2>1 DEF CoreDuty, Recovering, Recovered, StartPrepares
  <2>9. \A s \in Threads \ {t} :
          /\ prepared'[s] = prepared[s] /\ CoreDuty(s)'
          /\ Recovering(s)' <=> Recovering(s)
          /\ Recovered(s)' <=> Recovered(s)
          /\ StartPrepares(s)' <=> StartPrepares(s)
    BY <1>0, <1>3, <2>2, OthersCore DEF IInv, CoreInv, CoreDuty
  <2>10. CoreInv'
    <3>1. CASE prepared[t]
      <4>1. prepared'[t] /\ ~active /\ ~closed
        BY <1>0, <2>1, <3>1 DEF CoreDuty
      <4>2. deferred' = cur[t] /\ UNCHANGED <<active, closed, stores, context, stop, failure>>
        BY <1>3, <3>1
      <4> QED
        BY <1>2, <2>6, <2>7, <2>8, <2>9, <4>1, <4>2 DEF IInv, CoreInv
    <3>2. CASE ~prepared[t]
      <4>1. ~prepared'[t] /\ active
        BY <1>2, <2>1, <3>2
      <4>2. UNCHANGED <<deferred, active, closed, stores, context, stop, failure>>
        BY <1>3, <3>2
      <4> QED
        BY <2>6, <2>7, <2>8, <2>9, <3>2, <4>1, <4>2 DEF IInv, CoreInv
    <3> QED
      BY <3>1, <3>2
  <2>11. AuthorityInv'
    <3>1. context' = context /\ active' = active /\ record' = record
      BY <1>1, <1>3
    <3>2. (active \/ \E s \in Threads : Recovered(s)') => Matches(context)
      BY <1>2, <2>8, <2>9 DEF IInv, AuthorityInv
    <3>3. record[r] = None
      BY <1>2 DEF IInv, RunInv
    <3>4. Protected' \subseteq Protected \cup {r}
      BY <2>4 DEF Protected
    <3>5. Matches(context) => Matches(context)'
      BY <3>1, <3>3, <3>4 DEF Matches, BindingFor
    <3> QED
      BY <1>2, <3>1, <3>2, <3>5 DEF AuthorityInv
  <2> QED
    BY <1>0, <1>1, <2>2, <2>3, <2>5, <2>10, <2>11, StepKeeps
<1>4. CASE /\ Return(t) /\ UNCHANGED run
           /\ IF prepared[t] THEN Rollback ELSE UNCHANGED core
  <2>1. CASE prepared[t]
    <3>1. ~active /\ ~closed
      BY <1>0, <2>1 DEF CoreDuty
    <3> QED
      BY <1>1, <1>4, <2>1, <3>1, TakenBack DEF Rollback, Unopened, durable
  <2>2. CASE ~prepared[t]
    BY <1>1, <1>4, <2>2, QuietReturn DEF StartPrepares, durable
  <2> QED
    BY <2>1, <2>2
<1> QED
  BY <1>3, <1>4 DEF Persist

LEMMA CloseKeeps ==
  ASSUME IInv, NEW t \in Threads, Close(t)
  PROVE  IInv'
<1>0. /\ t \in All /\ t # Pump /\ t # None /\ t \notin Owners /\ None \notin Owners
      /\ Place(t) /\ Duty(t) /\ CoreDuty(t)
  BY Self
<1>1. /\ pc[t] = "close" /\ activation = None /\ ~prepared[t] /\ ~StartPrepares(t)
      /\ UNCHANGED <<owner, durable, stores, context, deferred, failure>>
      /\ prepared[t] \in BOOLEAN /\ ~Recovering(t)
  BY <1>0 DEF Close, Place, StartPrepares, Recovering
<1>2. closed' = TRUE /\ ~active' /\ active' \in BOOLEAN /\ stop' \in BOOLEAN
      /\ (pc[Pump] # "off" => stop')
  <2>1. CASE closed \/ ~active
    BY <2>1 DEF Close, IInv, CoreInv
  <2>2. CASE ~closed /\ active
    BY <2>2 DEF Close
  <2> QED
    BY <2>1, <2>2
<1>3. /\ Local(t) /\ Place(t)' /\ Duty(t)' /\ pc'[t] \in {"free", "join"} /\ ~prepared'[t]
      /\ cur'[t] \in {None, cur[t]}
  <2>1. CASE Return(t)
    <3>1. /\ Local(t) /\ Place(t)' /\ pc'[t] = "free" /\ prepared'[t] = FALSE
          /\ op'[t] = None /\ cur'[t] = None /\ decision'[t] = None
      BY <2>1, ReturnIsLocal DEF IInv
    <3> QED
      BY <3>1 DEF Duty, Starting, StartPrepares
  <2>2. CASE Goto(t, "join") /\ UNCHANGED <<holder, locks, local>>
    <3>1. Walks(t, "join")
      BY <1>1, <2>2 DEF Walks, Handed, locks
    <3>2. /\ Local(t) /\ pc'[t] = "join" /\ op'[t] = op[t] /\ prepared'[t] = prepared[t]
          /\ cur'[t] = cur[t]
      BY <1>0, <3>1, WalkIsLocal DEF IInv
    <3>3. Place(t)'
      BY <1>0, <1>1, <2>2, <3>2 DEF Place, HasActivation, HasAdmission, HasSnapshot,
         Starting, StartPrepares, ThreadSteps, locks
    <3>4. Duty(t)'
      BY <1>0, <1>1, <3>1, <3>2, DutyGoesAlong DEF Starting, StartPrepares
    <3> QED
      BY <1>1, <3>2, <3>3, <3>4
  <2> QED
    BY <2>1, <2>2 DEF Close
<1>4. RunInv'
  <2>1. \A s \in All \ {t} : cur'[t] # None /\ cur[s] = cur'[t] => run[cur[s]] # "absent"
    BY <1>0, <1>3 DEF IInv, RunInv
  <2> QED
    BY <1>0, <1>1, <1>3, <2>1, RunKept DEF IInv, owner, ownerFile
<1>5. pc'[Pump] = pc[Pump]
  BY <1>0, <1>3, Names DEF Local, OthersStay
<1>6. Formed(context)' <=> Formed(context)
  BY <1>1 DEF Formed, BindingFor
<1>7. \A s \in Threads \ {t} :
        /\ ~prepared'[s] /\ pc[s] \notin {"leave", "persist"} /\ ~StartPrepares(s)'
        /\ pc'[s] = pc[s] /\ ~Recovered(s)'
        /\ Recovering(s)' <=> Recovering(s)
  BY <1>0, <1>1, <1>3, Alone, OthersCore DEF IInv
<1>8. ~Recovering(t)' /\ ~Recovered(t)' /\ ~StartPrepares(t)'
  BY <1>3 DEF Recovering, Recovered, StartPrepares
<1>9. CoreInv'
  <2>1. \A s \in Threads : CoreDuty(s)'
    BY <1>2, <1>3, <1>7, <1>8 DEF CoreDuty
  <2>2. deferred' = None
    BY <1>1, Alone DEF IInv, CoreInv
  <2> QED
    BY <1>1, <1>2, <1>5, <1>6, <2>1, <2>2 DEF IInv, CoreInv
<1>10. AuthorityInv'
  <2>1. Attended' => Attended
    BY <1>2, <1>5, <1>7, <1>8 DEF Attended
  <2>2. Protected' = Protected
    BY <1>1 DEF Protected, durable
  <2> QED
    BY <1>1, <1>2, <1>7, <1>8, <2>1, <2>2 DEF IInv, AuthorityInv
<1> QED
  BY <1>0, <1>1, <1>3, <1>4, <1>9, <1>10, StepKeeps

LEMMA JoinKeeps ==
  ASSUME IInv, NEW t \in Threads, Join(t)
  PROVE  IInv'
<1>0. /\ t \in All /\ t # Pump /\ t # None /\ t \notin Owners /\ None \notin Owners
      /\ Place(t) /\ Duty(t) /\ CoreDuty(t)
  BY Self
<1>1. /\ pc[t] = "join" /\ ~prepared[t] /\ closed /\ ~active /\ ~Recovering(t) /\ ~Recovered(t)
      /\ prepared[t] \in BOOLEAN /\ ~StartPrepares(t)
      /\ UNCHANGED <<owner, durable, active, closed, context, deferred, stop, failure>>
      /\ stores' = FALSE
  BY <1>0 DEF Join, Place, CoreDuty, Recovering, Recovered, StartPrepares, IInv, CoreInv
<1>2. /\ Local(t) /\ Place(t)' /\ pc'[t] = "free" /\ prepared'[t] = FALSE
      /\ op'[t] = None /\ cur'[t] = None /\ decision'[t] = None
  BY ReturnIsLocal DEF IInv, Join
<1>3. RunInv'
  <2>1. Duty(t)'
    BY <1>2 DEF Duty, Starting, StartPrepares
  <2> QED
    BY <1>0, <1>1, <1>2, <2>1, RunKept DEF IInv, owner, ownerFile
<1>4. pc'[Pump] = pc[Pump]
  BY <1>0, <1>2, Names DEF Local, OthersStay
<1>5. Formed(context)' <=> Formed(context)
  BY <1>1 DEF Formed, BindingFor
<1>6. \A s \in Threads \ {t} :
        /\ ~prepared[s] /\ ~prepared'[s] /\ pc'[s] = pc[s]
        /\ Recovered(s)' <=> Recovered(s)
        /\ Recovering(s)' <=> Recovering(s)
        /\ StartPrepares(s)' <=> StartPrepares(s)
  BY <1>0, <1>1, <1>2, OthersCore DEF IInv, CoreInv, CoreDuty
<1>7. ~Recovering(t)' /\ ~Recovered(t)' /\ ~StartPrepares(t)' /\ CoreDuty(t)'
  BY <1>2 DEF Recovering, Recovered, StartPrepares, CoreDuty
<1>8. CoreInv'
  <2>1. \A s \in Threads \ {t} : CoreDuty(s)'
    BY <1>1, <1>6 DEF CoreDuty, IInv, CoreInv
  <2> QED
    BY <1>1, <1>2, <1>4, <1>5, <1>6, <1>7, <2>1 DEF IInv, CoreInv
<1>9. AuthorityInv'
  <2>1. Attended' => Attended
    BY <1>1, <1>4, <1>6, <1>7 DEF Attended
  <2>2. Protected' = Protected
    BY <1>1 DEF Protected, durable
  <2>3. \A s \in Threads : Recovered(s)' => Recovered(s)
    BY <1>6, <1>7
  <2>4. Matches(context)' <=> Matches(context)
    BY <1>1, <2>2 DEF Matches, BindingFor, durable
  <2> QED
    BY <1>1, <2>1, <2>2, <2>3, <2>4 DEF IInv, AuthorityInv
<1> QED
  BY <1>0, <1>1, <1>2, <1>3, <1>8, <1>9, StepKeeps

-----------------------------------------------------------------------------
(* The steps of a recovery, by a command or by the pump *)

(* What the pump knows of itself before a step. *)
LEMMA PumpSelf ==
  ASSUME IInv
  PROVE  /\ Pump \in All /\ Pump \notin Threads /\ Pump # None /\ Pump \notin Owners
         /\ All \ {Pump} = Threads
         /\ Place(Pump) /\ Duty(Pump) /\ ~prepared[Pump] /\ ~Starting(Pump)
         /\ (pc[Pump] # "off" => active \/ closed)
<1>1. /\ Pump \in All /\ Pump \notin Threads /\ Pump # None /\ Pump \notin Owners
      /\ Place(Pump) /\ Duty(Pump) /\ All \ {Pump} = Threads
  BY Names DEF IInv, PlaceInv, RunInv, All
<1>2. ~prepared[Pump] /\ ~Starting(Pump)
  BY <1>1 DEF Place, Starting, StartPrepares, PumpSteps
<1> QED
  BY <1>1, <1>2 DEF IInv, CoreInv

LEMMA QuietPumpWalk ==
  ASSUME IInv, NEW step \in PumpSteps \ {"off", "commit", "launch"}, Walks(Pump, step),
         UNCHANGED core, Place(Pump)', pc[Pump] # "off"
  PROVE  IInv'
<1>0. /\ Pump \in All /\ All \ {Pump} = Threads /\ ~Starting(Pump)
  BY PumpSelf
<1>1. /\ Local(Pump) /\ pc'[Pump] = step /\ op'[Pump] = op[Pump]
      /\ prepared'[Pump] = prepared[Pump] /\ cur'[Pump] = cur[Pump]
  BY <1>0, WalkIsLocal DEF IInv
<1>2. ~Starting(Pump)'
  BY <1>1 DEF Starting, StartPrepares, PumpSteps
<1>3. Duty(Pump)'
  BY <1>0, <1>2, DutyGoesAlong
<1>4. \A s \in Threads : cur'[Pump] # None /\ cur[s] = cur'[Pump] => run[cur[s]] # "absent"
  BY <1>0, <1>1, NameKept
<1> QED
  BY <1>1, <1>3, <1>4, QuietPump DEF Walks, PumpSteps

(* The pump is over, told to stop or by a failure. *)
LEMMA PumpStops ==
  ASSUME IInv, Local(Pump), pc[Pump] # "off", pc'[Pump] = "off", Place(Pump)',
         cur'[Pump] = cur[Pump], failure' \in BOOLEAN, active => failure',
         UNCHANGED <<owner, durable, active, closed, stores, context, deferred, stop>>
  PROVE  IInv'
<1>0. /\ Pump \in All /\ Pump \notin Threads /\ All \ {Pump} = Threads
      /\ Duty(Pump) /\ ~Starting(Pump) /\ (active \/ closed)
  BY PumpSelf
<1>1. Duty(Pump)'
  <2>1. ~Starting(Pump)' /\ UNCHANGED run
    BY DEF Starting, StartPrepares, durable
  <2> QED
    BY <1>0, <2>1 DEF Duty
<1>2. RunInv'
  <2>1. \A s \in All \ {Pump} :
          cur'[Pump] # None /\ cur[s] = cur'[Pump] => run[cur[s]] # "absent"
    BY <1>0, NameKept
  <2> QED
    BY <1>0, <1>1, <2>1, RunKept DEF IInv, owner, ownerFile
<1>3. \A s \in Threads :
        /\ pc'[s] = pc[s] /\ prepared'[s] = prepared[s]
        /\ Recovering(s)' <=> Recovering(s)
        /\ Recovered(s)' <=> Recovered(s)
        /\ StartPrepares(s)' <=> StartPrepares(s)
  BY <1>0, OthersCore
<1>4. Formed(context)' <=> Formed(context)
  BY DEF Formed, BindingFor
<1>5. CoreInv'
  <2>1. \A s \in Threads : CoreDuty(s)'
    BY <1>3 DEF CoreDuty, IInv, CoreInv
  <2> QED
    BY <1>0, <1>3, <1>4, <2>1 DEF IInv, CoreInv
<1>6. AuthorityInv'
  <2>1. Attended' => Attended
    BY <1>3 DEF Attended
  <2>2. Protected' = Protected
    BY DEF Protected, durable
  <2>3. Matches(context)' <=> Matches(context)
    BY <2>2 DEF Matches, BindingFor, durable
  <2> QED
    BY <1>3, <2>1, <2>2, <2>3 DEF IInv, AuthorityInv
<1> QED
  BY <1>0, <1>2, <1>5, <1>6, StepKeeps

LEMMA RaiseKeeps ==
  ASSUME IInv, NEW t \in All, Raise(t), pc[t] \in {"install", "sweep", "drive"},
         UNCHANGED <<owner, durable>>
  PROVE  IInv'
<1>1. CASE t = Pump
  <2>0. /\ Pump \in All /\ Pump # None /\ Pump \notin Owners /\ None \notin Owners
        /\ Place(Pump) /\ None \notin All
    BY PumpSelf, Names
  <2>1. /\ pc' = [pc EXCEPT ![Pump] = "off"] /\ failure' = TRUE
        /\ activation' = (IF activation = Pump THEN None ELSE activation)
        /\ admission' = (IF admission = Pump THEN None ELSE admission)
        /\ holder' = (IF holder = Pump THEN None ELSE holder)
        /\ UNCHANGED <<local, active, closed, stores, context, deferred, stop>>
    BY <1>1 DEF Raise, Goto, Put
  <2>2. Shapes
    BY DEF IInv, PlaceInv
  <2>3. Local(Pump) /\ pc'[Pump] = "off" /\ cur'[Pump] = cur[Pump]
    BY <2>0, <2>1, <2>2 DEF Shapes, Local, OthersStay, local
  <2>4. Place(Pump)'
    BY <2>0, <2>1, <2>3 DEF Place, HasActivation, HasAdmission, HasSnapshot, Starting,
       StartPrepares, PumpSteps, local
  <2> QED
    BY <1>1, <2>1, <2>3, <2>4, PumpStops
<1>2. CASE t # Pump
  <2>0. t \in Threads
    BY <1>2 DEF All
  <2>1. /\ Place(t) /\ CoreDuty(t) /\ t # Pump
    BY <2>0, Self
  <2>2. /\ pc[t] \in {"install", "sweep"} /\ activation = t
    BY <2>1 DEF Place, ThreadSteps, HasActivation
  <2>3. CASE prepared[t]
    <3>1. ~active /\ ~closed
      BY <2>1, <2>3 DEF CoreDuty
    <3>2. Return(t) /\ Unopened' /\ UNCHANGED closed
      BY <1>2, <2>3 DEF Raise, Unopened
    <3> QED
      BY <2>0, <2>2, <3>1, <3>2, TakenBack
  <2>4. CASE ~prepared[t]
    <3>1. Return(t) /\ UNCHANGED core
      BY <1>2, <2>4 DEF Raise
    <3> QED
      BY <2>0, <2>2, <2>4, <3>1, QuietReturn DEF StartPrepares
  <2> QED
    BY <2>3, <2>4
<1> QED
  BY <1>1, <1>2

LEMMA InstallKeeps ==
  ASSUME IInv, NEW t \in All, Install(t)
  PROVE  IInv'
<1>1. CASE Raise(t)
  BY <1>1, RaiseKeeps DEF Install
<1>2. CASE /\ Protected # {} => Reconstructs(snapshot) /\ context \in {None, snapshot}
           /\ context' = (IF Protected = {} THEN context ELSE snapshot)
           /\ Goto(t, IF admission = t THEN "sweep" ELSE "enter")
           /\ UNCHANGED <<holder, locks, local, active, closed, stores, deferred, stop,
                          failure>>
  <2> DEFINE step == IF admission = t THEN "sweep" ELSE "enter"
  <2>0. /\ Place(t) /\ Duty(t) /\ pc[t] = "install" /\ UNCHANGED <<owner, durable>>
    BY DEF Install, IInv, PlaceInv, RunInv
  <2>1. Walks(t, step)
    BY <1>2, <2>0 DEF Walks, Handed, locks
  <2> HIDE DEF step
  <2>2. /\ Local(t) /\ pc'[t] = step /\ op'[t] = op[t] /\ prepared'[t] = prepared[t]
        /\ cur'[t] = cur[t]
    BY <2>1, WalkIsLocal DEF IInv
  <2>3. /\ ~Starting(t) /\ ~Starting(t)' /\ pc'[t] \in {"sweep", "enter"}
        /\ admission = t <=> (t # Pump /\ ~prepared[t])
    BY <2>0, <2>2 DEF Starting, StartPrepares, step, Place, HasAdmission
  <2>4. Place(t)'
    BY <1>2, <2>0, <2>2, <2>3 DEF Place, HasActivation, HasAdmission, HasSnapshot, Starting,
       StartPrepares, ThreadSteps, PumpSteps, locks, step
  <2>5. RunInv'
    <3>1. Duty(t)'
      BY <2>1, <2>3, DutyGoesAlong DEF step
    <3>2. \A s \in All \ {t} : cur'[t] # None /\ cur[s] = cur'[t] => run[cur[s]] # "absent"
      BY <2>2, NameKept
    <3> QED
      BY <2>0, <2>2, <3>1, <3>2, RunKept DEF IInv, owner, ownerFile
  <2>6. /\ context' # None => Formed(context)'
        /\ context # None => context' # None
        /\ context' = None => Protected = {}
    <3>1. Protected # {} => snapshot # None
      BY <1>2 DEF Reconstructs
    <3>2. context' # None => Formed(context')
      BY <1>2, <3>1 DEF IInv, CoreInv, PolicyInv
    <3> QED
      BY <1>2, <3>1, <3>2 DEF Formed, BindingFor
  <2>7. \A s \in Threads \ {t} :
          /\ s \in All /\ pc'[s] = pc[s] /\ prepared'[s] = prepared[s]
          /\ Recovering(s)' <=> Recovering(s)
          /\ Recovered(s)' <=> Recovered(s)
          /\ StartPrepares(s)' <=> StartPrepares(s)
    BY <2>2, OthersCore
  <2>8. \A s \in Threads \ {t} : CoreDuty(s)'
    BY <1>2, <2>6, <2>7 DEF CoreDuty, IInv, CoreInv
  <2>9. CoreInv'
    <3>1. CASE t = Pump
      <4>1. pc'[Pump] # "off" /\ pc[Pump] # "off" /\ (active \/ closed) /\ t \notin Threads
        BY <2>0, <2>3, <3>1, PumpSelf
      <4>2. \A s \in Threads :
              /\ CoreDuty(s)' /\ prepared'[s] = prepared[s]
              /\ StartPrepares(s)' <=> StartPrepares(s)
        BY <2>7, <2>8, <3>1, <4>1
      <4> QED
        BY <1>2, <2>6, <4>1, <4>2 DEF IInv, CoreInv
    <3>2. CASE t # Pump
      <4>0. t \in Threads
        BY <3>2 DEF All
      <4>1. pc'[Pump] = pc[Pump]
        BY <2>2, <3>2, Names DEF Local, OthersStay
      <4>2. CoreDuty(t)' /\ prepared'[t] = prepared[t] /\ ~StartPrepares(t)'
            /\ (prepared[t] \/ active \/ closed)
        BY <1>2, <2>0, <2>2, <2>3, <4>0 DEF CoreDuty, Recovering, StartPrepares, IInv, CoreInv,
           Place
      <4> QED
        BY <1>2, <2>6, <2>7, <2>8, <4>0, <4>1, <4>2 DEF IInv, CoreInv
    <3> QED
      BY <3>1, <3>2
  <2>10. AuthorityInv'
    <3>1. Protected' = Protected
      BY <2>0 DEF Protected, durable
    <3>2. Matches(context)'
      <4>1. CASE Protected = {}
        BY <3>1, <4>1 DEF Matches
      <4>2. CASE Protected # {}
        BY <1>2, <2>0, <3>1, <4>2 DEF Matches, Reconstructs, durable, BindingFor
      <4> QED
        BY <4>1, <4>2
    <3> QED
      BY <2>6, <3>1, <3>2 DEF AuthorityInv
  <2> QED
    BY <2>0, <2>2, <2>4, <2>5, <2>9, <2>10, StepKeeps
<1> QED
  BY <1>1, <1>2 DEF Install

(* The admission lock of the pump. *)
LEMMA PumpEntersKeeps ==
  ASSUME IInv, EnterSweep(Pump)
  PROVE  IInv'
<1>0. /\ Pump \in All /\ Pump # None /\ Pump \notin Owners /\ Place(Pump)
  BY PumpSelf
<1> DEFINE step == IF pc[Pump] = "enter" THEN "sweep" ELSE "drive"
<1>1. Walks(Pump, step)
  BY <1>0 DEF EnterSweep, Walks, Handed, locks
<1>2. /\ step \in PumpSteps \ {"off", "commit", "launch"} /\ pc[Pump] # "off"
      /\ step \in {"sweep", "drive"}
  BY DEF EnterSweep, PumpSteps
<1> HIDE DEF step
<1>3. pc'[Pump] = step /\ op'[Pump] = op[Pump] /\ prepared'[Pump] = prepared[Pump]
  BY <1>0, <1>1, WalkIsLocal DEF IInv
<1>4. Place(Pump)'
  BY <1>0, <1>2, <1>3 DEF EnterSweep, Place, HasActivation, HasAdmission, HasSnapshot,
     Starting, StartPrepares, PumpSteps, locks
<1> QED
  BY <1>1, <1>2, <1>4, QuietPumpWalk DEF EnterSweep

LEMMA WakeKeeps ==
  ASSUME IInv, Wake
  PROVE  IInv'
<1>0. /\ Pump \in All /\ Pump # None /\ Pump \notin Owners /\ Place(Pump)
      /\ pc[Pump] = "idle"
  BY PumpSelf DEF Wake
<1>1. CASE ~stop
  <2>1. Walks(Pump, "drain")
    BY <1>1 DEF Wake, Walks, Handed, locks
  <2>2. pc'[Pump] = "drain" /\ op'[Pump] = op[Pump] /\ prepared'[Pump] = prepared[Pump]
    BY <1>0, <2>1, WalkIsLocal DEF IInv
  <2>3. Place(Pump)'
    BY <1>0, <2>2 DEF Wake, Place, HasActivation, HasAdmission, HasSnapshot,
       Starting, StartPrepares, PumpSteps, locks
  <2> QED
    BY <1>0, <2>1, <2>3, QuietPumpWalk DEF Wake, PumpSteps
<1>2. CASE stop
  <2>1. Walks(Pump, "off")
    BY <1>2 DEF Wake, Walks, Handed, locks
  <2>2. /\ Local(Pump) /\ pc'[Pump] = "off" /\ op'[Pump] = op[Pump]
        /\ prepared'[Pump] = prepared[Pump] /\ cur'[Pump] = cur[Pump]
    BY <1>0, <2>1, WalkIsLocal DEF IInv
  <2>3. Place(Pump)'
    BY <1>0, <2>2 DEF Wake, Place, HasActivation, HasAdmission, HasSnapshot,
       Starting, StartPrepares, PumpSteps, locks
  <2>4. ~active /\ failure \in BOOLEAN
    BY <1>2 DEF IInv, CoreInv
  <2> QED
    BY <1>0, <2>2, <2>3, <2>4, PumpStops DEF Wake, core
<1> QED
  BY <1>1, <1>2

(***************************************************************************)
(* A step of the coordinator moves one run and no thread.                  *)
(***************************************************************************)
LEMMA OtherDuties ==
  ASSUME RunInv, NEW r \in Runs, NEW t \in All, Local(t), UNCHANGED snapshot,
         run[r] # "absent", run[r] # "prepared" \/ \A s \in All \ {t} : cur[s] # r \/
           pc[s] \notin {"commit", "launch"},
         \A q \in Runs \ {r} : run'[q] = run[q] /\ record'[q] = record[q],
         run'[r] # "absent"
  PROVE  \A s \in All \ {t} : Duty(s)'
<1>1. ASSUME NEW s \in All \ {t}
      PROVE  Duty(s)'
  <2>1. Duty(s)
    BY DEF RunInv
  <2>2. /\ pc'[s] = pc[s] /\ cur'[s] = cur[s] /\ decision'[s] = decision[s]
        /\ Starting(s)' <=> Starting(s)
        /\ HasSnapshot(s)' <=> HasSnapshot(s)
    BY DEF Local, OthersStay, Starting, StartPrepares, HasSnapshot
  <2>3. /\ Preflight(decision[s], {requirement[cur[s]]})'
             <=> Preflight(decision[s], {requirement[cur[s]]})
        /\ Formed(decision[s])' <=> Formed(decision[s])
    BY <2>2 DEF Preflight, Formed, BindingFor
  <2>4. CASE cur[s] = r
    <3>1. ~Starting(s) /\ pc[s] \notin {"commit", "launch"}
      BY <2>1, <2>4 DEF Duty
    <3> QED
      BY <2>1, <2>2, <2>4, <3>1 DEF Duty
  <2>5. CASE cur[s] # r
    <3>1. cur[s] # None => run'[cur[s]] = run[cur[s]] /\ record'[cur[s]] = record[cur[s]]
      BY <2>1, <2>5 DEF Duty
    <3>2. pc[s] \in {"commit", "launch"} => Quotes(snapshot, cur[s])'
      BY <2>1, <2>2, <3>1 DEF Duty, Quotes, Preflight, BindingFor
    <3> QED
      BY <2>1, <2>2, <2>3, <3>1, <3>2 DEF Duty
  <2> QED
    BY <2>4, <2>5
<1> QED
  BY <1>1

(* The core does not see how far a run is, its protected work apart. *)
LEMMA CoreOfRun ==
  ASSUME IInv, NEW t \in All, Local(t), UNCHANGED core, prepared'[t] = prepared[t],
         pc[t] \in {"sweep", "drive", "commit", "launch"},
         pc'[t] = pc[t] \/ <<pc[t], pc'[t]>> \in {<<"commit", "sweep">>, <<"launch", "drive">>},
         Protected' \subseteq Protected,
         context # None /\ Matches(context) => Matches(context)'
  PROVE  CoreInv' /\ AuthorityInv'
<1>0. t # Pump => t \in Threads /\ pc[t] \in {"sweep", "commit"}
  BY DEF All, IInv, PlaceInv, Place, ThreadSteps
<1>1. \A s \in Threads :
        /\ prepared'[s] = prepared[s]
        /\ Recovering(s)' <=> Recovering(s)
        /\ Recovered(s)' <=> Recovered(s)
        /\ StartPrepares(s)' <=> StartPrepares(s)
        /\ CoreDuty(s)'
  <2>1. ASSUME NEW s \in Threads, s # t
        PROVE  /\ prepared'[s] = prepared[s]
               /\ Recovering(s)' <=> Recovering(s)
               /\ Recovered(s)' <=> Recovered(s)
               /\ StartPrepares(s)' <=> StartPrepares(s)
               /\ CoreDuty(s)'
    BY <2>1, OthersCore DEF CoreDuty, IInv, CoreInv, core
  <2>2. ASSUME t \in Threads
        PROVE  /\ prepared'[t] = prepared[t]
               /\ Recovering(t)' <=> Recovering(t)
               /\ Recovered(t)' <=> Recovered(t)
               /\ StartPrepares(t)' <=> StartPrepares(t)
               /\ CoreDuty(t)'
    BY <1>0, <2>2, Names DEF CoreDuty, IInv, CoreInv, core, Recovering, Recovered, StartPrepares
  <2> QED
    BY <2>1, <2>2
<1>2. (pc'[Pump] = "off") <=> (pc[Pump] = "off")
  BY Names DEF Local, OthersStay
<1>3. Formed(context)' <=> Formed(context)
  BY DEF core, Formed, BindingFor
<1>4. CoreInv'
  BY <1>1, <1>2, <1>3 DEF IInv, CoreInv, core
<1>5. AuthorityInv'
  <2>1. Attended' => Attended
    BY <1>1, <1>2 DEF Attended, core
  <2> QED
    BY <1>1, <2>1 DEF IInv, AuthorityInv, core
<1> QED
  BY <1>4, <1>5

(* Nothing of the process changes but how far a run is. *)
LEMMA StandsStill ==
  ASSUME PlaceInv, NEW t \in All, UNCHANGED <<holder, locks, pc, local>>
  PROVE  Local(t) /\ (Place(t) => Place(t)')
<1>1. Local(t)
  BY DEF PlaceInv, Shapes, Local, OthersStay, locks, local
<1>2. Place(t) => Place(t)'
  BY DEF Place, HasActivation, HasAdmission, HasSnapshot, Starting, StartPrepares, locks, local
<1> QED
  BY <1>1, <1>2

(* A grant that was resolved has the form a row records. *)
LEMMA GrantIsValue ==
  ASSUME NEW s, Formed(s), NEW key \in Keys, Preflight(s, {key})
  PROVE  [binding |-> BindingFor(s, key), config |-> s.config, policy |-> s.policy,
          generation |-> s.grant[key].generation] # None
<1>1. selector[key] \in Runners
  BY Names
<1>2. BindingFor(s, key) \in Installs
  BY <1>1 DEF Formed, Preflight, BindingFor
<1>3. s.config \in Nat /\ s.policy \in Nat
  BY OwnerPolicyAssumption DEF Formed
<1>4. s.grant[key].generation \in Nat
  BY DEF Formed, Preflight
<1> QED
  BY <1>2, <1>3, <1>4, ActivationAssumption

LEMMA ResolveKeeps ==
  ASSUME IInv, NEW t \in All, Resolve(t)
  PROVE  IInv'
<1>1. CASE Raise(t) /\ UNCHANGED durable
  BY <1>1, RaiseKeeps DEF Resolve
<1>2. CASE ~(Raise(t) /\ UNCHANGED durable)
  <2>1. PICK r \in Runs :
          /\ run[r] = "parked" /\ context # None
          /\ Preflight(context, {requirement[r]})
          /\ run' = Put(run, r, "prepared")
          /\ record' = Put(record, r,
               [binding |-> BindingFor(context, requirement[r]),
                config |-> context.config, policy |-> context.policy,
                generation |-> context.grant[requirement[r]].generation])
          /\ UNCHANGED <<holder, locks, core, pc, local>>
    BY <1>2 DEF Resolve
  <2>2. /\ Local(t) /\ Place(t)' /\ UNCHANGED owner /\ pc[t] \in {"sweep", "drive"}
        /\ Place(t) /\ Duty(t)
    BY <2>1, StandsStill DEF Resolve, IInv, PlaceInv, RunInv
  <2>3. /\ run'[r] = "prepared" /\ \A q \in Runs \ {r} : run'[q] = run[q] /\ record'[q] = record[q]
        /\ run' \in [Runs -> {"absent", "parked", "prepared", "launched", "done"}]
        /\ record' = [q \in Runs |-> record'[q]]
        /\ record'[r].binding = BindingFor(context, requirement[r])
    BY <2>1 DEF Put, IInv, RunInv
  <2>4. record'[r] # None
    <3>1. requirement[r] \in Keys
      BY Names
    <3>2. record'[r] = [binding |-> BindingFor(context, requirement[r]),
                        config |-> context.config, policy |-> context.policy,
                        generation |-> context.grant[requirement[r]].generation]
      BY <2>1 DEF Put, IInv, RunInv
    <3> QED
      BY <2>1, <3>1, <3>2, GrantIsValue DEF IInv, CoreInv
  <2>5. RunInv'
    <3>1. \A s \in All \ {t} : Duty(s)'
      BY <2>1, <2>2, <2>3, OtherDuties DEF IInv, owner, ownerFile
    <3>2. Duty(t)'
      BY <2>1, <2>2, <2>3 DEF Duty, Starting, StartPrepares, local
    <3>3. \A q \in Runs : record'[q] = None <=> run'[q] \in {"absent", "parked"}
      BY <2>3, <2>4 DEF IInv, RunInv
    <3>4. \A s, u \in All : s # u /\ cur'[s] = cur'[u] /\ cur'[s] # None
                              => run'[cur'[s]] # "absent"
      <4>1. \A s \in All : cur[s] \in {None} \cup Runs
        BY DEF IInv, RunInv, Duty
      <4> QED
        BY <2>1, <2>3, <4>1 DEF IInv, RunInv, local
    <3>5. \A s \in All : Duty(s)'
      BY <3>1, <3>2
    <3> QED
      BY <2>3, <3>3, <3>4, <3>5 DEF RunInv
  <2>6. CoreInv' /\ AuthorityInv'
    <3>1. Protected' \subseteq Protected
      BY <2>1, <2>3 DEF Protected
    <3>2. context # None /\ Matches(context) => Matches(context)'
      <4>1. context' = context /\ Protected \subseteq Runs
        BY <2>1 DEF core, Protected
      <4>2. ASSUME Matches(context), NEW q \in Protected', record'[q] # None
            PROVE  record'[q].binding = BindingFor(context, requirement[q])
        <5>1. CASE q = r
          BY <2>3, <5>1
        <5>2. CASE q # r
          BY <2>3, <3>1, <4>1, <4>2, <5>2 DEF Matches
        <5> QED
          BY <5>1, <5>2
      <4> QED
        BY <4>1, <4>2 DEF Matches, BindingFor
    <3> QED
      BY <2>1, <2>2, <3>1, <3>2, CoreOfRun DEF local
  <2> QED
    BY <2>2, <2>5, <2>6, StepKeeps
<1> QED
  BY <1>1, <1>2

LEMMA SettleKeeps ==
  ASSUME IInv, NEW t \in All, Settle(t)
  PROVE  IInv'
<1>1. PICK r \in Runs : run[r] = "launched" /\ run' = Put(run, r, "done")
  BY DEF Settle
<1>2. UNCHANGED <<owner, holder, record, locks, core, pc, local>> /\ pc[t] \in {"sweep", "drive"}
  BY DEF Settle
<1>3. /\ Local(t) /\ Place(t)' /\ Place(t) /\ Duty(t)
  BY <1>2, StandsStill DEF IInv, PlaceInv, RunInv
<1>4. /\ run'[r] = "done" /\ \A q \in Runs \ {r} : run'[q] = run[q] /\ record'[q] = record[q]
      /\ run' \in [Runs -> {"absent", "parked", "prepared", "launched", "done"}]
  BY <1>1, <1>2 DEF Put, IInv, RunInv
<1>5. RunInv'
  <2>1. \A s \in All \ {t} : Duty(s)'
    BY <1>1, <1>2, <1>3, <1>4, OtherDuties DEF IInv, owner, ownerFile
  <2>2. Duty(t)'
    BY <1>1, <1>2, <1>3, <1>4 DEF Duty, Starting, StartPrepares, local
  <2>3. \A q \in Runs : record'[q] = None <=> run'[q] \in {"absent", "parked"}
    BY <1>1, <1>2, <1>4 DEF IInv, RunInv
  <2>4. \A s, u \in All : s # u /\ cur'[s] = cur'[u] /\ cur'[s] # None
                            => run'[cur'[s]] # "absent"
    <3>1. \A s \in All : cur[s] \in {None} \cup Runs
      BY DEF IInv, RunInv, Duty
    <3> QED
      BY <1>2, <1>4, <3>1 DEF IInv, RunInv, local
  <2>5. \A s \in All : Duty(s)'
    BY <2>1, <2>2
  <2> QED
    BY <1>2, <1>4, <2>3, <2>4, <2>5 DEF IInv, RunInv
<1>6. CoreInv' /\ AuthorityInv'
  <2>1. Protected' \subseteq Protected
    BY <1>1, <1>4 DEF Protected
  <2>2. context # None /\ Matches(context) => Matches(context)'
    BY <1>2, <2>1 DEF Matches, BindingFor, core
  <2> QED
    BY <1>2, <1>3, <2>1, <2>2, CoreOfRun DEF local
<1> QED
  BY <1>2, <1>3, <1>5, <1>6, StepKeeps

LEMMA LaunchKeeps ==
  ASSUME IInv, NEW t \in All, Launch(t)
  PROVE  IInv'
<1>0. /\ Place(t) /\ Duty(t) /\ t # None /\ t \notin Owners /\ None \notin Owners
      /\ None \notin All
  BY Names DEF IInv, PlaceInv, RunInv
<1> DEFINE r == cur[t]
<1>1. /\ pc[t] \in {"commit", "launch"} /\ r \in Runs /\ run[r] = "prepared" /\ holder = t
      /\ record[r] # None
      /\ UNCHANGED <<owner, record, locks, core, op, decision, prepared>>
  BY <1>0 DEF Launch, Duty, Place, HasSnapshot, IInv, RunInv
<1>2. /\ holder' = None /\ run' = [run EXCEPT ![r] = "launched"]
      /\ pc' = [pc EXCEPT ![t] = IF pc[t] = "commit" THEN "sweep" ELSE "drive"]
      /\ cur' = [cur EXCEPT ![t] = None]
  BY <1>1 DEF Launch, Goto, Put
<1>3. Shapes
  BY DEF IInv, PlaceInv
<1>4. /\ Local(t) /\ cur'[t] = None /\ prepared'[t] = prepared[t] /\ op'[t] = op[t]
      /\ pc'[t] = IF pc[t] = "commit" THEN "sweep" ELSE "drive"
  BY <1>0, <1>1, <1>2, <1>3 DEF Shapes, Local, OthersStay, locks
<1>5. Place(t)'
  BY <1>0, <1>1, <1>2, <1>4 DEF Place, HasActivation, HasAdmission, HasSnapshot, Starting,
     StartPrepares, ThreadSteps, PumpSteps, locks
<1>6. /\ run'[r] = "launched" /\ \A q \in Runs \ {r} : run'[q] = run[q] /\ record'[q] = record[q]
      /\ run' \in [Runs -> {"absent", "parked", "prepared", "launched", "done"}]
  BY <1>1, <1>2 DEF IInv, RunInv
<1>7. RunInv'
  <2>1. \A s \in All \ {t} : Duty(s)'
    <3>1. \A s \in All \ {t} : pc[s] \notin {"commit", "launch"}
      BY <1>1 DEF IInv, PlaceInv, Place, HasSnapshot
    <3> QED
      BY <1>1, <1>4, <1>6, <3>1, OtherDuties DEF IInv, owner, ownerFile
  <2>2. Duty(t)'
    BY <1>4 DEF Duty, Starting, StartPrepares
  <2>3. \A q \in Runs : record'[q] = None <=> run'[q] \in {"absent", "parked"}
    BY <1>1, <1>6 DEF IInv, RunInv
  <2>4. \A s, u \in All : s # u /\ cur'[s] = cur'[u] /\ cur'[s] # None
                            => run'[cur'[s]] # "absent"
    <3>1. \A s \in All : cur[s] \in {None} \cup Runs
      BY DEF IInv, RunInv, Duty
    <3>2. \A s \in All \ {t} : cur'[s] = cur[s]
      BY <1>4 DEF Local, OthersStay
    <3> QED
      BY <1>4, <1>6, <3>1, <3>2 DEF IInv, RunInv
  <2>5. \A s \in All : Duty(s)'
    BY <2>1, <2>2
  <2> QED
    BY <1>1, <1>6, <2>3, <2>4, <2>5 DEF IInv, RunInv
<1>8. CoreInv' /\ AuthorityInv'
  <2>1. Protected' \subseteq Protected
    BY <1>1, <1>6 DEF Protected
  <2>2. context # None /\ Matches(context) => Matches(context)'
    BY <1>1, <2>1 DEF Matches, BindingFor, core
  <2> QED
    BY <1>1, <1>4, <2>1, <2>2, CoreOfRun
<1> QED
  BY <1>1, <1>4, <1>5, <1>7, <1>8, StepKeeps

LEMMA CommitKeeps ==
  ASSUME IInv, NEW t \in All, Commit(t)
  PROVE  IInv'
<1>1. CASE Raise(t)
  BY <1>1, RaiseKeeps DEF Commit
<1>2. CASE ~Raise(t)
  <2>0. /\ Place(t) /\ Duty(t) /\ t # None /\ t \notin Owners /\ None \notin Owners
        /\ None \notin All /\ None \notin Runs
    BY Names DEF IInv, PlaceInv, RunInv
  <2>1. PICK r \in Runs :
          /\ run[r] = "prepared" /\ context # None /\ snapshot = context /\ SameGrant(r)
          /\ cur' = Put(cur, t, r) /\ holder' = t
          /\ Goto(t, IF pc[t] = "sweep" THEN "commit" ELSE "launch")
          /\ UNCHANGED <<locks, core, op, decision, prepared>>
    BY <1>2 DEF Commit
  <2>2. /\ pc[t] \in {"sweep", "drive"} /\ holder = None /\ UNCHANGED <<owner, durable>>
    BY DEF Commit
  <2>3. Shapes
    BY DEF IInv, PlaceInv
  <2>4. /\ Local(t) /\ cur'[t] = r /\ prepared'[t] = prepared[t] /\ op'[t] = op[t]
        /\ pc'[t] = IF pc[t] = "sweep" THEN "commit" ELSE "launch"
    BY <2>0, <2>1, <2>2, <2>3 DEF Shapes, Local, OthersStay, locks, Goto, Put
  <2>5. Place(t)'
    BY <2>0, <2>1, <2>2, <2>4 DEF Place, HasActivation, HasAdmission, HasSnapshot, Starting,
       StartPrepares, ThreadSteps, PumpSteps, locks
  <2>6. Quotes(snapshot, r)'
    <3>1. Preflight(snapshot, {requirement[r]})
      BY <2>1 DEF SameGrant
    <3>2. /\ record[r].binding = BindingFor(snapshot, requirement[r])
          /\ record[r].config = snapshot.config /\ record[r].policy = snapshot.policy
      BY <2>1 DEF SameGrant
    <3>3. UNCHANGED <<snapshot, record>>
      BY <2>2 DEF owner, ownerFile, durable
    <3> QED
      BY <2>1, <3>1, <3>2, <3>3 DEF Quotes, Preflight, BindingFor
  <2>7. Duty(t)'
    <3>1. ~Starting(t)' /\ run'[r] = "prepared"
      BY <2>1, <2>2, <2>4 DEF Starting, StartPrepares, durable
    <3> QED
      BY <2>0, <2>4, <2>6, <3>1 DEF Duty
  <2>8. CASE t = Pump
    <3>1. \A s \in Threads : cur'[Pump] # None /\ cur[s] = cur'[Pump] => run[cur[s]] # "absent"
      BY <2>1, <2>4, <2>8
    <3> QED
      BY <2>1, <2>2, <2>4, <2>5, <2>7, <2>8, <3>1, QuietPump
  <2>9. CASE t # Pump
    <3>0. t \in Threads /\ CoreDuty(t) /\ ~StartPrepares(t)
      BY <2>2, <2>9 DEF All, IInv, CoreInv, StartPrepares
    <3>1. pc[t] = "sweep" /\ pc'[t] = "commit"
      BY <2>0, <2>2, <2>4, <2>9 DEF Place, ThreadSteps
    <3>2. /\ CoreDuty(t)'
          /\ Recovering(t)' <=> Recovering(t)
          /\ Recovered(t)' <=> Recovered(t)
      BY <2>1, <2>4, <3>0, <3>1 DEF CoreDuty, Recovering, Recovered, core, StartPrepares
    <3>3. \A s \in All \ {t} : cur'[t] # None /\ cur[s] = cur'[t] => run[cur[s]] # "absent"
      BY <2>1, <2>4
    <3> QED
      BY <2>1, <2>2, <2>4, <2>5, <2>7, <3>0, <3>2, <3>3, QuietThread
  <2> QED
    BY <2>8, <2>9
<1> QED
  BY <1>1, <1>2

(***************************************************************************)
(* An activation is over: the thread lets go of the core it opened, and    *)
(* the pump is started.                                                    *)
(***************************************************************************)
LEMMA OpenerLeaves ==
  ASSUME NEW t \in All, t # Pump, activation' = t, admission' # t, holder' # t,
         op'[t] \in {None} \cup Ops, pc'[t] = "leave", prepared'[t] = FALSE
  PROVE  Place(t)'
BY DEF Place, HasActivation, HasAdmission, HasSnapshot, Starting, StartPrepares, ThreadSteps

LEMMA PumpIsStarted ==
  ASSUME activation' # Pump, admission' # Pump, holder' # Pump,
         op'[Pump] \in {None} \cup Ops, pc'[Pump] = "idle", prepared'[Pump] = FALSE
  PROVE  Place(Pump)'
BY DEF Place, HasActivation, HasAdmission, HasSnapshot, Starting, StartPrepares, PumpSteps

LEMMA OpenedKeeps ==
  ASSUME IInv, NEW t \in Threads, pc[t] = "sweep", prepared[t],
         admission' = None, deferred' = None, failure' = FALSE, active' = TRUE,
         pc' = [pc EXCEPT ![t] = "leave", ![Pump] = "idle"],
         prepared' = Put(prepared, t, FALSE),
         UNCHANGED <<holder, activation, op, decision, cur, closed, stores, context, stop>>,
         UNCHANGED <<owner, durable>>
  PROVE  IInv'
<1>0. /\ t \in All /\ t # Pump /\ Pump \in All /\ Pump \notin Threads
      /\ Place(t) /\ Duty(t) /\ CoreDuty(t) /\ Place(Pump) /\ Threads \subseteq All
      /\ \A s \in Threads : s # Pump
      /\ None \notin All /\ None \notin Owners /\ \A s \in All : s \notin Owners
  BY Names DEF IInv, PlaceInv, RunInv, CoreInv
<1>1. /\ ~active /\ ~closed /\ stores /\ ~stop /\ pc[Pump] = "off"
      /\ activation = t /\ admission = t /\ holder # t /\ Recovered(t)
  BY <1>0 DEF CoreDuty, IInv, CoreInv, Place, HasActivation, HasAdmission, HasSnapshot,
     StartPrepares, Recovered
<1>2. Shapes
  BY DEF IInv, PlaceInv
<1>3. /\ Shapes' /\ pc'[t] = "leave" /\ pc'[Pump] = "idle" /\ prepared'[t] = FALSE
      /\ \A s \in All \ {t} : prepared'[s] = prepared[s]
      /\ \A s \in All \ {t, Pump} : pc'[s] = pc[s]
      /\ UNCHANGED <<op, decision, cur, holder, activation>>
  BY <1>0, <1>2 DEF Shapes, Put
<1>4. PolicyInv'
  BY PolicyKept DEF IInv
<1>5. PlaceInv'
  <2>1. Place(t)'
    <3>1. /\ activation' = t /\ admission' # t /\ holder' # t
          /\ op'[t] \in {None} \cup Ops /\ t # Pump
          /\ pc'[t] = "leave" /\ prepared'[t] = FALSE
      BY <1>0, <1>1, <1>3 DEF Place
    <3> QED
      BY <1>0, <3>1, OpenerLeaves
  <2>2. Place(Pump)'
    <3>1. /\ activation' # Pump /\ admission' # Pump /\ holder' # Pump
          /\ op'[Pump] \in {None} \cup Ops /\ prepared'[Pump] = FALSE
          /\ pc'[Pump] = "idle"
      BY <1>0, <1>1, <1>3 DEF Place, HasSnapshot, StartPrepares
    <3> QED
      BY <3>1, PumpIsStarted
  <2>3. ASSUME NEW s \in All \ {t, Pump}
        PROVE  Place(s)'
    <3>1. Place(s) /\ (admission' = s <=> admission = s)
      BY <1>0, <1>1 DEF IInv, PlaceInv
    <3> QED
      BY <1>3, <3>1 DEF Place, HasActivation, HasAdmission, HasSnapshot, Starting, StartPrepares
  <2>4. \A s \in All : Place(s)'
    BY <2>1, <2>2, <2>3
  <2> QED
    BY <1>3, <2>4 DEF IInv, PlaceInv
<1>6. RunInv'
  <2>0. RunInv /\ UNCHANGED <<run, record, snapshot>>
    BY DEF IInv, durable, owner, ownerFile
  <2>1. \A s \in {t, Pump} : ~Starting(s) /\ ~Starting(s)' /\ pc'[s] \notin {"commit", "launch"}
    BY <1>0, <1>1, <1>3 DEF Starting, StartPrepares
  <2>2. \A s \in {t, Pump} : Duty(s)'
    BY <1>0, <1>3, <2>0, <2>1 DEF RunInv, Duty
  <2>3. ASSUME NEW s \in All \ {t, Pump}
        PROVE  Duty(s)'
    <3>1. /\ pc'[s] = pc[s] /\ cur'[s] = cur[s] /\ decision'[s] = decision[s]
          /\ Starting(s)' <=> Starting(s)
          /\ HasSnapshot(s)' <=> HasSnapshot(s)
      BY <1>3 DEF Starting, StartPrepares, HasSnapshot
    <3>2. /\ Preflight(decision[s], {requirement[cur[s]]})'
               <=> Preflight(decision[s], {requirement[cur[s]]})
          /\ Formed(decision[s])' <=> Formed(decision[s])
          /\ Quotes(snapshot, cur[s])' <=> Quotes(snapshot, cur[s])
      BY <2>0, <3>1 DEF Preflight, Formed, Quotes, BindingFor
    <3> QED
      BY <2>0, <3>1, <3>2 DEF RunInv, Duty
  <2>4. \A s \in All : Duty(s)'
    BY <2>2, <2>3
  <2> QED
    BY <1>3, <2>0, <2>4 DEF RunInv
<1>7. \A s \in Threads \ {t} :
        /\ ~prepared'[s] /\ pc[s] \notin {"leave", "persist"} /\ ~StartPrepares(s)'
        /\ pc'[s] = pc[s] /\ ~Recovered(s)'
        /\ Recovering(s)' <=> Recovering(s)
  BY <1>0, <1>1, <1>3, Alone DEF IInv, StartPrepares, Recovered, Recovering
<1>8. ~Recovering(t)' /\ ~Recovered(t)' /\ ~StartPrepares(t)'
  BY <1>3 DEF Recovering, Recovered, StartPrepares
<1>9. Formed(context)' <=> Formed(context)
  BY DEF Formed, BindingFor
<1>10. CoreInv'
  <2>1. \A s \in Threads : CoreDuty(s)'
    <3>1. CoreDuty(t)'
      BY <1>3, <1>8 DEF CoreDuty
    <3>2. ASSUME NEW s \in Threads \ {t}
          PROVE  CoreDuty(s)'
      <4>1. CoreDuty(s)
        BY DEF IInv, CoreInv
      <4> QED
        BY <1>7, <4>1 DEF CoreDuty
    <3> QED
      BY <3>1, <3>2
  <2> QED
    BY <1>1, <1>3, <1>9, <2>1 DEF IInv, CoreInv
<1>11. AuthorityInv'
  <2>1. Protected' = Protected
    BY DEF Protected, durable
  <2>2. Matches(context)' <=> Matches(context)
    BY <2>1 DEF Matches, BindingFor, durable
  <2>3. (context = None => Protected = {}) /\ (context # None => Matches(context))
    BY <1>1 DEF IInv, AuthorityInv, Attended
  <2> QED
    BY <2>1, <2>2, <2>3 DEF AuthorityInv
<1> QED
  BY <1>4, <1>5, <1>6, <1>10, <1>11 DEF IInv

LEMMA LeaveSweepKeeps ==
  ASSUME IInv, NEW t \in All, LeaveSweep(t)
  PROVE  IInv'
<1>0. UNCHANGED <<owner, durable>> /\ pc[t] \in {"sweep", "drive"}
  BY DEF LeaveSweep
<1>1. CASE t = Pump
  <2>0. /\ Pump \in All /\ Pump # None /\ Pump \notin Owners /\ Place(Pump)
    BY PumpSelf
  <2>1. PICK step \in {"idle", "install"} :
          /\ admission' = None /\ Goto(Pump, step)
          /\ UNCHANGED <<holder, activation, local, core>>
    BY <1>1 DEF LeaveSweep
  <2>2. admission = Pump
    BY <1>0, <1>1, <2>0 DEF Place, HasAdmission
  <2>3. Walks(Pump, step)
    BY <1>0, <2>1, <2>2 DEF Walks, Handed
  <2>4. pc'[Pump] = step /\ op'[Pump] = op[Pump] /\ prepared'[Pump] = prepared[Pump]
    BY <2>0, <2>3, WalkIsLocal DEF IInv
  <2>5. Place(Pump)'
    BY <1>0, <1>1, <2>0, <2>1, <2>4 DEF Place, HasActivation, HasAdmission, HasSnapshot,
       Starting, StartPrepares, PumpSteps
  <2>6. step \in PumpSteps \ {"off", "commit", "launch"}
    BY DEF PumpSteps
  <2> QED
    BY <1>0, <1>1, <2>1, <2>3, <2>5, <2>6, QuietPumpWalk
<1>2. CASE t # Pump
  <2>0. t \in Threads
    BY <1>2 DEF All
  <2>1. Place(t) /\ t # Pump /\ pc[t] = "sweep"
    BY <1>0, <2>0, Self DEF Place, ThreadSteps
  <2>2. CASE prepared[t]
    BY <1>0, <1>2, <2>0, <2>1, <2>2, OpenedKeeps DEF LeaveSweep
  <2>3. CASE ~prepared[t]
    BY <1>0, <1>2, <2>0, <2>1, <2>3, QuietReturn DEF LeaveSweep, StartPrepares
  <2> QED
    BY <2>2, <2>3
<1> QED
  BY <1>1, <1>2

LEMMA DieKeeps ==
  ASSUME IInv, Die
  PROVE  IInv'
<1>1. /\ activation' = None /\ admission' = None
      /\ holder' = (IF holder \in All THEN None ELSE holder)
      /\ ~active' /\ ~closed' /\ ~stores' /\ ~stop' /\ ~failure' /\ context' = None
      /\ deferred' = None /\ active' \in BOOLEAN /\ closed' \in BOOLEAN /\ stores' \in BOOLEAN
      /\ stop' \in BOOLEAN /\ failure' \in BOOLEAN
      /\ UNCHANGED <<owner, durable>>
  BY DEF Die
<1>2. /\ Shapes'
      /\ \A t \in All : /\ pc'[t] = (IF t = Pump THEN "off" ELSE "free") /\ op'[t] = None
                        /\ prepared'[t] = FALSE /\ cur'[t] = None
  BY DEF Die, Shapes
<1>3. PolicyInv'
  BY <1>1, Names, PolicyKept DEF IInv
<1>4. PlaceInv'
  <2>1. holder' \notin All /\ holder' \in {None} \cup Owners
    BY <1>1, Names DEF IInv, PlaceInv
  <2>2. ASSUME NEW t \in All
        PROVE  Place(t)'
    BY <1>1, <1>2, <2>1, Names DEF Place, HasActivation, HasAdmission, HasSnapshot, Starting,
       StartPrepares, ThreadSteps, PumpSteps
  <2> QED
    BY <1>1, <1>2, <2>1, <2>2 DEF PlaceInv
<1>5. RunInv'
  <2>1. \A t \in All : Duty(t)'
    BY <1>2 DEF Duty, Starting, StartPrepares
  <2> QED
    BY <1>1, <1>2, <2>1 DEF IInv, RunInv, durable
<1>6. Threads \subseteq All /\ Pump \in All /\ \A t \in Threads : t # Pump
  BY Names
<1>7. \A t \in Threads : ~Recovering(t)' /\ ~Recovered(t)' /\ CoreDuty(t)'
  BY <1>2, <1>6 DEF Recovering, Recovered, CoreDuty, StartPrepares
<1>8. CoreInv'
  BY <1>1, <1>2, <1>6, <1>7 DEF CoreInv
<1>9. AuthorityInv'
  BY <1>1, <1>2, <1>6, <1>7 DEF AuthorityInv, Attended
<1> QED
  BY <1>3, <1>4, <1>5, <1>8, <1>9 DEF IInv

-----------------------------------------------------------------------------
(* Owners provision *)

(***************************************************************************)
(* A successor has the form of a snapshot, and its generations are those   *)
(* of the predecessor only when it is the predecessor.                     *)
(***************************************************************************)
LEMMA SuccessorFollows ==
  ASSUME NEW old, old # None => Formed(old), NEW q, Asked(q),
         NextSnapshot(old, q.binding, q.keys).config <= MaxGeneration,
         NextSnapshot(old, q.binding, q.keys).policy <= MaxGeneration
  PROVE  /\ Formed(NextSnapshot(old, q.binding, q.keys))
         /\ old # None => Follows(NextSnapshot(old, q.binding, q.keys), old)
<1> DEFINE new == NextSnapshot(old, q.binding, q.keys)
           digest(key) == RequirementDigest(key, q.binding[selector[key]], new.config)
           first == old = None
<1>0. MaxGeneration \in Nat
  BY OwnerPolicyAssumption
<1>1. /\ new.config = IF first THEN 1
                      ELSE old.config + (IF old.binding = q.binding THEN 0 ELSE 1)
      /\ new.policy = IF first THEN 1
                      ELSE old.policy + (IF DOMAIN old.grant = q.keys THEN 0 ELSE 1)
      /\ new.binding = q.binding
  BY DEF NextSnapshot
<1>2. new.grant = [key \in q.keys |->
        [digest |-> digest(key),
         generation |-> IF first THEN 1
                        ELSE IF key \notin DOMAIN old.grant THEN 1
                        ELSE old.grant[key].generation
                               + (IF old.grant[key].digest = digest(key) THEN 0 ELSE 1)]]
  BY DEF NextSnapshot
<1>3. new = [config |-> new.config, policy |-> new.policy, binding |-> new.binding,
             grant |-> new.grant]
  BY DEF NextSnapshot
<1>4. new.config <= MaxGeneration /\ new.policy <= MaxGeneration
  OBVIOUS
<1> HIDE DEF new
<1>5. new.config \in 1 .. MaxGeneration /\ new.policy \in 1 .. MaxGeneration
  BY <1>0, <1>1, <1>4 DEF Formed
<1>6. /\ DOMAIN new.grant = q.keys
      /\ \A key \in q.keys : new.grant[key] = [digest |-> digest(key),
                                                generation |-> new.grant[key].generation]
  BY <1>2
<1>7. \A key \in q.keys : new.grant[key].generation \in Nat \ {0}
  BY <1>2 DEF Formed
<1>8. Formed(new)
  <2>1. \A key \in q.keys : digest(key) = RequirementDigest(key, BindingFor(new, key), new.config)
    BY <1>1 DEF BindingFor
  <2>2. new.grant = [key \in DOMAIN new.grant |->
          [digest |-> RequirementDigest(key, BindingFor(new, key), new.config),
           generation |-> new.grant[key].generation]]
    BY <1>2, <1>6, <2>1
  <2> QED
    BY <1>1, <1>3, <1>5, <1>6, <1>7, <2>2 DEF Formed, Asked
<1>9. ASSUME old # None
      PROVE  Follows(new, old)
  <2>0. Formed(old) /\ old.config \in Nat /\ old.policy \in Nat
    BY <1>0, <1>9 DEF Formed
  <2>1. new.config >= old.config /\ new.policy >= old.policy
    BY <1>1, <1>9, <2>0
  <2>2. ASSUME new.config = old.config, new.policy = old.policy
        PROVE  new = old
    <3>1. old.binding = q.binding /\ DOMAIN old.grant = q.keys
      BY <1>1, <1>9, <2>0, <2>2
    <3>2. \A key \in q.keys : old.grant[key] = [digest |-> digest(key),
                                                generation |-> old.grant[key].generation]
      <4>1. \A key \in DOMAIN old.grant : old.grant[key] =
              [digest |-> RequirementDigest(key, BindingFor(old, key), old.config),
               generation |-> old.grant[key].generation]
        BY <2>0 DEF Formed
      <4> QED
        BY <2>2, <3>1, <4>1 DEF BindingFor
    <3>3. \A key \in q.keys : old.grant[key].generation \in Nat
      BY <2>0, <3>1 DEF Formed
    <3>4. ASSUME NEW key \in q.keys
          PROVE  new.grant[key] = old.grant[key]
      <4> DEFINE g == old.grant[key].generation
                 d == digest(key)
      <4>0. old.grant[key] = [digest |-> d, generation |-> g] /\ g \in Nat
        BY <3>2, <3>3
      <4>1. old.grant[key].digest = digest(key) /\ g + 0 = g
        <5> HIDE DEF g, d
        <5>1. old.grant[key].digest = d /\ g + 0 = g
          BY <4>0
        <5> QED
          BY <5>1 DEF d
      <4>2. new.grant[key] = [digest |-> digest(key),
                              generation |-> old.grant[key].generation + 0]
        BY <1>2, <1>9, <3>1, <4>1
      <4> QED
        BY <3>2, <4>1, <4>2
    <3>5. old.grant = [key \in q.keys |-> old.grant[key]]
      BY <2>0, <3>1 DEF Formed
    <3>6. new.grant = old.grant
      BY <1>2, <3>4, <3>5
    <3>7. old = [config |-> old.config, policy |-> old.policy, binding |-> old.binding,
                 grant |-> old.grant]
      BY <2>0 DEF Formed
    <3> QED
      BY <1>1, <1>3, <2>2, <3>1, <3>6, <3>7
  <2> QED
    BY <2>1, <2>2 DEF Follows
<1> QED
  BY <1>8, <1>9 DEF new

(* Whoever acts on the snapshot is in its lock, and so no owner is.        *)
LEMMA OwnersAreApart ==
  ASSUME IInv, UNCHANGED <<durable, locks, core, pc, local, bounds>>,
         holder' \in {None} \cup Owners \cup All,
         \A t \in All : (holder' = t) <=> (holder = t),
         snapshot' = snapshot \/ \A t \in All : holder # t
  PROVE  PlaceInv' /\ RunInv' /\ CoreInv' /\ AuthorityInv'
<1> USE DEF durable, locks, core, local, bounds
<1>1. PlaceInv'
  BY DEF IInv, PlaceInv, Shapes, Place, HasActivation, HasAdmission, HasSnapshot, Starting,
     StartPrepares
<1>2. ASSUME NEW t \in All
      PROVE  Duty(t)'
  <2>1. Duty(t) /\ Place(t)
    BY DEF IInv, RunInv, PlaceInv
  <2>2. /\ pc'[t] = pc[t] /\ cur'[t] = cur[t] /\ decision'[t] = decision[t]
        /\ Starting(t)' <=> Starting(t)
        /\ HasSnapshot(t)' <=> HasSnapshot(t)
    BY DEF Starting, StartPrepares, HasSnapshot
  <2>3. HasSnapshot(t) => snapshot' = snapshot
    BY <2>1 DEF Place
  <2>4. pc[t] \in {"commit", "launch"} => HasSnapshot(t)
    BY DEF HasSnapshot
  <2>5. /\ Preflight(decision[t], {requirement[cur[t]]})'
             <=> Preflight(decision[t], {requirement[cur[t]]})
        /\ Formed(decision[t])' <=> Formed(decision[t])
        /\ snapshot' = snapshot =>
             (Quotes(snapshot, cur[t])' <=> Quotes(snapshot, cur[t]))
    BY DEF Preflight, Formed, Quotes, BindingFor
  <2> QED
    BY <2>1, <2>2, <2>3, <2>4, <2>5 DEF Duty
<1>3. RunInv'
  BY <1>2 DEF IInv, RunInv
<1>4. CoreInv'
  <2>1. Formed(context)' <=> Formed(context)
    BY DEF Formed, BindingFor
  <2>2. \A t \in Threads : CoreDuty(t)' /\ (StartPrepares(t)' <=> StartPrepares(t))
    BY DEF IInv, CoreInv, CoreDuty, StartPrepares, Recovering
  <2> QED
    BY <2>1, <2>2 DEF IInv, CoreInv
<1>5. AuthorityInv'
  <2>1. Protected' = Protected
    BY DEF Protected
  <2>2. Matches(context)' <=> Matches(context)
    BY <2>1 DEF Matches, BindingFor
  <2>3. \A t \in Threads : /\ Recovering(t)' <=> Recovering(t)
                           /\ Recovered(t)' <=> Recovered(t)
    BY DEF Recovering, Recovered
  <2> QED
    BY <2>1, <2>2, <2>3 DEF IInv, AuthorityInv, Attended
<1> QED
  BY <1>1, <1>3, <1>4, <1>5

(* What a step of an owner does to the file and to its lock.               *)
LEMMA OwnerKeeps ==
  ASSUME IInv, OwnerStep, UNCHANGED <<durable, locks, core, pc, local, bounds>>
  PROVE  IInv'
<1>0. /\ PolicyInv /\ PlaceInv /\ None \notin All /\ None \notin Owners
      /\ \A o \in Owners : o \notin All
  BY Names DEF IInv
<1>1. ASSUME NEW o \in Owners, Capture(o)
      PROVE  IInv'
  <2>1. PICK configured \in SUBSET Runners, inventory \in SUBSET Keys :
          \E keys \in SUBSET inventory :
            request' = [request EXCEPT ![o] =
              [binding |-> [runner \in Runners |->
                  IF runner \in configured THEN installed[runner] ELSE None],
               keys |-> keys, inventory |-> inventory]]
    BY <1>1 DEF Capture
  <2>2. PICK keys \in SUBSET inventory :
          request' = [request EXCEPT ![o] =
            [binding |-> [runner \in Runners |->
                IF runner \in configured THEN installed[runner] ELSE None],
             keys |-> keys, inventory |-> inventory]]
    BY <2>1
  <2>3. /\ pending[o] = None /\ UNCHANGED <<snapshot, written, holder, installed, pending>>
    BY <1>1 DEF Capture, ownerFile
  <2>4. /\ request' = [p \in Owners |-> request'[p]]
        /\ \A p \in Owners \ {o} : request'[p] = request[p]
        /\ Asked(request'[o])
    BY <1>0, <2>2 DEF PolicyInv, Asked
  <2>5. \A p \in Owners : request'[p] # None => Asked(request[p])'
    BY <1>0, <2>4 DEF PolicyInv, Asked
  <2>6. \A p \in Owners : pending'[p] # None =>
          /\ holder' = p /\ request'[p] # None /\ Formed(pending[p])'
          /\ snapshot' # None => Follows(pending[p], snapshot)'
    BY <1>0, <2>3, <2>4 DEF PolicyInv, Formed, BindingFor, Follows
  <2>7. PolicyInv'
    BY <1>0, <2>3, <2>4, <2>5, <2>6 DEF PolicyInv, Formed, BindingFor, Follows,
       GenerationsNameContent
  <2> QED
    BY <1>0, <2>3, <2>7, OwnersAreApart DEF IInv, PlaceInv
<1>2. ASSUME NEW o \in Owners, Enter(o)
      PROVE  IInv'
  <2> DEFINE new == NextSnapshot(snapshot, request[o].binding, request[o].keys)
  <2>1. /\ request[o] # None /\ holder = None /\ holder' = o
        /\ new.config <= MaxGeneration /\ new.policy <= MaxGeneration
        /\ pending' = [pending EXCEPT ![o] = new]
        /\ UNCHANGED <<snapshot, written, installed, request>>
    BY <1>2 DEF Enter, ownerFile
  <2>2. Formed(new) /\ (snapshot # None => Follows(new, snapshot))
    BY <1>0, <2>1, SuccessorFollows DEF PolicyInv
  <2> HIDE DEF new
  <2>3. /\ pending' = [p \in Owners |-> pending'[p]] /\ pending'[o] = new
        /\ \A p \in Owners \ {o} : pending'[p] = None
    BY <1>0, <2>1 DEF PolicyInv
  <2>4. \A p \in Owners : pending'[p] # None =>
          /\ holder' = p /\ request'[p] # None /\ Formed(pending[p])'
          /\ snapshot' # None => Follows(pending[p], snapshot)'
    BY <2>1, <2>2, <2>3 DEF Formed, BindingFor, Follows
  <2>5. PolicyInv'
    BY <1>0, <2>1, <2>3, <2>4 DEF PolicyInv, Formed, BindingFor, Follows, Asked,
       GenerationsNameContent
  <2> QED
    BY <1>0, <2>1, <2>5, OwnersAreApart DEF IInv, PlaceInv
<1>3. ASSUME NEW o \in Owners, Publish(o)
      PROVE  IInv'
  <2>1. /\ pending[o] # None /\ snapshot' = pending[o] /\ written' = written \cup {pending[o]}
        /\ holder' = (IF holder = o THEN None ELSE holder) /\ UNCHANGED installed
        /\ pending' = [pending EXCEPT ![o] = None] /\ request' = [request EXCEPT ![o] = None]
    BY <1>3 DEF Publish
  <2>2. /\ holder = o /\ Formed(pending[o])
        /\ snapshot # None => Follows(pending[o], snapshot)
    BY <1>0, <2>1 DEF PolicyInv
  <2>3. /\ pending' = [p \in Owners |-> pending'[p]] /\ \A p \in Owners : pending'[p] = None
        /\ request' = [p \in Owners |-> request'[p]] /\ request'[o] = None
        /\ \A p \in Owners \ {o} : request'[p] = request[p]
    BY <1>0, <2>1, <2>2 DEF PolicyInv
  <2>4. \A s \in written : Formed(s) /\ Follows(pending[o], s)
    <3>1. SUFFICES ASSUME NEW s \in written
                   PROVE  Formed(s) /\ Follows(pending[o], s)
      OBVIOUS
    <3>2. snapshot # None /\ Formed(snapshot) /\ Formed(s) /\ Follows(snapshot, s)
      BY <1>0 DEF PolicyInv
    <3>3. /\ pending[o].config \in Int /\ snapshot.config \in Int /\ s.config \in Int
          /\ pending[o].policy \in Int /\ snapshot.policy \in Int /\ s.policy \in Int
      BY <2>2, <3>2, OwnerPolicyAssumption DEF Formed
    <3> QED
      BY <2>2, <3>2, <3>3 DEF Follows
  <2>5. Follows(pending[o], pending[o])
    BY <2>2, OwnerPolicyAssumption DEF Follows, Formed
  <2>6. \A s \in written' : Formed(s)' /\ Follows(snapshot, s)'
    BY <2>1, <2>2, <2>4, <2>5 DEF Formed, BindingFor, Follows
  <2>7. GenerationsNameContent'
    BY <1>0, <2>1, <2>4, <2>5 DEF PolicyInv, GenerationsNameContent, Follows
  <2>8. snapshot' # None /\ snapshot' \in written' /\ Formed(snapshot)'
    BY <2>1, <2>2 DEF Formed, BindingFor
  <2>9. PolicyInv'
    BY <1>0, <2>1, <2>3, <2>6, <2>7, <2>8 DEF PolicyInv, Asked
  <2> QED
    BY <1>0, <2>1, <2>2, <2>9, OwnersAreApart DEF IInv, PlaceInv
<1>4. ASSUME NEW o \in Owners, OwnerDies(o)
      PROVE  IInv'
  <2>1. /\ holder' = (IF holder = o THEN None ELSE holder)
        /\ pending' = [pending EXCEPT ![o] = None] /\ request' = [request EXCEPT ![o] = None]
        /\ UNCHANGED <<snapshot, written, installed>>
    BY <1>4 DEF OwnerDies, ownerFile
  <2>2. /\ pending' = [p \in Owners |-> pending'[p]] /\ pending'[o] = None
        /\ request' = [p \in Owners |-> request'[p]] /\ request'[o] = None
        /\ \A p \in Owners \ {o} : request'[p] = request[p] /\ pending'[p] = pending[p]
    BY <1>0, <2>1 DEF PolicyInv
  <2>3. \A p \in Owners : pending'[p] # None =>
          /\ holder' = p /\ request'[p] # None /\ Formed(pending[p])'
          /\ snapshot' # None => Follows(pending[p], snapshot)'
    BY <1>0, <2>1, <2>2 DEF PolicyInv, Formed, BindingFor, Follows
  <2>4. PolicyInv'
    BY <1>0, <2>1, <2>2, <2>3 DEF PolicyInv, Formed, BindingFor, Follows, Asked,
       GenerationsNameContent
  <2> QED
    BY <1>0, <2>1, <2>4, OwnersAreApart DEF IInv, PlaceInv
<1>5. ASSUME NEW runner \in Runners, Reinstall(runner)
      PROVE  IInv'
  <2>1. /\ UNCHANGED <<snapshot, written, holder, request, pending>>
        /\ installed' \in [Runners -> Installs]
    BY <1>0, <1>5 DEF Reinstall, ownerFile, ownerWork, PolicyInv
  <2>2. PolicyInv'
    BY <1>0, <2>1 DEF PolicyInv, Formed, BindingFor, Follows, Asked, GenerationsNameContent
  <2> QED
    BY <1>0, <2>1, <2>2, OwnersAreApart DEF IInv, PlaceInv
<1> QED
  BY <1>1, <1>2, <1>3, <1>4, <1>5 DEF OwnerStep

-----------------------------------------------------------------------------
(* The invariant *)

LEMMA InitHolds ==
  ASSUME Init
  PROVE  IInv
<1>0. /\ None \notin All /\ Pump \in All /\ Threads \subseteq All
      /\ \A t \in Threads : t # Pump
  BY Names
<1>1. PolicyInv
  BY DEF Init, OwnerInit, PolicyInv, GenerationsNameContent
<1>2. /\ Shapes /\ holder = None /\ activation = None /\ admission = None
      /\ run = [r \in Runs |-> "absent"] /\ record = [r \in Runs |-> None]
      /\ active = FALSE /\ closed = FALSE /\ stores = FALSE
      /\ context = None /\ deferred = None /\ stop = FALSE /\ failure = FALSE
      /\ \A t \in All : /\ pc[t] = (IF t = Pump THEN "off" ELSE "free") /\ op[t] = None
                        /\ prepared[t] = FALSE /\ cur[t] = None
  BY DEF Init, OwnerInit, ActivationInit, Shapes
<1>3. \A t \in All : Place(t)
  BY <1>0, <1>2 DEF Place, HasActivation, HasAdmission, HasSnapshot, Starting, StartPrepares,
     ThreadSteps, PumpSteps
<1>4. PlaceInv
  BY <1>2, <1>3 DEF PlaceInv
<1>5. \A t \in All : Duty(t)
  BY <1>2 DEF Duty, Starting, StartPrepares
<1>6. RunInv
  BY <1>2, <1>5 DEF RunInv
<1>7. \A t \in Threads : ~Recovering(t) /\ ~Recovered(t) /\ CoreDuty(t)
  BY <1>0, <1>2 DEF Recovering, Recovered, CoreDuty, StartPrepares
<1>8. CoreInv
  BY <1>0, <1>2, <1>7 DEF CoreInv
<1>9. AuthorityInv
  BY <1>0, <1>2, <1>7 DEF AuthorityInv, Attended
<1> QED
  BY <1>1, <1>4, <1>6, <1>8, <1>9 DEF IInv

LEMMA StutterKeeps ==
  ASSUME IInv, UNCHANGED vars
  PROVE  IInv'
<1>1. /\ UNCHANGED <<owner, holder>>
      /\ UNCHANGED <<durable, locks, core, pc, local, bounds>>
  BY DEF vars
<1>2. PolicyInv'
  BY <1>1, PolicyKept DEF IInv
<1>3. snapshot' = snapshot /\ holder' \in {None} \cup Owners \cup All
  BY <1>1 DEF owner, ownerFile, IInv, PlaceInv
<1> QED
  BY <1>1, <1>2, <1>3, OwnersAreApart DEF IInv

LEMMA NextKeeps ==
  ASSUME IInv, [Next]_vars
  PROVE  IInv'
<1>1. ASSUME NEW t \in Threads, Arrive(t)
      PROVE  IInv'
  BY <1>1, ArriveKeeps
<1>2. ASSUME NEW t \in Threads, ThreadStep(t)
      PROVE  IInv'
  BY <1>2, EnterActivationKeeps, EnterAdmissionKeeps, HoldCurrentKeeps, TryActivationKeeps,
     PassActivationKeeps, ConfigureKeeps, PrepareKeeps, PersistKeeps, LeaveKeeps,
     RelockKeeps, CloseKeeps, JoinKeeps DEF ThreadStep
<1>3. ASSUME NEW t \in All, SweepStep(t)
      PROVE  IInv'
  <2>1. CASE EnterSweep(t)
    BY <2>1, EnterSweepKeeps, PumpEntersKeeps DEF All
  <2> QED
    BY <1>3, <2>1, InstallKeeps, ResolveKeeps, CommitKeeps, LaunchKeeps, SettleKeeps,
       LeaveSweepKeeps DEF SweepStep
<1> QED
  BY <1>1, <1>2, <1>3, WakeKeeps, DieKeeps, OwnerKeeps, StutterKeeps DEF Next, ServerStep

(***************************************************************************)
(* Every command, sweep, launch and shutdown, every death of the process   *)
(* and every step of an owner keeps the locks where the code takes them,   *)
(* the runs with what was decided for them and the core whole.             *)
(***************************************************************************)
THEOREM ActivationInvariant == Spec => []IInv
<1>1. Init => IInv
  BY InitHolds
<1>2. IInv /\ [Next]_vars => IInv'
  BY NextKeeps
<1> QED
  BY <1>1, <1>2, PTL DEF Spec

LEMMA SnapshotIsFormed ==
  ASSUME NEW s, Formed(s)
  PROVE  IsSnapshot(s)
BY DEF Formed, IsSnapshot

LEMMA TypeOfCore ==
  ASSUME IInv
  PROVE  TypeOK
<1>1. OwnerTypeOK
  BY SnapshotIsFormed DEF IInv, PolicyInv, OwnerTypeOK
<1>2. context = None \/ IsSnapshot(context)
  BY SnapshotIsFormed DEF IInv, CoreInv
<1>3. /\ op = [t \in All |-> op[t]] /\ cur = [t \in All |-> cur[t]]
      /\ prepared = [t \in All |-> prepared[t]]
      /\ \A t \in All : /\ op[t] \in {None} \cup Ops /\ cur[t] \in {None} \cup Runs
                        /\ prepared[t] \in BOOLEAN
  BY DEF IInv, PlaceInv, Shapes, Place, RunInv, Duty
<1>4. op \in [All -> {None} \cup Ops] /\ cur \in [All -> {None} \cup Runs]
  BY <1>3
<1>5. prepared \in [All -> BOOLEAN]
  BY <1>3
<1>6. {active, closed, stores, stop, failure} \subseteq BOOLEAN
  BY DEF IInv, CoreInv
<1>7. /\ holder \in {None} \cup Owners \cup All
      /\ activation \in {None} \cup All /\ admission \in {None} \cup All
  BY DEF IInv, PlaceInv
<1>8. /\ run \in [Runs -> {"absent", "parked", "prepared", "launched", "done"}]
      /\ \A r \in Runs : record[r] = None <=> run[r] \in {"absent", "parked"}
  BY DEF IInv, RunInv
<1>9. deferred \in {None} \cup Runs
  BY DEF IInv, CoreInv
<1> QED
  BY <1>1, <1>2, <1>4, <1>5, <1>6, <1>7, <1>8, <1>9 DEF TypeOK

LEMMA CoreFollows ==
  ASSUME IInv
  PROVE  CoreIsSound
<1>1. ASSUME activation = None
      PROVE  \A t \in Threads : ~prepared[t] /\ ~StartPrepares(t)
  BY <1>1, Names DEF IInv, PlaceInv, Place, HasActivation, StartPrepares
<1>2. CoreIsWhole
  BY <1>1 DEF IInv, CoreInv, CoreIsWhole
<1>3. OneBindingPerEffect
  BY DEF IInv, AuthorityInv, Matches, OneBindingPerEffect
<1>4. GenerationsNameContent
  BY DEF IInv, PolicyInv
<1> QED
  BY <1>2, <1>3, <1>4, TypeOfCore DEF CoreIsSound

(***************************************************************************)
(* The generations of the owner policy name its content for ever, while    *)
(* nobody activates the core it is open with a pump or as if it had never  *)
(* been opened, and an active core drives every protected effect with the  *)
(* binding in its row, whatever fails and whoever dies.                    *)
(***************************************************************************)
THEOREM CoreStaysSound == Spec => []CoreIsSound
<1>1. IInv => CoreIsSound
  BY CoreFollows
<1> QED
  BY <1>1, ActivationInvariant, PTL

LEMMA AuthorityFollows ==
  ASSUME IInv
  PROVE  SweepHasAuthority
<1>1. SUFFICES ASSUME NEW t \in All, pc[t] \in {"sweep", "drive"},
                      NEW r \in Runs, run[r] = "parked"
               PROVE  context # None
  BY DEF SweepHasAuthority
<1>2. Protected # {}
  BY <1>1 DEF Protected
<1>3. Attended
  <2>1. CASE t = Pump
    BY <1>1, <2>1 DEF Attended
  <2>2. CASE t # Pump
    <3>1. t \in Threads /\ pc[t] = "sweep"
      BY <1>1, <2>2 DEF All, IInv, PlaceInv, Place, ThreadSteps
    <3>2. Recovering(t) \/ Recovered(t)
      BY <3>1 DEF Recovering, Recovered
    <3> QED
      BY <3>1, <3>2 DEF Attended
  <2> QED
    BY <2>1, <2>2
<1> QED
  BY <1>2, <1>3 DEF IInv, AuthorityInv

(***************************************************************************)
(* Whoever drives a parked run has a context to ask for its grant: a start *)
(* cannot park it behind a sweep that found nothing to reconstruct.        *)
(***************************************************************************)
THEOREM SweepsHaveAuthority == Spec => []SweepHasAuthority
<1>1. IInv => SweepHasAuthority
  BY AuthorityFollows
<1> QED
  BY <1>1, ActivationInvariant, PTL

-----------------------------------------------------------------------------
(* What a run is admitted and launched under *)

LEMMA WhoChangesRuns ==
  ASSUME [Next]_vars
  PROVE  \/ run' = run
         \/ \E t \in Threads : Persist(t) /\ run' = Put(run, cur[t], "parked")
         \/ \E t \in All : pc[t] \in {"commit", "launch"} /\ run' = Put(run, cur[t], "launched")
         \/ \E r \in Runs : run[r] = "parked" /\ run' = Put(run, r, "prepared")
         \/ \E r \in Runs : run[r] = "launched" /\ run' = Put(run, r, "done")
<1> USE DEF durable
<1>1. ASSUME NEW t \in Threads, ThreadStep(t), ~Persist(t)
      PROVE  run' = run
  BY <1>1 DEF ThreadStep, EnterActivation, EnterAdmission, HoldCurrent, TryActivation,
     PassActivation, Configure, Prepare, Leave, Relock, Close, Join
<1>2. ASSUME NEW t \in Threads, Persist(t), run' # run
      PROVE  run' = Put(run, cur[t], "parked")
  BY <1>2 DEF Persist
<1>3. ASSUME NEW t \in All, Launch(t)
      PROVE  pc[t] \in {"commit", "launch"} /\ run' = Put(run, cur[t], "launched")
  BY <1>3 DEF Launch
<1>4. ASSUME NEW t \in All, Resolve(t), run' # run
      PROVE  \E r \in Runs : run[r] = "parked" /\ run' = Put(run, r, "prepared")
  BY <1>4 DEF Resolve
<1>5. ASSUME NEW t \in All, Settle(t)
      PROVE  \E r \in Runs : run[r] = "launched" /\ run' = Put(run, r, "done")
  BY <1>5 DEF Settle
<1>6. ASSUME NEW t \in All, Install(t) \/ EnterSweep(t) \/ Commit(t) \/ LeaveSweep(t)
      PROVE  run' = run
  BY <1>6 DEF Install, EnterSweep, Commit, LeaveSweep
<1>7. ASSUME NEW t \in All, SweepStep(t), run' # run
      PROVE  Launch(t) \/ Resolve(t) \/ Settle(t)
  BY <1>6, <1>7 DEF SweepStep
<1>8. ASSUME NEW t \in Threads, Arrive(t)
      PROVE  run' = run
  BY <1>8 DEF Arrive
<1>9. Wake \/ Die \/ (OwnerStep /\ UNCHANGED <<durable, locks, core, pc, local, bounds>>)
        \/ UNCHANGED vars => run' = run
  BY DEF Wake, Die, vars
<1> QED
  BY <1>1, <1>2, <1>3, <1>4, <1>5, <1>7, <1>8, <1>9 DEF Next, ServerStep

LEMMA ParkedNow ==
  ASSUME IInv, [Next]_vars, NEW t \in Threads, NEW r \in Runs,
         run[r] = "absent", run'[r] = "parked", cur[t] = r
  PROVE  snapshot = decision[t] /\ Preflight(snapshot, {requirement[r]})
<1>0. /\ run \in [Runs -> {"absent", "parked", "prepared", "launched", "done"}]
      /\ t \in All /\ Duty(t) /\ Place(t) /\ r # None
  BY Names DEF IInv, RunInv, PlaceInv
<1>1. PICK s \in Threads : Persist(s) /\ run' = Put(run, cur[s], "parked")
  BY <1>0, WhoChangesRuns DEF Put
<1>2. cur[s] = r
  BY <1>0, <1>1 DEF Put
<1>3. s = t
  BY <1>0, <1>2, Names DEF IInv, RunInv
<1>4. pc[t] = "persist"
  BY <1>1, <1>3 DEF Persist
<1> QED
  BY <1>0, <1>4 DEF Duty, Starting, HasSnapshot

LEMMA LaunchedNow ==
  ASSUME IInv, [Next]_vars, NEW r \in Runs, run[r] = "prepared", run'[r] = "launched"
  PROVE  Quotes(snapshot, r)
<1>0. run \in [Runs -> {"absent", "parked", "prepared", "launched", "done"}]
  BY DEF IInv, RunInv
<1>1. PICK t \in All : pc[t] \in {"commit", "launch"} /\ run' = Put(run, cur[t], "launched")
  BY <1>0, WhoChangesRuns DEF Put
<1>2. cur[t] = r
  BY <1>0, <1>1 DEF Put
<1> QED
  BY <1>1, <1>2 DEF IInv, RunInv, Duty

(***************************************************************************)
(* A run is parked only while the snapshot its start was decided on is the *)
(* owner's current one, and a protected worker starts only under grants of *)
(* the current snapshot that its effect row quotes: both hold through any  *)
(* wait for the locks and through every restart.                           *)
(***************************************************************************)
THEOREM OwnerIsObeyed == Spec => UnderCurrentOwner
<1>1. IInv /\ [Next]_vars =>
        [\A t \in Threads, r \in Runs :
           run[r] = "absent" /\ run'[r] = "parked" /\ cur[t] = r
             => snapshot = decision[t] /\ Preflight(snapshot, {requirement[r]})]_vars
  BY ParkedNow
<1>2. IInv /\ [Next]_vars =>
        [\A r \in Runs :
           run[r] = "prepared" /\ run'[r] = "launched" =>
             /\ Preflight(snapshot, {requirement[r]})
             /\ record[r].binding = BindingFor(snapshot, requirement[r])
             /\ record[r].policy = snapshot.policy
             /\ record[r].config = snapshot.config]_vars
  BY LaunchedNow DEF Quotes
<1>3. Spec => ParkedUnderCurrentOwner
  BY <1>1, ActivationInvariant, PTL DEF Spec, ParkedUnderCurrentOwner
<1>4. Spec => LaunchedUnderCurrentGrant
  BY <1>2, ActivationInvariant, PTL DEF Spec, LaunchedUnderCurrentGrant
<1> QED
  BY <1>3, <1>4, PTL DEF UnderCurrentOwner
=============================================================================
