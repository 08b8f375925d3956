------------------------------ MODULE Activation ------------------------------
(***************************************************************************)
(* The writable core of one server process (start_service.py,              *)
(* _service_writable_core.py, _service_activation_lifecycle.py,            *)
(* _service_recovery_pump.py, _service_composition.py) under the owner     *)
(* policy.  Command threads and the completion pump share two re-entrant   *)
(* locks of the process and the owner's snapshot.lock, which is a file.    *)
(* The order is activation, admission, snapshot; a start with an owner     *)
(* decision already holds the last two when it asks for the first, so it   *)
(* asks without waiting.  A run here needs one protected effect; what the  *)
(* coordinator does with it is EffectCoordinator's subject.                *)
(***************************************************************************)
EXTENDS OwnerPolicy

CONSTANTS
  Threads,         \* threads that serve commands
  Pump,            \* the completion pump's thread
  Runs,
  requirement,     \* run -> the key its protected effect needs
  MaxCommands,     \* BOUND: commands that are served
  MaxFaults        \* BOUND: failing preparations and deaths of the process

ASSUME ActivationAssumption ==
  /\ requirement \in [Runs -> Keys]
  /\ Pump \notin Threads /\ Owners \cap (Threads \cup {Pump}) = {}
  /\ None \notin Threads \cup {Pump} \cup Owners \cup Runs
  /\ None \notin [binding : Installs, config : Nat, policy : Nat, generation : Nat]
  /\ MaxCommands \in Nat /\ MaxFaults \in Nat

VARIABLES
  run,            \* run -> how far its protected work is
  record,         \* run -> what its effect row says of binding and grant
  activation,     \* the thread in _activation_lock
  admission,      \* the thread in _admission_recovery_lock
  active, closed, \* _writable_core_active, _closed
  stores,         \* are the stores and the graph runtime open
  context,        \* _runtime_execution_context, the snapshot it was built from
  deferred,       \* _initial_recovery_exclusion
  stop, failure,  \* _pump_stop is set, _pump_failure is not None
  pc, op,         \* thread -> its next step, and the command it serves
  decision,       \* thread -> the admitted snapshot of its start
  prepared,       \* thread -> it prepared the core in this activation
  cur,            \* thread -> the run it starts or commits
  commands, faults

durable == <<run, record>>
locks   == <<activation, admission>>
core    == <<active, closed, stores, context, deferred, stop, failure>>
local   == <<op, decision, prepared, cur>>
bounds  == <<commands, faults>>
owner   == <<ownerFile, installed, ownerWork>>
vars    == <<owner, holder, durable, locks, core, pc, local, bounds>>

All == Threads \cup {Pump}
Ops == {"command", "start", "recover", "close"}

ActivationInit ==
  /\ run = [r \in Runs |-> "absent"] /\ record = [r \in Runs |-> None]
  /\ activation = None /\ admission = None
  /\ active = FALSE /\ closed = FALSE /\ stores = FALSE
  /\ context = None /\ deferred = None /\ stop = FALSE /\ failure = FALSE
  /\ pc = [t \in All |-> IF t = Pump THEN "off" ELSE "free"]
  /\ op = [t \in All |-> None] /\ decision = [t \in All |-> None]
  /\ prepared = [t \in All |-> FALSE] /\ cur = [t \in All |-> None]
  /\ commands = 0 /\ faults = 0

Init == OwnerInit /\ ActivationInit

-----------------------------------------------------------------------------
(* The parts of a step *)

Put(f, i, x) == [f EXCEPT ![i] = x]
Goto(t, step) == pc' = Put(pc, t, step)

(* Runs with protected work: a watch, or an effect that is not terminal.    *)
Protected == {r \in Runs : run[r] \in {"parked", "prepared", "launched"}}

KeysOf(rs) == {requirement[r] : r \in rs}

(* RuntimeExecutionRecovery.reconstruct with the snapshot s: it raises      *)
(* unless every run with protected work is granted and every effect row has *)
(* the binding of its runner.                                               *)
Reconstructs(s) ==
  /\ s # None /\ BindingsUnchanged(s) /\ Preflight(s, KeysOf(Protected))
  /\ \A r \in Protected :
       record[r] # None => record[r].binding = BindingFor(s, requirement[r])

(* Mutant: the context of the failed activation stays.                      *)
RollbackKeepsContext ==
  /\ stores' = FALSE /\ deferred' = None
  /\ stop' = FALSE /\ failure' = FALSE /\ active' = FALSE
  /\ UNCHANGED <<closed, context>>

(* _rollback_writable_core_activation *)
Rollback ==
  /\ stores' = FALSE /\ context' = None /\ deferred' = None
  /\ stop' = FALSE /\ failure' = FALSE /\ active' = FALSE
  /\ UNCHANGED closed

(* The command of t is over; what it holds of the process is given back.    *)
Return(t) ==
  /\ Goto(t, "free")
  /\ activation' = IF activation = t THEN None ELSE activation
  /\ admission' = IF admission = t THEN None ELSE admission
  /\ holder' = IF holder = t THEN None ELSE holder
  /\ op' = Put(op, t, None) /\ decision' = Put(decision, t, None)
  /\ prepared' = Put(prepared, t, FALSE) /\ cur' = Put(cur, t, None)

-----------------------------------------------------------------------------
(* Commands *)

(* A command arrives.  A start with a protected recipe is planned first:    *)
(* capture_runtime_execution_admission reads the snapshot without its lock, *)
(* captures the installations again and checks the grants.                  *)
Arrive(t) ==
  /\ pc[t] = "free" /\ commands < MaxCommands /\ commands' = commands + 1
  /\ \E o \in Ops :
       /\ op' = Put(op, t, o)
       /\ \/ /\ o = "start"
             /\ snapshot # None /\ BindingsUnchanged(snapshot)
             /\ \E r \in Runs :
                  /\ run[r] = "absent" /\ \A other \in Threads : cur[other] # r
                  /\ Preflight(snapshot, {requirement[r]})
                  /\ cur' = Put(cur, t, r)
             /\ decision' = Put(decision, t, snapshot) /\ Goto(t, "admission")
          \/ /\ o # "start" /\ UNCHANGED <<decision, cur>>
             /\ Goto(t, IF o = "close" THEN "close" ELSE "activation")
  /\ UNCHANGED <<owner, holder, durable, locks, core, prepared, faults>>

(* activate: the lock first, whatever the state of the core.                *)
EnterActivation(t) ==
  /\ pc[t] = "activation" /\ activation = None /\ activation' = t
  /\ Goto(t, "prepare")
  /\ UNCHANGED <<owner, holder, durable, admission, core, local, bounds>>

(* admit: the admission lock, which every round of its loop takes again.    *)
EnterAdmission(t) ==
  /\ pc[t] = "admission" /\ admission = None /\ admission' = t
  /\ Goto(t, "hold")
  /\ UNCHANGED <<owner, holder, durable, activation, core, local, bounds>>

(* Mutant: assert_current compares and lets go of snapshot.lock.            *)
HoldCurrentBriefly(t) ==
  /\ pc[t] = "hold" /\ holder = None
  /\ \/ /\ snapshot = decision[t] /\ Goto(t, "try")
        /\ UNCHANGED <<holder, locks, local>>
     \/ snapshot # decision[t] /\ Return(t)
  /\ UNCHANGED <<owner, durable, core, bounds>>

(* hold_runtime_snapshot_current: with the lock held the snapshot has to be *)
(* the one of the decision, or the start fails.                             *)
HoldCurrent(t) ==
  /\ pc[t] = "hold" /\ holder = None
  /\ \/ /\ snapshot = decision[t] /\ Goto(t, "try") /\ holder' = t
        /\ UNCHANGED <<locks, local>>
     \/ snapshot # decision[t] /\ Return(t)
  /\ UNCHANGED <<owner, durable, core, bounds>>

(* Mutant: the start waits for the activation lock.                         *)
WaitActivation(t) ==
  /\ pc[t] = "try" /\ activation = None /\ activation' = t
  /\ Goto(t, "configure")
  /\ UNCHANGED <<owner, holder, durable, admission, core, local, bounds>>

(* acquire(blocking=False): without it the start lets go of everything and  *)
(* waits outside.                                                           *)
TryActivation(t) ==
  /\ pc[t] = "try"
  /\ \/ /\ activation = None /\ activation' = t /\ Goto(t, "configure")
        /\ UNCHANGED <<holder, admission>>
     \/ /\ activation # None /\ Goto(t, "wait")
        /\ holder' = None /\ admission' = None /\ UNCHANGED activation
  /\ UNCHANGED <<owner, durable, core, local, bounds>>

(* with self.lock: pass *)
PassActivation(t) ==
  \/ /\ pc[t] = "wait" /\ activation = None /\ activation' = t
     /\ Goto(t, "passed")
     /\ UNCHANGED <<owner, holder, durable, admission, core, local, bounds>>
  \/ /\ pc[t] = "passed" /\ activation' = None /\ Goto(t, "admission")
     /\ UNCHANGED <<owner, holder, durable, admission, core, local, bounds>>

(* Mutant: a start does not configure the core.                             *)
ConfigureNothing(t) ==
  /\ pc[t] = "configure" /\ Goto(t, "prepare")
  /\ UNCHANGED <<owner, holder, durable, locks, core, local, bounds>>

(* _configure_runtime_execution: a context, once there, is not replaced.    *)
Configure(t) ==
  /\ pc[t] = "configure"
  /\ \/ /\ context \notin {None, decision[t]} /\ Return(t) /\ UNCHANGED core
     \/ /\ context \in {None, decision[t]} /\ context' = decision[t]
        /\ Goto(t, "prepare")
        /\ UNCHANGED <<holder, locks, local, active, closed, stores, deferred,
                       stop, failure>>
  /\ UNCHANGED <<owner, durable, bounds>>

(* _prepare_locked: an active core is used; a closed one refuses; opening   *)
(* may fail, and reconstructing the context may, and then the core is as    *)
(* if nothing had been tried.                                               *)
Prepare(t) ==
  /\ pc[t] = "prepare"
  /\ \/ /\ active /\ UNCHANGED <<core, faults>>
        /\ \/ /\ op[t] = "start" /\ Goto(t, "persist")
              /\ UNCHANGED <<holder, locks, local>>
           \/ /\ op[t] = "recover" /\ Goto(t, "relock") /\ activation' = None
              /\ UNCHANGED <<holder, admission, local>>
           \/ op[t] = "command" /\ Return(t)
     \/ /\ ~active /\ closed /\ Return(t) /\ UNCHANGED <<core, faults>>
     \/ /\ ~active /\ ~closed
        /\ context # None \/ Protected = {} \/ Reconstructs(snapshot)
        /\ stores' = TRUE /\ prepared' = Put(prepared, t, TRUE)
        /\ Goto(t, IF op[t] = "start" THEN "persist" ELSE "install")
        /\ context' = IF context = None /\ Protected # {} THEN snapshot ELSE context
        /\ UNCHANGED <<holder, locks, op, decision, cur, active, closed, deferred,
                       stop, failure, faults>>
     \/ /\ ~active /\ ~closed /\ Rollback /\ Return(t)
        /\ \/ /\ context = None /\ Protected # {} /\ ~Reconstructs(snapshot)
              /\ UNCHANGED faults
           \/ faults < MaxFaults /\ faults' = faults + 1
  /\ UNCHANGED <<owner, durable, commands>>

(* persist: the run and its watch are admitted and nothing is started; then *)
(* the snapshot and the admission lock are let go.  A failure before it is  *)
(* durable takes a core prepared for it back.                               *)
Persist(t) ==
  /\ pc[t] = "persist"
  /\ \/ /\ run' = Put(run, cur[t], "parked")
        /\ holder' = IF holder = t THEN None ELSE holder
        /\ admission' = None
        /\ IF prepared[t]
           THEN Goto(t, "install") /\ deferred' = cur[t]
           ELSE Goto(t, "leave") /\ UNCHANGED deferred
        /\ UNCHANGED <<activation, local, active, closed, stores, context, stop,
                       failure, faults>>
     \/ /\ faults < MaxFaults /\ faults' = faults + 1
        /\ Return(t) /\ UNCHANGED run
        /\ IF prepared[t] THEN Rollback ELSE UNCHANGED core
  /\ UNCHANGED <<owner, record, commands>>

-----------------------------------------------------------------------------
(* Recovery: the end of an activation, scenario_recover and the pump *)

(* What a failing recovery does: the pump ends, an activation is taken      *)
(* back, and the start that activated is degraded but durable.              *)
Raise(t) ==
  \/ /\ t = Pump /\ failure' = TRUE /\ Goto(t, "off")
     /\ activation' = IF activation = t THEN None ELSE activation
     /\ admission' = IF admission = t THEN None ELSE admission
     /\ holder' = IF holder = t THEN None ELSE holder
     /\ UNCHANGED <<local, active, closed, stores, context, deferred, stop>>
  \/ /\ t # Pump /\ Return(t)
     /\ IF prepared[t]
        THEN /\ stores' = FALSE /\ context' = None /\ deferred' = None
             /\ stop' = FALSE /\ active' = FALSE /\ UNCHANGED closed
             /\ failure' = (op[t] = "start")
        ELSE UNCHANGED core

(* _install_recovered_runtime_execution, in the activation lock: a snapshot *)
(* other than that of the context is an error.                              *)
Install(t) ==
  /\ pc[t] = "install" /\ activation \in {None, t}
  /\ LET raises == Protected # {} /\ (~Reconstructs(snapshot)
                                        \/ context \notin {None, snapshot})
     IN  \/ /\ raises /\ Raise(t)
         \/ /\ ~raises
            /\ context' = IF Protected = {} THEN context ELSE snapshot
            /\ Goto(t, IF admission = t THEN "sweep" ELSE "enter")
            /\ UNCHANGED <<holder, locks, local, active, closed, stores,
                           deferred, stop, failure>>
  /\ UNCHANGED <<owner, durable, bounds>>

(* The admission lock of the sweep, or of the pump's drain.                 *)
EnterSweep(t) ==
  /\ pc[t] \in {"enter", "drain"} /\ admission = None /\ admission' = t
  /\ Goto(t, IF pc[t] = "enter" THEN "sweep" ELSE "drive")
  /\ UNCHANGED <<owner, holder, durable, activation, core, local, bounds>>

(* The drive of a run reaches its effect: OwnerRuntimeEffectAuthority       *)
(* resolves a grant in snapshot.lock, against the snapshot of the context.  *)
Resolve(t) ==
  /\ pc[t] \in {"sweep", "drive"} /\ holder = None
  /\ \E r \in Runs \ {deferred} :
       /\ run[r] = "parked"
       /\ LET key == requirement[r]
              granted == stores /\ context # None /\ snapshot = context
                           /\ Preflight(context, {key})
          IN  \/ /\ granted /\ run' = Put(run, r, "prepared")
                 /\ record' = Put(record, r,
                      [binding |-> BindingFor(context, key),
                       config |-> context.config, policy |-> context.policy,
                       generation |-> context.grant[key].generation])
                 /\ UNCHANGED <<holder, locks, core, pc, local>>
              \/ ~granted /\ Raise(t) /\ UNCHANGED durable
  /\ UNCHANGED <<owner, bounds>>

(* The grant an effect row quotes is the one the context gives today.       *)
SameGrant(r) ==
  LET key == requirement[r] IN
  /\ Preflight(context, {key})
  /\ record[r] = [binding |-> BindingFor(context, key),
                  config |-> context.config, policy |-> context.policy,
                  generation |-> context.grant[key].generation]

(* commitment: in snapshot.lock, which stays held over the launch.          *)
Commit(t) ==
  /\ pc[t] \in {"sweep", "drive"} /\ holder = None
  /\ \E r \in Runs \ {deferred} :
       /\ run[r] = "prepared"
       /\ LET current == stores /\ context # None /\ snapshot = context
                           /\ SameGrant(r)
          IN  \/ /\ current /\ cur' = Put(cur, t, r) /\ holder' = t
                 /\ Goto(t, IF pc[t] = "sweep" THEN "commit" ELSE "launch")
                 /\ UNCHANGED <<locks, core, op, decision, prepared>>
              \/ ~current /\ Raise(t)
  /\ UNCHANGED <<owner, durable, bounds>>

Launch(t) ==
  /\ pc[t] \in {"commit", "launch"}
  /\ run' = Put(run, cur[t], "launched")
  /\ holder' = IF holder = t THEN None ELSE holder
  /\ Goto(t, IF pc[t] = "commit" THEN "sweep" ELSE "drive")
  /\ cur' = Put(cur, t, None)
  /\ UNCHANGED <<owner, record, locks, core, op, decision, prepared, bounds>>

(* The worker ended, its result is delivered and the run is complete.       *)
Settle(t) ==
  /\ pc[t] \in {"sweep", "drive"}
  /\ \E r \in Runs \ {deferred} :
       stores /\ run[r] = "launched" /\ run' = Put(run, r, "done")
  /\ UNCHANGED <<owner, holder, record, locks, core, pc, local, bounds>>

(* A sweep ends.  Activation then starts the pump and publishes the core;   *)
(* an explicit recovery is over; the pump waits, or goes on to its sweep.   *)
LeaveSweep(t) ==
  /\ pc[t] \in {"sweep", "drive"}
  /\ \/ /\ t = Pump /\ admission' = None
        /\ \E next \in {"idle", "install"} :
             /\ pc[t] = "sweep" => next = "idle"
             /\ Goto(t, next)
        /\ UNCHANGED <<holder, activation, local, core>>
     \/ /\ t # Pump /\ prepared[t] /\ admission' = None
        /\ deferred' = None /\ failure' = FALSE /\ active' = TRUE
        /\ pc' = [pc EXCEPT ![t] = "leave", ![Pump] = "idle"]
        /\ prepared' = Put(prepared, t, FALSE)
        /\ UNCHANGED <<holder, activation, op, decision, cur, closed, stores, context,
                       stop>>
     \/ t # Pump /\ ~prepared[t] /\ Return(t) /\ UNCHANGED core
  /\ UNCHANGED <<owner, durable, bounds>>

(* The activation lock is released; scenario_recover goes on.               *)
Leave(t) ==
  /\ pc[t] = "leave"
  /\ IF op[t] = "recover"
     THEN /\ Goto(t, "relock") /\ activation' = None
          /\ UNCHANGED <<holder, admission, local>>
     ELSE Return(t)
  /\ UNCHANGED <<owner, durable, core, bounds>>

(* scenario_recover takes the activation lock, then the admission lock.     *)
Relock(t) ==
  \/ /\ pc[t] = "relock" /\ activation = None /\ activation' = t
     /\ Goto(t, "readmit")
     /\ UNCHANGED <<owner, holder, durable, admission, core, local, bounds>>
  \/ /\ pc[t] = "readmit" /\ admission = None /\ admission' = t
     /\ Goto(t, "install")
     /\ UNCHANGED <<owner, holder, durable, activation, core, local, bounds>>

(* The pump wakes, and looks at the stop event.                             *)
Wake ==
  /\ pc[Pump] = "idle" /\ Goto(Pump, IF stop THEN "off" ELSE "drain")
  /\ UNCHANGED <<owner, holder, durable, locks, core, local, bounds>>

-----------------------------------------------------------------------------
(* Shutdown *)

(* close, in the activation lock: the pump is told to stop.                 *)
Close(t) ==
  /\ pc[t] = "close" /\ activation = None
  /\ \/ (closed \/ ~active) /\ Return(t) /\ closed' = TRUE
        /\ UNCHANGED <<active, stop>>
     \/ /\ ~closed /\ active /\ closed' = TRUE /\ active' = FALSE /\ stop' = TRUE
        /\ Goto(t, "join") /\ UNCHANGED <<holder, locks, local>>
  /\ UNCHANGED <<owner, durable, stores, context, deferred, failure, bounds>>

(* pump_thread.join(), then the runtime and the store are closed.           *)
Join(t) ==
  /\ pc[t] = "join" /\ pc[Pump] = "off" /\ stores' = FALSE /\ Return(t)
  /\ UNCHANGED <<owner, durable, active, closed, context, deferred, stop, failure,
                 bounds>>

(* The process dies and another one is started: the locks of the process    *)
(* are gone with it and the kernel releases the file lock.                  *)
Die ==
  /\ faults < MaxFaults /\ faults' = faults + 1
  /\ activation' = None /\ admission' = None
  /\ holder' = IF holder \in All THEN None ELSE holder
  /\ active' = FALSE /\ closed' = FALSE /\ stores' = FALSE
  /\ context' = None /\ deferred' = None /\ stop' = FALSE /\ failure' = FALSE
  /\ pc' = [t \in All |-> IF t = Pump THEN "off" ELSE "free"]
  /\ op' = [t \in All |-> None] /\ decision' = [t \in All |-> None]
  /\ prepared' = [t \in All |-> FALSE] /\ cur' = [t \in All |-> None]
  /\ UNCHANGED <<owner, durable, commands>>

-----------------------------------------------------------------------------

ThreadStep(t) ==
  \/ EnterActivation(t) \/ EnterAdmission(t) \/ HoldCurrent(t)
  \/ TryActivation(t) \/ PassActivation(t) \/ Configure(t) \/ Prepare(t)
  \/ Persist(t) \/ Leave(t) \/ Relock(t) \/ Close(t) \/ Join(t)

SweepStep(t) ==
  \/ Install(t) \/ EnterSweep(t) \/ Resolve(t) \/ Commit(t) \/ Launch(t)
  \/ Settle(t) \/ LeaveSweep(t)

ServerStep ==
  \/ \E t \in Threads : ThreadStep(t)
  \/ \E t \in All : SweepStep(t)
  \/ Wake

Next ==
  \/ \E t \in Threads : Arrive(t)
  \/ ServerStep \/ Die
  \/ OwnerStep /\ UNCHANGED <<durable, locks, core, pc, local, bounds>>

Spec == Init /\ [][Next]_vars

-----------------------------------------------------------------------------
(* Properties *)

TypeOK ==
  /\ OwnerTypeOK
  /\ holder \in {None} \cup Owners \cup All
  /\ run \in [Runs -> {"absent", "parked", "prepared", "launched", "done"}]
  /\ \A r \in Runs : record[r] = None <=> run[r] \in {"absent", "parked"}
  /\ activation \in {None} \cup All /\ admission \in {None} \cup All
  /\ {active, closed, stores, stop, failure} \subseteq BOOLEAN
  /\ context = None \/ IsSnapshot(context)
  /\ deferred \in {None} \cup Runs
  /\ op \in [All -> {None} \cup Ops] /\ cur \in [All -> {None} \cup Runs]
  /\ prepared \in [All -> BOOLEAN]

(* A run is parked only while the owner snapshot its start was decided on   *)
(* is the current one: an owner who takes a grant back and returns has no   *)
(* start admitted under it afterwards, however long the start waited for    *)
(* the locks of the process.                                                *)
ParkedUnderCurrentOwner ==
  [][\A t \in Threads, r \in Runs :
       run[r] = "absent" /\ run'[r] = "parked" /\ cur[t] = r
         => snapshot = decision[t] /\ Preflight(snapshot, {requirement[r]})]_vars

(* At the moment a protected worker starts, the owner's current snapshot    *)
(* grants its key to the binding and under the generations its effect row   *)
(* quotes, although grant and launch are far apart.                         *)
LaunchedUnderCurrentGrant ==
  [][\A r \in Runs :
       run[r] = "prepared" /\ run'[r] = "launched" =>
         /\ Preflight(snapshot, {requirement[r]})
         /\ record[r].binding = BindingFor(snapshot, requirement[r])
         /\ record[r].policy = snapshot.policy
         /\ record[r].config = snapshot.config]_vars

(* An active core never drives a protected effect with another binding than *)
(* the one in its row, restarts and new installations included.             *)
OneBindingPerEffect ==
  active /\ context # None =>
    \A r \in Protected :
      record[r] # None => record[r].binding = BindingFor(context, requirement[r])

(* The core is whole: while nobody activates it, it is either open with a   *)
(* pump (or the reason why there is none), or as if it had never been       *)
(* opened, so that the next command may try again.                          *)
CoreIsWhole ==
  activation = None =>
    /\ active => stores /\ ~closed /\ ~stop /\ (pc[Pump] # "off" \/ failure)
    /\ ~active /\ ~closed => ~stores /\ context = None /\ ~stop
                               /\ pc[Pump] = "off" /\ deferred = None
    /\ closed /\ pc[Pump] # "off" => stop

(* A drive of protected work always has an authority to ask: a run cannot   *)
(* be parked behind the back of a sweep that found nothing to reconstruct.  *)
SweepHasAuthority ==
  \A t \in All :
    pc[t] \in {"sweep", "drive"} /\ (\E r \in Runs \ {deferred} : run[r] = "parked")
      => context # None

(* The three locks never leave the process waiting for itself: while a      *)
(* thread has something to do and no owner is in snapshot.lock, one of them *)
(* can take its next step.  close joins the pump outside the lock that the  *)
(* pump may want; a start asks for its third lock without waiting.          *)
SomebodyMoves ==
  holder \notin Owners /\ (\E t \in All : pc[t] \notin {"free", "off"})
    => ENABLED ServerStep

(* The generations of the owner policy name its content, the core of the    *)
(* process is open or as if it had never been, and while it is active each  *)
(* protected effect keeps its binding.                                      *)
CoreIsSound == TypeOK /\ GenerationsNameContent /\ CoreIsWhole /\ OneBindingPerEffect

(* Runs are parked and workers launched under what the owner grants at that *)
(* moment, not under what was read before.                                  *)
UnderCurrentOwner == ParkedUnderCurrentOwner /\ LaunchedUnderCurrentGrant
=============================================================================
