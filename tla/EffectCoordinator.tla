-------------------------- MODULE EffectCoordinator --------------------------
(***************************************************************************)
(* The effect coordinator (runtime/effects/_coordinator_*.py) under the    *)
(* drive loop of runtime/engine_drive_service.py, for the effects of one   *)
(* run that a runner executes.  Drivers are server processes; each drives  *)
(* the run again and again: it reads the pending interrupts of the native  *)
(* graph, advances every effect by one ledger transition under a lease,    *)
(* and hands sealed results back to the graph.  A driver dies at any step, *)
(* and its kernel lock goes with it while its leases stay until they       *)
(* expire.                                                                 *)
(*                                                                         *)
(* The ledger is kept to the phase and outcome of each row (its leases and *)
(* revisions are EffectLedger's subject), the provider to what CodexAttempt*)
(* shows of it, and an exception that leaves a drive stops the completion  *)
(* pump of its process for good.                                           *)
(***************************************************************************)
EXTENDS Integers, FiniteSets, Sequences

CONSTANTS
  Effects,     \* effects the graph may ask for
  Drivers,     \* server processes
  Refusals,    \* how the authority gate refuses: EffectAuthorityDenied or another error
  MaxCrashes,  \* BOUND: deaths of drivers and supervisors, stopped pumps replaced
  MaxStalls    \* BOUND: leases that expire under a live holder

ASSUME RefusalsAssumption == Refusals \in (SUBSET {"denied", "changed"}) \ {{}}
ASSUME BoundsAssumption   == MaxCrashes \in Nat /\ MaxStalls \in Nat

None  == "none"
Ghost == "ghost"   \* a dead process

ASSUME DriversAssumption  == {None, Ghost} \cap Drivers = {}

VARIABLES
  pending,    \* effects the graph waits for
  future,     \* effects the graph has not asked for yet
  applied,    \* history: effect -> the results the graph was given
  row, outcome,  \* effect -> phase and result in the ledger
  attempt,    \* effect -> the attempt at the provider
  recorded,   \* effect -> does the provider's own state know it was started
  ended,      \* effect -> how its worker ended
  spawns,     \* history: effect -> how often a worker was started
  late,       \* effect -> is its deadline over
  granted,    \* does the owner still grant the effects
  watch,      \* is the run-drive watch unacknowledged
  guard,      \* who holds the invocation lock of the thread
  lease,      \* lease key -> its holder
  pc, todo, job, seen, want, flags,  \* the drive of each driver
  crashes, stalls

native   == <<pending, future, applied>>
ledger   == <<row, outcome>>
provider == <<attempt, recorded, ended, spawns>>
world    == <<late, granted, watch>>
drive    == <<todo, job, seen, want, flags>>
bounds   == <<crashes, stalls>>
vars == <<native, ledger, provider, world, guard, lease, pc, drive, bounds>>

Keys        == Effects \cup {"invoke"}
Phases      == {"absent", "prepared", "launching", "running", "sealed", "indeterminate",
                "delivered"}
Settled     == {"sealed", "indeterminate"}
Nonterminal == Phases \ {"absent", "delivered"}
Outcomes    == {"PASS", "ERROR", "deadline_timeout", "unknown"}
Attempts    == {None, "prepared", "running", "terminal", "lost"}
Steps       == {"idle", "snapshot", "sweep", "missing", "redeliver", "acquire", "owned",
                "write", "invoke", "commit", "grant", "start", "record", "finish",
                "ready", "lock", "resume", "mark", "down", "broken", "dead"}

Init ==
  /\ pending \in (SUBSET Effects) \ {{}}
  /\ future = Effects \ pending
  /\ applied = [e \in Effects |-> <<>>]
  /\ row = [e \in Effects |-> "absent"]
  /\ outcome = [e \in Effects |-> None]
  /\ attempt = [e \in Effects |-> None]
  /\ recorded = [e \in Effects |-> FALSE]
  /\ ended = [e \in Effects |-> None]
  /\ spawns = [e \in Effects |-> 0]
  /\ late = [e \in Effects |-> FALSE]
  /\ granted = TRUE /\ watch = TRUE
  /\ guard = None
  /\ lease = [k \in Keys |-> None]
  /\ pc = [d \in Drivers |-> "idle"]
  /\ todo = [d \in Drivers |-> {}]
  /\ job = [d \in Drivers |-> None]
  /\ seen = [d \in Drivers |-> "absent"]
  /\ want = [d \in Drivers |-> [phase |-> "absent", outcome |-> None]]
  /\ flags = [d \in Drivers |-> {}]
  /\ crashes = 0 /\ stalls = 0

-----------------------------------------------------------------------------
At(d, step)   == pc[d] = step
Goto(d, step) == pc' = [pc EXCEPT ![d] = step]

Free(k)       == lease[k] = None
Take(d, k)    == lease' = [lease EXCEPT ![k] = d]
Drop(d, ks)   == lease' = [k \in Keys |-> IF k \in ks /\ lease[k] = d THEN None ELSE lease[k]]
LeaveGuard(d) == guard' = IF guard = d THEN None ELSE guard

(* The kernel lock lets a driver look at the graph. *)
MaySee(d) == guard \in {None, d}

Forget(d) ==
  /\ todo' = [todo EXCEPT ![d] = {}]
  /\ job'  = [job EXCEPT ![d] = None]
  /\ seen' = [seen EXCEPT ![d] = "absent"]
  /\ want' = [want EXCEPT ![d] = [phase |-> "absent", outcome |-> None]]
  /\ flags' = [flags EXCEPT ![d] = {}]

(* An exception leaves the drive: every finally clause releases, and       *)
(* _completion_pump keeps the failure and returns.  Errors of lineage are  *)
(* kept apart.                                                             *)
Fail(d)   == Drop(d, Keys) /\ LeaveGuard(d) /\ Forget(d) /\ Goto(d, "down")
Broken(d) == Drop(d, Keys) /\ LeaveGuard(d) /\ Forget(d) /\ Goto(d, "broken")

(* One reconcile_one has reported; the flags keep what the drive needs of  *)
(* the report: must it stop, may it deliver.                               *)
Report(d, new) ==
  /\ todo' = [todo EXCEPT ![d] = @ \ {job[d]}]
  /\ flags' = [flags EXCEPT ![d] = @ \cup new]
  /\ job'  = [job EXCEPT ![d] = None]
  /\ seen' = [seen EXCEPT ![d] = "absent"]
  /\ want' = [want EXCEPT ![d] = [phase |-> "absent", outcome |-> None]]
  /\ Goto(d, "sweep")

Busy(d) == Report(d, {"stop"}) /\ Drop(d, {job[d]}) /\ UNCHANGED guard

Quiet == UNCHANGED guard

-----------------------------------------------------------------------------
(* The drive loop and the sweep over its effects *)

Drive(d) ==
  /\ At(d, "idle") /\ guard = None
  /\ guard' = d
  /\ Goto(d, "snapshot")
  /\ UNCHANGED <<native, ledger, provider, world, lease, drive, bounds>>

(* _InvocationLockTimeout: another process held the lock for too long. *)
LockTimeout(d) ==
  /\ At(d, "idle") \/ At(d, "sweep")
  /\ guard \notin {None, d}
  /\ Fail(d)
  /\ UNCHANGED <<native, ledger, provider, world, bounds>>

(* _settle_terminal_watch of the recovery sweep, outside any drive. *)
Settle(d) ==
  /\ At(d, "idle") /\ guard = None /\ pending = {} /\ watch
  /\ todo' = [todo EXCEPT ![d] = {e \in Effects : row[e] \in Nonterminal}]
  /\ flags' = [flags EXCEPT ![d] = {"settle"}]
  /\ Goto(d, "sweep")
  /\ UNCHANGED <<native, ledger, provider, world, guard, lease, job, seen, want, bounds>>

(* reconcile_pending, or reconcile_consumed when nothing is pending. *)
Snapshot(d) ==
  /\ At(d, "snapshot")
  /\ todo' = [todo EXCEPT ![d] = IF pending = {} THEN {e \in Effects : row[e] \in Nonterminal}
                                 ELSE pending]
  /\ flags' = [flags EXCEPT ![d] = IF pending = {} THEN {"stop"} ELSE {}]
  /\ Goto(d, "sweep")
  /\ UNCHANGED <<native, ledger, provider, world, guard, lease, job, seen, want, bounds>>

Stray == {e \in Effects : row[e] \in Nonterminal /\ e \notin pending}

(* _reconcile_inventory, _recover_missing_effect and the selection of one  *)
(* coordinate.                                                             *)
Inventory(d, e) ==
  /\ At(d, "sweep") /\ MaySee(d) /\ e \in todo[d]
  /\ IF \/ \E x \in Stray : row[x] \notin Settled
        \/ e \notin pending /\ row[e] = "absent"
     THEN Broken(d)
     ELSE /\ IF e \notin pending /\ row[e] = "delivered"
             THEN /\ todo' = [todo EXCEPT ![d] = @ \ {e}]
                  /\ UNCHANGED <<job, seen, pc>>
             ELSE /\ job' = [job EXCEPT ![d] = e]
                  /\ seen' = [seen EXCEPT ![d] = IF row[e] \in Nonterminal THEN row[e]
                                                 ELSE "absent"]
                  /\ Goto(d, IF e \in pending THEN "acquire" ELSE "missing")
                  /\ UNCHANGED todo
          /\ UNCHANGED <<lease, want, flags>> /\ Quiet
  /\ UNCHANGED <<native, ledger, provider, world, bounds>>

(* Some other process has the effect's lease, or a dead one had it. *)
Acquire(d) ==
  /\ At(d, "acquire") \/ At(d, "missing")
  /\ IF Free(job[d])
     THEN /\ Take(d, job[d])
          /\ Goto(d, IF At(d, "acquire") THEN "owned" ELSE "redeliver")
          /\ UNCHANGED drive /\ Quiet
     ELSE Busy(d)
  /\ UNCHANGED <<native, ledger, provider, world, bounds>>

(* The ledger's fence: current lease, unchanged revision. *)
Fenced(d, e) == lease[e] = d /\ row[e] = seen[d]

(* The graph has consumed the result; its row is closed. *)
Redeliver(d) ==
  /\ At(d, "redeliver")
  /\ IF row[job[d]] = "delivered" \/ Fenced(d, job[d])
     THEN /\ row' = [row EXCEPT ![job[d]] = "delivered"]
          /\ Report(d, {}) /\ Drop(d, {job[d]}) /\ Quiet
     ELSE Fail(d) /\ UNCHANGED row
  /\ UNCHANGED <<native, outcome, provider, world, bounds>>

-----------------------------------------------------------------------------
(* One decision on one effect, under its lease *)

(* _current_record_under_lease *)
Current(d) == lease[job[d]] = d /\ (seen[d] = "absent" \/ row[job[d]] = seen[d])

OwnedBusy(d) ==
  /\ At(d, "owned") /\ ~Current(d)
  /\ Busy(d)
  /\ UNCHANGED <<native, ledger, provider, world, bounds>>

Owned(d, e, phase) == At(d, "owned") /\ job[d] = e /\ Current(d) /\ row[e] = phase

(* The transition is decided; the ledger is written next. *)
Want(d, phase, result) ==
  /\ want' = [want EXCEPT ![d] = [phase |-> phase, outcome |-> result]]
  /\ seen' = [seen EXCEPT ![d] = row[job[d]]]
  /\ Goto(d, "write")
  /\ UNCHANGED <<todo, job, flags>>

Keep(d)        == UNCHANGED lease /\ Quiet
Blocked(d)     == Report(d, {"stop"}) /\ Drop(d, Keys) /\ Quiet
Unchanged4     == UNCHANGED <<native, ledger, world, bounds>>

PrepareNew(d, e) ==
  /\ Owned(d, e, "absent")
  /\ IF granted THEN Want(d, "prepared", None) /\ Keep(d) ELSE Fail(d)
  /\ UNCHANGED provider /\ Unchanged4

(* The deadline, then runner.prepare, which may reject for good. *)
Prepared(d, e) ==
  /\ Owned(d, e, "prepared")
  /\ IF late[e] THEN Want(d, "sealed", "deadline_timeout") /\ Keep(d) /\ UNCHANGED attempt
     ELSE IF ~granted THEN Fail(d) /\ UNCHANGED attempt
     ELSE \/ /\ attempt' = [attempt EXCEPT ![e] = IF @ = None THEN "prepared" ELSE @]
             /\ Want(d, "launching", None) /\ Keep(d)
          \/ Want(d, "sealed", "ERROR") /\ Keep(d) /\ UNCHANGED attempt
  /\ UNCHANGED <<recorded, ended, spawns>> /\ Unchanged4

(* What runner.inspect says.  An attempt whose launcher died before its    *)
(* state file was written is called absent until it ends.                  *)
Inspection(e) ==
  CASE attempt[e] = "terminal"                  -> "terminal"
    [] attempt[e] # "terminal" /\ ~recorded[e] -> "absent"
    [] attempt[e] = "running" /\ recorded[e]   -> "running"
    [] attempt[e] = "lost" /\ recorded[e]      -> "indeterminate"

Observed(d, observation) ==
  IF observation = "indeterminate" THEN Want(d, "indeterminate", "unknown")
                                   ELSE Want(d, "running", None)

(* Mutant: an absent launch is left alone after the deadline. *)
LaunchingExpiredBlocked(d, e) ==
  /\ Owned(d, e, "launching") /\ late[e]
  /\ IF Inspection(e) = "absent" THEN Blocked(d) ELSE Observed(d, Inspection(e)) /\ Keep(d)
  /\ UNCHANGED provider /\ Unchanged4

LaunchingExpired(d, e) ==
  /\ Owned(d, e, "launching") /\ late[e]
  /\ IF Inspection(e) = "absent" THEN Want(d, "sealed", "deadline_timeout")
                                 ELSE Observed(d, Inspection(e))
  /\ Keep(d)
  /\ UNCHANGED provider /\ Unchanged4

(* runner.prepare again, then the commitment of the launch. *)
Launching(d, e) ==
  /\ Owned(d, e, "launching") /\ ~late[e] /\ granted
  /\ seen' = [seen EXCEPT ![d] = "launching"]
  /\ Goto(d, "invoke")
  /\ UNCHANGED <<todo, job, want, flags>> /\ Keep(d)
  /\ UNCHANGED provider /\ Unchanged4

(* _reconcile_context: only EffectAuthorityDenied and -Unavailable lead to *)
(* the inspection of what was launched.                                    *)
LaunchingRefused(d, e) ==
  /\ Owned(d, e, "launching") /\ ~late[e] /\ ~granted
  /\ \/ /\ "denied" \in Refusals
        /\ IF Inspection(e) = "absent" THEN Blocked(d)
                                       ELSE Observed(d, Inspection(e)) /\ Keep(d)
     \/ "changed" \in Refusals /\ Fail(d)
  /\ UNCHANGED provider /\ Unchanged4

(* Mutant: the timeout is sealed without the proof of quiescence. *)
RunningUnproven(d, e) ==
  /\ Owned(d, e, "running")
  /\ IF attempt[e] = "lost" THEN Want(d, "indeterminate", "unknown") /\ Keep(d)
     ELSE IF late[e] THEN Want(d, "sealed", "deadline_timeout") /\ Keep(d)
     ELSE IF attempt[e] = "terminal" THEN Want(d, "sealed", ended[e]) /\ Keep(d)
     ELSE Blocked(d)
  /\ UNCHANGED provider /\ Unchanged4

(* After the deadline runner.cancel, before it runner.inspect; a result is *)
(* sealed only when runner.quiesce proves that nothing runs.               *)
Running(d, e) ==
  /\ Owned(d, e, "running")
  /\ IF attempt[e] = "lost" THEN Want(d, "indeterminate", "unknown") /\ Keep(d)
     ELSE IF attempt[e] # "terminal" THEN Blocked(d)
     ELSE Want(d, "sealed", IF late[e] THEN "deadline_timeout" ELSE ended[e]) /\ Keep(d)
  /\ UNCHANGED provider /\ Unchanged4

AwaitingDelivery(d) ==
  /\ At(d, "owned") /\ Current(d)
  /\ row[job[d]] \in Settled \cup {"delivered"}
  /\ Report(d, IF row[job[d]] \in Settled THEN {"deliver"} ELSE {"stop"})
  /\ Drop(d, {job[d]}) /\ Quiet
  /\ UNCHANGED provider /\ Unchanged4

(* A stale lease or revision is reported as busy, which reads the row     *)
(* again and fails when there is none.                                     *)
Write(d) ==
  /\ At(d, "write")
  /\ IF Fenced(d, job[d])
     THEN /\ row' = [row EXCEPT ![job[d]] = want[d].phase]
          /\ outcome' = [outcome EXCEPT ![job[d]] = want[d].outcome]
          /\ Report(d, IF want[d].phase \in {"running", "indeterminate"} THEN {"stop"} ELSE {})
          /\ Drop(d, {job[d]}) /\ Quiet
     ELSE (IF row[job[d]] = "absent" THEN Fail(d) ELSE Busy(d)) /\ UNCHANGED ledger
  /\ UNCHANGED <<native, provider, world, bounds>>

-----------------------------------------------------------------------------
(* _commit_runner_launch: the invocation lease, the last checks, then      *)
(* ensure_started under the commitment of the authority                    *)

(* A lease a dead process left on the thread is an error, not a wait. *)
TakeInvoke(d, next) ==
  IF Free("invoke")
  THEN Take(d, "invoke") /\ Goto(d, next) /\ UNCHANGED drive /\ Quiet
  ELSE Fail(d)

Invoke(d) ==
  /\ At(d, "invoke")
  /\ TakeInvoke(d, "commit")
  /\ UNCHANGED provider /\ Unchanged4

Withdraw(d) == /\ Report(d, {"stop"}) /\ Drop(d, Keys) /\ Quiet

Commit(d) ==
  /\ At(d, "commit")
  /\ IF job[d] \notin pending THEN Broken(d)
     ELSE IF late[job[d]] THEN Withdraw(d)
     ELSE Goto(d, "grant") /\ UNCHANGED <<drive, lease, guard>>
  /\ UNCHANGED provider /\ Unchanged4

(* Mutant: the authority is not asked again inside the guard. *)
GrantUnasked(d) ==
  /\ At(d, "grant")
  /\ IF late[job[d]] THEN Fail(d)
     ELSE IF ~Fenced(d, job[d]) THEN Withdraw(d)
     ELSE Goto(d, "start") /\ UNCHANGED <<drive, lease, guard>>
  /\ UNCHANGED provider /\ Unchanged4

(* The request is built again; a deadline that passes right here leaves    *)
(* none and is taken for a changed request.  Then row and lease are read   *)
(* and the authority's commitment is entered.                              *)
Grant(d) ==
  /\ At(d, "grant")
  /\ IF late[job[d]] \/ ~granted THEN Fail(d)
     ELSE IF ~Fenced(d, job[d]) THEN Withdraw(d)
     ELSE Goto(d, "start") /\ UNCHANGED <<drive, lease, guard>>
  /\ UNCHANGED provider /\ Unchanged4

(* runner.ensure_started: it may refuse, start the worker, adopt a start   *)
(* that a dead launcher did not record, or only observe.                   *)
Start(d, e) ==
  /\ At(d, "start") /\ job[d] = e
  /\ \/ /\ ~recorded[e]
        /\ Fail(d)
        /\ UNCHANGED provider
     \/ /\ ~late[e] /\ ~recorded[e] /\ attempt[e] = "prepared"
        /\ attempt' = [attempt EXCEPT ![e] = "running"]
        /\ spawns' = [spawns EXCEPT ![e] = @ + 1]
        /\ Goto(d, "record")
        /\ UNCHANGED <<recorded, ended, drive, lease, guard>>
     \/ /\ ~late[e] /\ ~recorded[e] /\ attempt[e] = "running"
        /\ Goto(d, "record")
        /\ UNCHANGED <<provider, drive, lease, guard>>
     \/ /\ recorded[e]
        /\ IF late[e] THEN Fail(d)
           ELSE Goto(d, "finish") /\ UNCHANGED <<drive, lease, guard>>
        /\ UNCHANGED provider
  /\ Unchanged4

Record(d) ==
  /\ At(d, "record")
  /\ recorded' = [recorded EXCEPT ![job[d]] = TRUE]
  /\ Goto(d, "finish")
  /\ UNCHANGED <<attempt, ended, spawns, drive, lease, guard>> /\ Unchanged4

Finish(d) ==
  /\ At(d, "finish")
  /\ Observed(d, Inspection(job[d]))
  /\ Drop(d, {"invoke"}) /\ Quiet
  /\ UNCHANGED <<provider>> /\ Unchanged4

-----------------------------------------------------------------------------
(* _decision after the sweep, and deliver_ready *)

Rest(d) == Forget(d) /\ LeaveGuard(d) /\ Goto(d, "idle")

Again(d) == IF "stop" \in flags[d] THEN Rest(d)
            ELSE Forget(d) /\ Goto(d, "snapshot") /\ Quiet

(* Only when every report says delivered is the watch acknowledged. *)
SettleDone(d) ==
  /\ At(d, "sweep") /\ todo[d] = {} /\ "settle" \in flags[d]
  /\ watch' = (watch /\ "stop" \in flags[d])
  /\ Rest(d)
  /\ UNCHANGED <<native, ledger, provider, late, granted, lease, bounds>>

Decide(d) ==
  /\ At(d, "sweep") /\ todo[d] = {} /\ "settle" \notin flags[d]
  /\ IF "deliver" \in flags[d]
     THEN Goto(d, "ready") /\ UNCHANGED <<drive, guard>>
     ELSE Again(d)
  /\ UNCHANGED <<native, ledger, provider, world, lease, bounds>>

Deliverable(e) == e \in pending /\ row[e] \in Settled

Ready(d) ==
  /\ At(d, "ready")
  /\ todo' = [todo EXCEPT ![d] = {e \in Effects : Deliverable(e)}]
  /\ Goto(d, IF \E e \in Effects : Deliverable(e) THEN "lock" ELSE "mark")
  /\ UNCHANGED <<native, ledger, provider, world, guard, lease, job, seen, want, flags,
                 bounds>>

Held(d) == {e \in todo[d] : lease[e] = d}

(* Every lease or none. *)
Lock(d, e) ==
  /\ At(d, "lock") /\ e \in todo[d] \ Held(d)
  /\ IF Free(e) /\ row[e] \in Settled
     THEN Take(d, e) /\ UNCHANGED <<pc, drive, guard>>
     ELSE Rest(d) /\ Drop(d, Keys)
  /\ UNCHANGED <<native, ledger, provider, world, bounds>>

InvokeResume(d) ==
  /\ At(d, "lock") /\ todo[d] = Held(d)
  /\ TakeInvoke(d, "resume")
  /\ UNCHANGED <<native, ledger, provider, world, bounds>>

Given(S) == [e \in Effects |-> IF e \in S THEN Append(applied[e], outcome[e]) ELSE applied[e]]

(* Mutant: the graph keeps its interrupts. *)
ResumeKeeps(d) ==
  /\ At(d, "resume")
  /\ applied' = Given(todo[d])
  /\ Drop(d, {"invoke"}) /\ Quiet /\ Goto(d, "mark")
  /\ UNCHANGED <<pending, future, ledger, provider, world, drive, bounds>>

(* runtime.resume: membership is checked under the invocation lease; one   *)
(* commit consumes the interrupts and may ask for further effects.  A      *)
(* decision that leaves a source pending ends the drive.                   *)
Resume(d) ==
  /\ At(d, "resume")
  /\ IF ~(todo[d] \subseteq pending)
     THEN Broken(d) /\ UNCHANGED native
     ELSE /\ \E asked \in SUBSET future :
               /\ pending' = (pending \ todo[d]) \cup asked
               /\ future' = future \ asked
          /\ applied' = Given(todo[d])
          /\ flags' = [flags EXCEPT ![d] = @ \cup (IF todo[d] # pending THEN {"stop"} ELSE {})]
          /\ Drop(d, {"invoke"}) /\ Quiet /\ Goto(d, "mark")
          /\ UNCHANGED <<todo, job, seen, want>>
  /\ UNCHANGED <<ledger, provider, world, bounds>>

(* mark_delivered: nothing to do when another process did it. *)
Mark(d, e) ==
  /\ At(d, "mark") /\ e \in todo[d]
  /\ IF row[e] = "delivered" \/ (lease[e] = d /\ row[e] \in Settled)
     THEN /\ row' = [row EXCEPT ![e] = "delivered"]
          /\ todo' = [todo EXCEPT ![d] = @ \ {e}]
          /\ UNCHANGED <<job, seen, want, flags, pc, lease, guard>>
     ELSE Fail(d) /\ UNCHANGED row
  /\ UNCHANGED <<native, outcome, provider, world, bounds>>

Delivered(d) ==
  /\ At(d, "mark") /\ todo[d] = {}
  /\ Again(d) /\ Drop(d, Keys)
  /\ UNCHANGED <<native, ledger, provider, world, bounds>>

-----------------------------------------------------------------------------
(* The world: workers, deadlines, the owner, leases and deaths *)

WorldStep == UNCHANGED <<native, ledger, guard, pc, drive>>

End(e, how) ==
  /\ attempt[e] = "running"
  /\ attempt' = [attempt EXCEPT ![e] = "terminal"]
  /\ ended' = [ended EXCEPT ![e] = how]
  /\ UNCHANGED <<recorded, spawns, world, lease, bounds>> /\ WorldStep

WorkerEnds(e) == End(e, "PASS") \/ End(e, "ERROR")

(* The supervisor ends every worker at its deadline. *)
DeadlineKill(e) == late[e] /\ End(e, "deadline_timeout")

SupervisorLost(e) ==
  /\ attempt[e] = "running" /\ crashes < MaxCrashes
  /\ attempt' = [attempt EXCEPT ![e] = "lost"]
  /\ crashes' = crashes + 1
  /\ UNCHANGED <<recorded, ended, spawns, world, lease, stalls>> /\ WorldStep

Deadline(e) ==
  /\ row[e] # "absent" /\ ~late[e]
  /\ late' = [late EXCEPT ![e] = TRUE]
  /\ UNCHANGED <<provider, granted, watch, lease, bounds>> /\ WorldStep

(* The owner's snapshot is locked while a commitment lasts. *)
Revoke ==
  /\ granted /\ \A d \in Drivers : pc[d] \notin {"start", "record"}
  /\ granted' = FALSE
  /\ UNCHANGED <<provider, late, watch, lease, bounds>> /\ WorldStep

ExpireGhost(k) ==
  /\ lease[k] = Ghost
  /\ lease' = [lease EXCEPT ![k] = None]
  /\ UNCHANGED <<provider, world, bounds>> /\ WorldStep

(* A holder takes longer than the time to live. *)
Stall(k) ==
  /\ lease[k] \in Drivers /\ stalls < MaxStalls
  /\ lease' = [lease EXCEPT ![k] = None]
  /\ stalls' = stalls + 1
  /\ UNCHANGED <<provider, world, crashes>> /\ WorldStep

Crash(d) ==
  /\ pc[d] \notin {"idle", "down", "broken", "dead"} /\ crashes < MaxCrashes
  /\ crashes' = crashes + 1
  /\ lease' = [k \in Keys |-> IF lease[k] = d THEN Ghost ELSE lease[k]]
  /\ LeaveGuard(d) /\ Forget(d) /\ Goto(d, "dead")
  /\ UNCHANGED <<native, ledger, provider, world, stalls>>

(* A new process takes the place of the dead one, *)
Restart(d) ==
  /\ At(d, "dead")
  /\ Goto(d, "idle")
  /\ UNCHANGED <<native, ledger, provider, world, guard, lease, drive, bounds>>

(* or of the one whose pump has stopped. *)
Replace(d) ==
  /\ At(d, "down") /\ crashes < MaxCrashes
  /\ crashes' = crashes + 1
  /\ Goto(d, "idle")
  /\ UNCHANGED <<native, ledger, provider, world, guard, lease, drive, stalls>>

Step(d) ==
  \/ Drive(d) \/ Settle(d) \/ Snapshot(d) \/ Acquire(d) \/ Redeliver(d)
  \/ OwnedBusy(d) \/ AwaitingDelivery(d) \/ Write(d)
  \/ Invoke(d) \/ Commit(d) \/ Grant(d) \/ Record(d) \/ Finish(d)
  \/ SettleDone(d) \/ Decide(d) \/ Ready(d) \/ InvokeResume(d) \/ Resume(d) \/ Delivered(d)
  \/ \E e \in Effects :
       \/ Inventory(d, e) \/ PrepareNew(d, e) \/ Prepared(d, e) \/ LaunchingExpired(d, e)
       \/ Launching(d, e) \/ LaunchingRefused(d, e) \/ Running(d, e) \/ Start(d, e)
       \/ Lock(d, e) \/ Mark(d, e)

Next ==
  \/ \E d \in Drivers : Step(d) \/ LockTimeout(d) \/ Crash(d) \/ Restart(d) \/ Replace(d)
  \/ \E e \in Effects : WorkerEnds(e) \/ DeadlineKill(e) \/ SupervisorLost(e) \/ Deadline(e)
  \/ \E k \in Keys : ExpireGhost(k) \/ Stall(k)
  \/ Revoke

(* Completion pumps run, deadlines come, supervisors keep them, and leases *)
(* of the dead expire.  Workers, owners and restarts owe nothing.          *)
Fairness ==
  /\ \A d \in Drivers : WF_vars(Step(d))
  /\ \A e \in Effects : WF_vars(Deadline(e)) /\ WF_vars(DeadlineKill(e))
  /\ \A k \in Keys : WF_vars(ExpireGhost(k))

Spec == Init /\ [][Next]_vars /\ Fairness

-----------------------------------------------------------------------------
TypeOK ==
  /\ pending \subseteq Effects /\ future \subseteq Effects
  /\ applied \in [Effects -> Seq(Outcomes)]
  /\ row \in [Effects -> Phases] /\ outcome \in [Effects -> Outcomes \cup {None}]
  /\ attempt \in [Effects -> Attempts] /\ recorded \in [Effects -> BOOLEAN]
  /\ ended \in [Effects -> Outcomes \cup {None}] /\ spawns \in [Effects -> Nat]
  /\ late \in [Effects -> BOOLEAN] /\ granted \in BOOLEAN /\ watch \in BOOLEAN
  /\ guard \in Drivers \cup {None}
  /\ lease \in [Keys -> Drivers \cup {None, Ghost}]
  /\ pc \in [Drivers -> Steps]
  /\ todo \in [Drivers -> SUBSET Effects] /\ job \in [Drivers -> Effects \cup {None}]
  /\ seen \in [Drivers -> Phases]
  /\ want \in [Drivers -> [phase : Phases, outcome : Outcomes \cup {None}]]
  /\ flags \in [Drivers -> SUBSET {"stop", "deliver", "settle"}]
  /\ crashes \in 0 .. MaxCrashes /\ stalls \in 0 .. MaxStalls

(***************************************************************************)
(* What the graph was given is what the ledger says, and only what the     *)
(* graph was given is called delivered: neither a crash between the native *)
(* commit and mark_delivered nor a concurrent settlement loses or invents  *)
(* a result.                                                               *)
(***************************************************************************)
GraphMatchesLedger ==
  \A e \in Effects :
    /\ applied[e] # <<>> => applied[e] = <<outcome[e]>> /\ row[e] \in Settled \cup {"delivered"}
    /\ row[e] = "delivered" => applied[e] # <<>>

(***************************************************************************)
(* A sealed effect has nothing running: the worker is gone, was never      *)
(* started, or was started by a launcher that died before it could say so. *)
(***************************************************************************)
SealedIsQuiescent ==
  \A e \in Effects : row[e] = "sealed" /\ attempt[e] = "running" => ~recorded[e]

(* A recovery that follows the graph never finds a row that contradicts    *)
(* it: no drive ends with a lineage error.                                 *)
LineageNeverBreaks == \A d \in Drivers : ~At(d, "broken")

(* The run-drive watch is given up only when no row needs recovery.        *)
AcknowledgedMeansSettled == ~watch => \A e \in Effects : row[e] \in {"absent", "delivered"}

(* A worker is started only for a launch the ledger has committed to, that *)
(* the graph still waits for, before its deadline and under a grant.       *)
LaunchIsCommitted ==
  [][\A e \in Effects :
       spawns'[e] > spawns[e]
         => row[e] = "launching" /\ e \in pending /\ ~late[e] /\ granted]_vars

(* The ledger, the provider and the graph together keep the run's promise. *)
Promise == INSTANCE RunPromise WITH
  Earned <- {"PASS"}, started <- spawns,
  decided <- outcome, applied <- applied

KeepsRunPromise == Promise!Spec

(***************************************************************************)
(* Whatever crashes, expires or is revoked, an effect the graph waits for  *)
(* is answered, as long as the completion pump of one process is alive.    *)
(***************************************************************************)
EveryEffectAnswered ==
  \A e \in Effects :
    e \in pending ~> (e \notin pending \/ \A d \in Drivers : pc[d] \in {"down", "broken", "dead"})

(***************************************************************************)
(* What the ledger says of an effect is so in the graph, in its worker and *)
(* in the watch of its run, through crashes, and no drive that recovers    *)
(* from it finds a contradiction.                                          *)
(***************************************************************************)
LedgerIsTrue ==
  /\ TypeOK /\ GraphMatchesLedger /\ SealedIsQuiescent
  /\ AcknowledgedMeansSettled /\ LineageNeverBreaks
=============================================================================
