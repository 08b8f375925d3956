------------------------------- MODULE RunDrive -------------------------------
(***************************************************************************)
(* Who drives a run (engine_drive_service.py, the effect-drive and pump    *)
(* capabilities of the command service, and the run-drive recovery).       *)
(* Server processes share the runs and their watches.  In each process one *)
(* lock, _admission_recovery_lock, serializes commands, the drain of the   *)
(* completion queue and the recovery sweep; a bounded set of slots says    *)
(* which runs the process keeps driving.  What one decision does to the    *)
(* effects of a run is EffectCoordinator's subject: here a run is where    *)
(* its graph waits, and a BUSY effect is one that did not move.            *)
(***************************************************************************)
EXTENDS Integers, Sequences, FiniteSets, Functions

CONSTANTS
  Runs,
  Servers,       \* processes that open the owner state for writing
  Capacity,      \* _MAX_ACTIVE_EFFECT_RUNS, the limit of a sweep as well
  MaxWaits,      \* BOUND: effects and worker steps of one run
  MaxFaults      \* BOUND: drives that raise and processes that die

ASSUME RunDriveAssumption ==
  /\ IsFiniteSet(Runs)
  /\ Capacity \in Nat \ {0}
  /\ MaxWaits \in Nat /\ MaxFaults \in Nat
  /\ "none" \notin Runs \cup Servers

VARIABLES
  graph,      \* run -> where its graph is
  left,       \* run -> effects and worker steps it may still come to
  mixed,      \* run -> does an interrupt without a runner wait beside its effect
  seq,        \* run -> admission_seq of its watch, 0 without one
  guard,      \* run -> the process in its invocation lock
  up,         \* process -> is its writable core open
  active,     \* process -> runs that occupy a slot
  queued,     \* process -> runs marked for the next drain
  queue,      \* process -> the completion queue
  bound,      \* process -> runs whose native app is open
  owned,      \* process -> bindings to close when their slot is given back
  wake,       \* process -> has the pump been woken
  pump,       \* process -> where its completion pump is
  at,         \* process -> next step of the holder of the admission lock
  by,         \* process -> what the holder is doing
  cur,        \* process -> the run in hand
  todo,       \* process -> runs still to look at
  mine,       \* process -> what this drive has taken or accepted
  count,      \* process -> watches accepted by the sweep
  failures, crashes

durable == <<graph, left, mixed, seq>>
slots   == <<active, queued, queue>>
binds   == <<bound, owned>>
work    == <<by, cur, todo, mine, count>>
bounds  == <<failures, crashes>>
vars    == <<durable, guard, up, slots, binds, wake, pump, at, work, bounds>>

None == "none"

Waiting  == {"effect", "attempt", "observed"}      \* on an effect with a runner
Stages   == {"absent", "admitted", "worker", "done"} \cup Waiting
Commands == {"start", "submit"}
Sweeps   == {"open", "sweep", "recover"}
Marks    == {"slot", "binding", "accepted"}

Init ==
  /\ graph = [r \in Runs |-> "absent"]
  /\ left = [r \in Runs |-> MaxWaits]
  /\ mixed = [r \in Runs |-> FALSE]
  /\ seq = [r \in Runs |-> 0]
  /\ guard = [r \in Runs |-> None]
  /\ up = [s \in Servers |-> FALSE]
  /\ active = [s \in Servers |-> {}] /\ queued = [s \in Servers |-> {}]
  /\ queue = [s \in Servers |-> <<>>]
  /\ bound = [s \in Servers |-> {}] /\ owned = [s \in Servers |-> {}]
  /\ wake = [s \in Servers |-> FALSE]
  /\ pump = [s \in Servers |-> "off"]
  /\ at = [s \in Servers |-> "free"]
  /\ by = [s \in Servers |-> None] /\ cur = [s \in Servers |-> None]
  /\ todo = [s \in Servers |-> <<>>]
  /\ mine = [s \in Servers |-> {}] /\ count = [s \in Servers |-> 0]
  /\ failures = 0 /\ crashes = 0

-----------------------------------------------------------------------------
(* The parts of a step *)

Put(f, i, x) == [f EXCEPT ![i] = x]
Goto(s, step) == at' = Put(at, s, step)

(* The members of S in the order of their ranks, all different. *)
Ordered(S, rank) ==
  {w \in [1 .. Cardinality(S) -> S] :
     \A i, j \in DOMAIN w : i < j => rank[w[i]] < rank[w[j]]}

(* The graph goes on from its start, an answered effect or a worker's      *)
(* result.  Where branches run side by side, a worker's step or a scope    *)
(* may wait beside the effect.                                             *)
Advance(r) ==
  \/ /\ graph' = Put(graph, r, "done")
     /\ mixed' = Put(mixed, r, FALSE)
     /\ UNCHANGED left
  \/ /\ left[r] > 0 /\ left' = Put(left, r, left[r] - 1)
     /\ \/ graph' = Put(graph, r, "worker") /\ mixed' = Put(mixed, r, FALSE)
        \/ graph' = Put(graph, r, "effect") /\ mixed' \in {Put(mixed, r, b) : b \in BOOLEAN}

(* _reserve_effect_run *)
Available(s, r) == r \in active[s] \/ Cardinality(active[s]) < Capacity

(* _activate_effect_run: a slot, one entry in the queue, and the wakeup.   *)
Activate(s, r) ==
  /\ active' = Put(active, s, active[s] \cup {r})
  /\ queued' = Put(queued, s, queued[s] \cup {r})
  /\ queue' = IF r \in queued[s] THEN queue ELSE Put(queue, s, Append(queue[s], r))
  /\ wake' = Put(wake, s, TRUE)

(* Mutant: only the mark goes, the slot stays. *)
DeactivateMark(s, r) ==
  /\ queued' = Put(queued, s, queued[s] \ {r})
  /\ UNCHANGED <<active, queue, wake>>

(* _deactivate_effect_run: the entry stays in the queue and is skipped.    *)
Deactivate(s, r) ==
  /\ active' = Put(active, s, active[s] \ {r})
  /\ queued' = Put(queued, s, queued[s] \ {r})
  /\ UNCHANGED <<queue, wake>>

(* Mutant: a use that opened the binding closes it, whoever drives the run. *)
FinishAtOnce(s, r, occupied) ==
  /\ bound' = Put(bound, s, IF "binding" \in mine[s] \/ r \notin occupied THEN bound[s] \ {r} ELSE bound[s])
  /\ owned' = Put(owned, s, IF r \in occupied THEN owned[s] \cup {r} ELSE owned[s] \ {r})

(* _release_inactive_effect_binding and _finish_owned_effect_binding, which *)
(* find the active set `occupied`.                                         *)
Finish(s, r, occupied) ==
  /\ bound' = Put(bound, s, IF r \notin occupied /\ (r \in owned[s] \/ "binding" \in mine[s])
                            THEN bound[s] \ {r} ELSE bound[s])
  /\ owned' = Put(owned, s, IF r \notin occupied THEN owned[s] \ {r}
                            ELSE IF "binding" \in mine[s] THEN owned[s] \cup {r} ELSE owned[s])

Bind(s, r) == bound' = Put(bound, s, bound[s] \cup {r})

Unlock(s) ==
  /\ Goto(s, "free")
  /\ by' = Put(by, s, None) /\ cur' = Put(cur, s, None) /\ todo' = Put(todo, s, <<>>)
  /\ mine' = Put(mine, s, {}) /\ count' = Put(count, s, 0)

(* On to the next run of the drain or the sweep. *)
LookOn(s, step) ==
  /\ Goto(s, step)
  /\ cur' = Put(cur, s, None) /\ mine' = Put(mine, s, {})
  /\ UNCHANGED <<by, todo, count>>

Free(s) == up[s] /\ at[s] = "free"

Take(s, what, r, first) ==
  /\ by' = Put(by, s, what) /\ cur' = Put(cur, s, r) /\ Goto(s, first)
  /\ mine' = Put(mine, s, IF r \in bound[s] THEN {} ELSE {"binding"})

-----------------------------------------------------------------------------
(* Commands *)

(* admit_start: the run and its watch are one transaction. *)
AdmitStart(r) ==
  /\ graph[r] = "absent"
  /\ graph' = Put(graph, r, "admitted")
  /\ seq' = Put(seq, r, 1 + Cardinality({q \in Runs : graph[q] # "absent"}))
  /\ UNCHANGED <<left, mixed>>

Start(s, r) ==
  /\ Free(s)
  /\ AdmitStart(r)
  /\ Bind(s, r)
  /\ Take(s, "start", r, "start")
  /\ UNCHANGED <<guard, up, slots, owned, wake, pump, todo, count, bounds>>

(* A start under an owner's runtime policy persists the admission only.    *)
Park(s, r) ==
  /\ Free(s)
  /\ AdmitStart(r)
  /\ UNCHANGED <<guard, up, slots, binds, wake, pump, at, work, bounds>>

(* Without a free slot the start ends here and leaves the run to a sweep.  *)
StartWithoutSlot(s) ==
  /\ at[s] = "start" /\ ~Available(s, cur[s])
  /\ Finish(s, cur[s], active[s])
  /\ Unlock(s)
  /\ UNCHANGED <<durable, guard, up, slots, wake, pump, bounds>>

(* ensure_started finds the checkpoint of another process's sweep as well. *)
StartGraph(s) ==
  LET r == cur[s] IN
  /\ at[s] = "start" /\ Available(s, r) /\ guard[r] = None
  /\ active' = Put(active, s, active[s] \cup {r})
  /\ IF graph[r] = "admitted" THEN Advance(r) ELSE UNCHANGED <<graph, left, mixed>>
  /\ guard' = Put(guard, r, s)
  /\ Goto(s, "drive")
  /\ UNCHANGED <<seq, up, queued, queue, binds, wake, pump, work, bounds>>

(* A worker's result, submitted by the session that owns the run.          *)
Submit(s, r) ==
  /\ Free(s) /\ graph[r] = "worker" /\ guard[r] = None
  /\ Advance(r)
  /\ guard' = Put(guard, r, s)
  /\ Bind(s, r)
  /\ Take(s, "submit", r, "drive")
  /\ UNCHANGED <<seq, up, slots, owned, wake, pump, todo, count, bounds>>

-----------------------------------------------------------------------------
(* One drive, under the run's invocation lock: decisions until it settles. *)

(* It returns to whoever began it, with or without an accepted attempt;    *)
(* `occupied` is the active set it leaves.                                 *)
DriveEnds(s, occupied, ok) ==
  /\ guard' = Put(guard, cur[s], None)
  /\ Finish(s, cur[s], occupied)
  /\ CASE by[s] \in Commands         -> Unlock(s)
       [] by[s] = "drain"            -> LookOn(s, "next_run")
       [] by[s] \in Sweeps /\ ~ok     -> LookOn(s, "next_watch")
       [] by[s] \in Sweeps /\ ok      -> Goto(s, "settle") /\ UNCHANGED work

Driving(s, waits) == at[s] = "drive" /\ graph[cur[s]] \in waits

(* Nothing for the engine to do: the slot is given back. *)
DecideSettled(s) ==
  /\ Driving(s, {"worker", "done"})
  /\ Deactivate(s, cur[s])
  /\ DriveEnds(s, active[s] \ {cur[s]}, "accepted" \in mine[s])
  /\ UNCHANGED <<durable, up, pump, bounds>>

DecideNoSlot(s) ==
  /\ Driving(s, Waiting) /\ ~Available(s, cur[s])
  /\ DriveEnds(s, active[s], "accepted" \in mine[s])
  /\ UNCHANGED <<durable, up, slots, wake, pump, bounds>>

(* An attempt under way: the run stays active and is looked at again.      *)
DecideRunning(s) ==
  /\ Driving(s, {"attempt"}) /\ Available(s, cur[s])
  /\ Activate(s, cur[s])
  /\ DriveEnds(s, active[s] \cup {cur[s]}, TRUE)
  /\ UNCHANGED <<durable, up, pump, bounds>>

(* The effect is prepared and launched, or its result sealed and delivered, *)
(* and the drive decides again.                                            *)
DecideOn(s) ==
  LET r == cur[s] IN
  /\ Driving(s, {"effect", "observed"}) /\ Available(s, r)
  /\ Activate(s, r)
  /\ mine' = Put(mine, s, mine[s] \cup {"accepted"} \cup (IF r \in active[s] THEN {} ELSE {"slot"}))
  /\ IF graph[r] = "effect"
     THEN graph' = Put(graph, r, "attempt") /\ UNCHANGED <<left, mixed>>
     ELSE Advance(r)
  /\ UNCHANGED <<seq, guard, up, binds, pump, at, by, cur, todo, count, bounds>>

(* Beside an interrupt that stays where it is (a worker's step does) one   *)
(* decision on the effect is all: with nothing running or busy the drive   *)
(* is over and the slot given back, though the effect is not answered.     *)
DecideMixed(s) ==
  /\ Driving(s, {"effect", "observed"}) /\ Available(s, cur[s]) /\ mixed[cur[s]]
  /\ Deactivate(s, cur[s])
  /\ DriveEnds(s, active[s] \ {cur[s]}, TRUE)
  /\ UNCHANGED <<durable, up, pump, bounds>>

(* A drive raises after it has its slot.  A start gives the slot back that *)
(* it did not queue, a recovered drive one that it took itself, a          *)
(* submission keeps it; in the drain, and in a sweep unless the error is   *)
(* one of the run's integrity, the pump is over.                           *)
DriveRaises(s) ==
  LET r    == cur[s]
      took == "slot" \in mine[s] \/ r \notin active[s]
      back == (by[s] \in Sweeps /\ took) \/ (by[s] = "start" /\ r \notin queued[s])
      kept == IF back THEN active[s] \ {r} ELSE active[s] \cup {r}
  IN
  /\ Driving(s, Waiting) /\ Available(s, r)
  /\ failures + crashes < MaxFaults /\ failures' = failures + 1
  /\ active' = Put(active, s, kept)
  /\ queued' = IF back THEN Put(queued, s, queued[s] \ {r}) ELSE queued
  /\ guard' = Put(guard, r, None)
  /\ Finish(s, r, kept)
  /\ \/ /\ by[s] \in Commands \cup {"recover", "drain", "sweep"}
        /\ Unlock(s)
        /\ pump' = IF by[s] \in {"drain", "sweep"} THEN Put(pump, s, "failed") ELSE pump
     \/ /\ by[s] \in Sweeps
        /\ LookOn(s, "next_watch")
        /\ UNCHANGED pump
  /\ UNCHANGED <<durable, up, queue, wake, crashes>>

-----------------------------------------------------------------------------
(* The completion pump: wait, drain the queue, sweep. *)

PumpWaits(s) ==
  /\ up[s] /\ pump[s] = "wait"
  /\ pump' = Put(pump, s, IF wake[s] THEN "woken" ELSE "ticked")
  /\ wake' = Put(wake, s, FALSE)
  /\ UNCHANGED <<durable, guard, up, slots, binds, at, work, bounds>>

(* _take_active_effect_runs: the marked runs, by their first entry.        *)
Marked(s) == queued[s] \cap Range(queue[s])

FirstEntry(s) ==
  [r \in Marked(s) |->
     CHOOSE i \in DOMAIN queue[s] :
       queue[s][i] = r /\ \A j \in 1 .. i - 1 : queue[s][j] # r]

Drain(s) ==
  /\ Free(s) /\ pump[s] \in {"woken", "ticked"}
  /\ \E w \in Ordered(Marked(s), FirstEntry(s)) : todo' = Put(todo, s, w)
  /\ queued' = Put(queued, s, queued[s] \ Marked(s))
  /\ queue' = Put(queue, s, <<>>)
  /\ pump' = Put(pump, s, IF Marked(s) # {} THEN "ticked" ELSE pump[s])
  /\ Goto(s, "next_run")
  /\ by' = Put(by, s, "drain")
  /\ UNCHANGED <<durable, guard, up, active, binds, wake, cur, mine, count, bounds>>

(* The result of bind is ignored: an entry of the queue is bound already.  *)
NextRun(s) ==
  LET r == Head(todo[s]) IN
  /\ at[s] = "next_run" /\ todo[s] # <<>> /\ guard[r] = None
  /\ guard' = Put(guard, r, s)
  /\ Bind(s, r)
  /\ cur' = Put(cur, s, r) /\ todo' = Put(todo, s, Tail(todo[s]))
  /\ mine' = Put(mine, s, {})
  /\ Goto(s, "drive")
  /\ UNCHANGED <<durable, up, slots, owned, wake, pump, by, count, bounds>>

(* An explicit wakeup that found nothing does not sweep.                   *)
Drained(s) ==
  /\ at[s] = "next_run" /\ todo[s] = <<>>
  /\ Unlock(s)
  /\ pump' = Put(pump, s, IF pump[s] = "ticked" THEN "sweep" ELSE "wait")
  /\ UNCHANGED <<durable, guard, up, slots, binds, wake, bounds>>

-----------------------------------------------------------------------------
(* The recovery sweep over a fixed population of watches *)

Watches == {r \in Runs : seq[r] # 0}

BeginSweep(s, what, excluded) ==
  /\ \E w \in Ordered(Watches \ {excluded}, seq) : todo' = Put(todo, s, w)
  /\ by' = Put(by, s, what)
  /\ Goto(s, "next_watch")

Sweep(s) ==
  /\ Free(s) /\ pump[s] = "sweep"
  /\ BeginSweep(s, "sweep", None)
  /\ UNCHANGED <<durable, guard, up, slots, binds, wake, pump, cur, mine, count, bounds>>

(* scenario_recover *)
Recover(s) ==
  /\ Free(s) /\ pump[s] # "off"
  /\ BeginSweep(s, "recover", None)
  /\ UNCHANGED <<durable, guard, up, slots, binds, wake, pump, cur, mine, count, bounds>>

(* A first command opens the writable core, sweeps and then starts the     *)
(* pump.  The start that opens it may have parked its run, which the first *)
(* sweep leaves out.                                                       *)
Open(s) ==
  /\ ~up[s]
  /\ up' = Put(up, s, TRUE)
  /\ \E r \in {q \in Runs : graph[q] = "admitted"} \cup {None} : BeginSweep(s, "open", r)
  /\ UNCHANGED <<durable, guard, slots, binds, wake, pump, cur, mine, count, bounds>>

(* A watched run without a checkpoint is started from its input blob.      *)
WatchStarts(s) ==
  LET r == Head(todo[s]) IN
  /\ at[s] = "next_watch" /\ todo[s] # <<>> /\ count[s] < Capacity
  /\ graph[r] = "admitted" /\ guard[r] = None
  /\ Advance(r)
  /\ UNCHANGED <<seq, guard, up, slots, binds, wake, pump, at, work, bounds>>

(* A run is driven that waits for one protected interrupt, or for several  *)
(* which are all effects with a runner.                                    *)
WatchDrives(s) ==
  LET r == Head(todo[s]) IN
  /\ at[s] = "next_watch" /\ todo[s] # <<>> /\ count[s] < Capacity
  /\ graph[r] \in Waiting \cup {"worker"} /\ ~mixed[r] /\ guard[r] = None
  /\ guard' = Put(guard, r, s)
  /\ Bind(s, r)
  /\ cur' = Put(cur, s, r) /\ todo' = Put(todo, s, Tail(todo[s]))
  /\ mine' = Put(mine, s, IF r \in bound[s] THEN {} ELSE {"binding"})
  /\ Goto(s, "drive")
  /\ UNCHANGED <<durable, up, slots, owned, wake, pump, by, count, bounds>>

(* Any other is passed by: an unprotected step, several steps of a worker, *)
(* an effect with something else beside it.                                *)
WatchSkips(s) ==
  LET r == Head(todo[s]) IN
  /\ at[s] = "next_watch" /\ todo[s] # <<>> /\ count[s] < Capacity
  /\ mixed[r] \/ graph[r] = "worker"
  /\ todo' = Put(todo, s, Tail(todo[s]))
  /\ UNCHANGED <<durable, guard, up, slots, binds, wake, pump, at, by, cur, mine, count, bounds>>

WatchIsDone(s) ==
  LET r == Head(todo[s]) IN
  /\ at[s] = "next_watch" /\ todo[s] # <<>> /\ count[s] < Capacity
  /\ graph[r] = "done"
  /\ cur' = Put(cur, s, r) /\ todo' = Put(todo, s, Tail(todo[s]))
  /\ Goto(s, "ack")
  /\ UNCHANGED <<durable, guard, up, slots, binds, wake, pump, by, mine, count, bounds>>

(* Mutant: an accepted drive settles the watch whatever the run waits for. *)
SettleAlways(s) ==
  /\ at[s] = "settle"
  /\ count' = Put(count, s, count[s] + 1)
  /\ Goto(s, "ack")
  /\ UNCHANGED <<durable, guard, up, slots, binds, wake, pump, by, cur, todo, mine, bounds>>

(* _settle_after_accepted_drive reads the graph again. *)
Settle(s) ==
  /\ at[s] = "settle"
  /\ count' = Put(count, s, count[s] + 1)
  /\ Goto(s, IF graph[cur[s]] = "done" THEN "ack" ELSE "next_watch")
  /\ cur' = IF graph[cur[s]] = "done" THEN cur ELSE Put(cur, s, None)
  /\ mine' = Put(mine, s, {})
  /\ UNCHANGED <<durable, guard, up, slots, binds, wake, pump, by, todo, bounds>>

Acknowledge(s) ==
  /\ at[s] = "ack"
  /\ seq' = Put(seq, cur[s], 0)
  /\ LookOn(s, "next_watch")
  /\ UNCHANGED <<graph, left, mixed, guard, up, slots, binds, wake, pump, bounds>>

Swept(s) ==
  /\ at[s] = "next_watch" /\ (todo[s] = <<>> \/ count[s] = Capacity)
  /\ Unlock(s)
  /\ pump' = IF by[s] = "recover" THEN pump ELSE Put(pump, s, "wait")
  /\ UNCHANGED <<durable, guard, up, slots, binds, wake, bounds>>

-----------------------------------------------------------------------------
(* The environment *)

(* The provider of the attempt has an observation to adopt. *)
EndAttempt(r) ==
  /\ graph[r] = "attempt"
  /\ graph' = Put(graph, r, "observed")
  /\ UNCHANGED <<left, mixed, seq, guard, up, slots, binds, wake, pump, at, work, bounds>>

(* The memory of a process is gone and its locks are free. *)
Forget(s) ==
  /\ up' = Put(up, s, FALSE)
  /\ active' = Put(active, s, {}) /\ queued' = Put(queued, s, {}) /\ queue' = Put(queue, s, <<>>)
  /\ bound' = Put(bound, s, {}) /\ owned' = Put(owned, s, {})
  /\ wake' = Put(wake, s, FALSE) /\ pump' = Put(pump, s, "off")
  /\ guard' = [r \in Runs |-> IF guard[r] = s THEN None ELSE guard[r]]
  /\ Unlock(s)

(* A process dies, or closes its core. *)
Crash(s) ==
  /\ up[s] /\ failures + crashes < MaxFaults /\ crashes' = crashes + 1
  /\ Forget(s)
  /\ UNCHANGED <<durable, failures>>

(* A first sweep that raises rolls the activation back; the next command   *)
(* tries again.                                                            *)
OpenRaises(s) ==
  /\ by[s] = "open" /\ Driving(s, Waiting)
  /\ failures + crashes < MaxFaults /\ failures' = failures + 1
  /\ Forget(s)
  /\ UNCHANGED <<durable, crashes>>

Holder(s) ==
  \/ StartWithoutSlot(s) \/ StartGraph(s)
  \/ DecideSettled(s) \/ DecideNoSlot(s) \/ DecideRunning(s) \/ DecideOn(s) \/ DecideMixed(s)
  \/ NextRun(s) \/ Drained(s)
  \/ WatchStarts(s) \/ WatchDrives(s) \/ WatchSkips(s) \/ WatchIsDone(s)
  \/ Settle(s) \/ Acknowledge(s) \/ Swept(s)

Pump(s) == PumpWaits(s) \/ Drain(s) \/ Sweep(s)

Command(s) ==
  \/ Open(s) \/ Recover(s)
  \/ \E r \in Runs : Start(s, r) \/ Park(s, r) \/ Submit(s, r)

Next ==
  \/ \E s \in Servers : Holder(s) \/ Pump(s) \/ Command(s) \/ DriveRaises(s) \/ OpenRaises(s) \/ Crash(s)
  \/ \E r \in Runs : EndAttempt(r)

(* The holder of the lock goes on, the pump polls four times a second and  *)
(* comes to the lock between commands, and attempts end by their deadline  *)
(* (CodexAttempt says when one does not).                                  *)
(* Commands and deaths are never owed.                                     *)
Fairness ==
  /\ \A s \in Servers : WF_vars(Holder(s)) /\ SF_vars(Pump(s))
  /\ WF_vars(\E r \in Runs : EndAttempt(r))

Spec == Init /\ [][Next]_vars /\ Fairness

-----------------------------------------------------------------------------
TypeOK ==
  /\ graph \in [Runs -> Stages] /\ left \in [Runs -> 0 .. MaxWaits]
  /\ mixed \in [Runs -> BOOLEAN]
  /\ seq \in [Runs -> 0 .. Cardinality(Runs)]
  /\ guard \in [Runs -> Servers \cup {None}]
  /\ up \in [Servers -> BOOLEAN] /\ wake \in [Servers -> BOOLEAN]
  /\ active \in [Servers -> SUBSET Runs] /\ queued \in [Servers -> SUBSET Runs]
  /\ queue \in [Servers -> Seq(Runs)] /\ todo \in [Servers -> Seq(Runs)]
  /\ bound \in [Servers -> SUBSET Runs] /\ owned \in [Servers -> SUBSET Runs]
  /\ pump \in [Servers -> {"off", "wait", "woken", "ticked", "sweep", "failed"}]
  /\ at \in [Servers -> {"free", "start", "drive", "next_run", "next_watch", "settle", "ack"}]
  /\ by \in [Servers -> {None, "drain"} \cup Commands \cup Sweeps]
  /\ cur \in [Servers -> Runs \cup {None}]
  /\ mine \in [Servers -> SUBSET Marks]
  /\ count \in [Servers -> 0 .. Capacity]
  /\ failures \in 0 .. MaxFaults /\ crashes \in 0 .. MaxFaults

(***************************************************************************)
(* Every unfinished run has a watch, whatever process admitted, drove or   *)
(* finished it and wherever one died: no run is forgotten.                 *)
(***************************************************************************)
UnfinishedIsWatched == \A r \in Runs : graph[r] \notin {"absent", "done"} => seq[r] # 0

(***************************************************************************)
(* The slots of a process.  They never exceed the capacity; whoever drives *)
(* a run finds its native app open; a run marked for the drain is in the   *)
(* queue; and while nobody holds the admission lock, exactly the runs in a *)
(* slot have their app open, and each will be looked at again by the drain *)
(* or, after a failed drive, by a sweep.                                   *)
(***************************************************************************)
SlotsAreServed ==
  \A s \in Servers :
    /\ Cardinality(active[s]) <= Capacity
    /\ at[s] = "drive" => cur[s] \in bound[s]
    /\ queued[s] \subseteq Range(queue[s]) /\ queued[s] \subseteq active[s]
    /\ Free(s) => /\ bound[s] = active[s] /\ owned[s] = active[s]
                  /\ failures = 0 => active[s] = queued[s]

(***************************************************************************)
(* As long as some process keeps its pump and no drive raises, a run comes *)
(* to wait for its worker or is finished and its watch acknowledged: it is *)
(* started, its effects are launched and what its attempts came to is      *)
(* adopted, also when its starter found no slot, parked it or died.        *)
(* Excepted is a run whose effect has an interrupt without a runner beside *)
(* it, once it is in no slot: no sweep drives it, and nothing else does.   *)
(***************************************************************************)
Pumping == failures = 0 /\ \E s \in Servers : up[s]

PassedBy(r) == mixed[r] /\ \A s \in Servers : r \notin active[s]

RunsAdvance ==
  \A r \in Runs :
    (seq[r] # 0) ~> (graph[r] = "worker" \/ seq[r] = 0 \/ ~Pumping \/ []PassedBy(r))
=============================================================================
