---------------------------- MODULE CodexAttempt ----------------------------
(***************************************************************************)
(* One attempt of the Codex provider (runtime/providers/_codex_attempt.py  *)
(* and _codex_supervisor.py): a directory of files through which engine    *)
(* processes, a detached supervisor and the worker it spawns agree on      *)
(* whether the worker was ever started and how it ended.  Engine processes *)
(* and supervisors die at any step; a dead process drops its kernel locks  *)
(* and leaves its files.                                                   *)
(*                                                                         *)
(* Every action is one read or one write of a file, or one process event.  *)
(***************************************************************************)
EXTENDS Integers, FiniteSets

CONSTANTS
  Engines,      \* engine processes: they launch, inspect and cancel
  Supervisors,  \* BOUND: supervisor processes that are ever created
  MaxDeaths     \* BOUND: processes that die

None == "none"

ASSUME ProcessesAssumption == None \notin Engines /\ None \notin Supervisors
ASSUME DeathsAssumption    == MaxDeaths \in Nat

VARIABLES
  late,       \* is the deadline of the attempt over
  state,      \* state.json: the supervisor it names, or None while prepared
  ready,      \* supervisor-ready.json: the supervisor that wrote it
  alive,      \* who holds the kernel lock on supervisor-alive.lock
  claimed,    \* does supervisor-alive.lock exist
  go, cancel, \* the two command files
  terminal,   \* terminal.json: how the worker ended
  result,     \* result.json
  decision,   \* the engine that holds the file lock `decision'
  pc,         \* engine -> its next step
  lost,       \* history: was an engine told that the attempt is indeterminate
  sup,        \* supervisor -> its next step
  timed,      \* did the supervisor kill for the deadline
  worker,     \* the process that leads the worker's group
  group,      \* does anything of the worker's process group run
  outside,    \* does a process that left the group hold the supervisor's pipes
  unread,     \* has the supervisor prompt left that the pipe does not take
  spawns      \* history: how often a worker was spawned

files     == <<state, ready, go, cancel, terminal, result>>
locks     == <<alive, claimed, decision>>
processes == <<timed, worker, group, outside, unread, spawns>>
vars      == <<late, files, locks, pc, lost, sup, processes>>

LaunchSteps  == {"check", "gate", "popen", "wait", "go", "state"}
InspectSteps == {"i_receipt", "i_state", "i_alive", "i_again", "finalize"}
EngineSteps  == {"idle", "c_check", "c_write", "dead"} \cup LaunchSteps \cup InspectSteps
SupSteps     == {"unborn", "claim", "ready", "await", "verify", "spawn", "feed", "monitor",
                 "signal", "reap", "join", "publish", "contain", "contained", "release", "gone"}
Spawned      == {"feed", "monitor", "signal", "reap", "join", "publish", "contain", "contained"}
Reasons      == {"exited", "failed", "deadline", "prelaunch"}
Results      == {"PASS", "deadline_timeout", "runner_failed"}

Init ==
  /\ late = FALSE
  /\ state = None /\ ready = None /\ go = FALSE /\ cancel = FALSE
  /\ terminal = None /\ result = None
  /\ alive = None /\ claimed = FALSE /\ decision = None
  /\ pc = [e \in Engines |-> "idle"]
  /\ lost = FALSE
  /\ sup = [s \in Supervisors |-> "unborn"]
  /\ timed = FALSE /\ worker = None /\ group = FALSE /\ outside = FALSE
  /\ unread = FALSE /\ spawns = 0

At(e, step)   == pc[e] = step
Goto(e, step) == pc' = [pc EXCEPT ![e] = step]

(* Leaves ensure_started with an exception. *)
Raise(e) == Goto(e, "idle") /\ decision' = None

-----------------------------------------------------------------------------
(* ensure_started *)

(* The deadline has not passed; then the file lock `decision' is taken. *)
Launch(e) ==
  /\ At(e, "idle") /\ ~late /\ decision = None
  /\ decision' = e
  /\ Goto(e, "check")
  /\ UNCHANGED <<late, files, alive, claimed, lost, sup, processes>>

(* An attempt that was started is only observed. *)
CheckState(e) ==
  /\ At(e, "check")
  /\ Goto(e, IF state # None THEN "i_receipt" ELSE "gate")
  /\ UNCHANGED <<late, files, locks, lost, sup, processes>>

(* Inside the commitment of the decision gate: the deadline and the        *)
(* installation are checked again, then a supervisor that is ready is      *)
(* adopted.  The gate and the checks may refuse.                           *)
Gate(e) ==
  /\ At(e, "gate")
  /\ \/ Raise(e)
     \/ /\ ~late
        /\ IF ready = None THEN Goto(e, "popen") /\ UNCHANGED decision
           ELSE IF alive = ready THEN Goto(e, "go") /\ UNCHANGED decision
           ELSE Raise(e)
  /\ UNCHANGED <<late, files, alive, claimed, lost, sup, processes>>

Popen(e) ==
  /\ At(e, "popen")
  /\ \/ \E s \in Supervisors :
          /\ sup[s] = "unborn"
          /\ sup' = [sup EXCEPT ![s] = "claim"]
          /\ Goto(e, "wait")
          /\ UNCHANGED decision
     \/ Raise(e) /\ UNCHANGED sup
  /\ UNCHANGED <<late, files, alive, claimed, lost, processes>>

(* Up to five seconds for a receipt; the process may also exit first. *)
AwaitReady(e) ==
  /\ At(e, "wait")
  /\ \/ ready # None /\ Goto(e, "go") /\ UNCHANGED decision
     \/ Raise(e)
  /\ UNCHANGED <<late, files, alive, claimed, lost, sup, processes>>

WriteGo(e) ==
  /\ At(e, "go")
  /\ go' = TRUE
  /\ Goto(e, "state")
  /\ UNCHANGED <<late, state, ready, cancel, terminal, result, locks, lost, sup, processes>>

WriteState(e) ==
  /\ At(e, "state")
  /\ state' = ready
  /\ Goto(e, "i_receipt")
  /\ UNCHANGED <<late, ready, go, cancel, terminal, result, locks, lost, sup, processes>>

-----------------------------------------------------------------------------
(* inspect and cancel *)

Inspect(e) ==
  /\ At(e, "idle")
  /\ Goto(e, "i_receipt")
  /\ UNCHANGED <<late, files, locks, lost, sup, processes>>

(* The observation is returned; an inspect inside ensure_started also      *)
(* leaves the decision lock.                                               *)
Answer(e, a) ==
  /\ Goto(e, "idle")
  /\ lost' = (lost \/ a = "indeterminate")
  /\ decision' = IF decision = e THEN None ELSE decision

ReadReceipt(e) ==
  /\ At(e, "i_receipt")
  /\ Goto(e, IF terminal # None THEN "finalize" ELSE "i_state")
  /\ UNCHANGED <<late, files, locks, lost, sup, processes>>

ReadState(e) ==
  /\ At(e, "i_state")
  /\ IF state = None
     THEN Answer(e, "absent")
     ELSE Goto(e, "i_alive") /\ UNCHANGED <<lost, decision>>
  /\ UNCHANGED <<late, files, alive, claimed, sup, processes>>

Probe(e) ==
  /\ At(e, "i_alive")
  /\ IF state = ready /\ alive = ready
     THEN Answer(e, "running")
     ELSE Goto(e, "i_again") /\ UNCHANGED <<lost, decision>>
  /\ UNCHANGED <<late, files, alive, claimed, sup, processes>>

(* terminal.json is published before the liveness lock is released, so     *)
(* reading it again closes the race between the two reads.                 *)
ReadReceiptAgain(e) ==
  /\ At(e, "i_again")
  /\ IF terminal # None
     THEN Goto(e, "finalize") /\ UNCHANGED <<lost, decision>>
     ELSE Answer(e, "indeterminate")
  /\ UNCHANGED <<late, files, alive, claimed, sup, processes>>

ResultOf(reason) == CASE reason = "deadline" -> "deadline_timeout"
                      [] reason = "exited"   -> "PASS"
                      [] OTHER               -> "runner_failed"

(* _terminal, under the file lock `finalize': the first to come parses the *)
(* spools and writes result.json, once.                                    *)
Finalize(e) ==
  /\ At(e, "finalize")
  /\ result' = IF result = None THEN ResultOf(terminal) ELSE result
  /\ Answer(e, "terminal")
  /\ UNCHANGED <<late, state, ready, go, cancel, terminal, alive, claimed, sup, processes>>

AskCancel(e) ==
  /\ At(e, "idle")
  /\ Goto(e, "c_check")
  /\ UNCHANGED <<late, files, locks, lost, sup, processes>>

(* Only a live supervisor of a running attempt is asked. *)
CheckCancel(e) ==
  /\ At(e, "c_check")
  /\ Goto(e, IF terminal = None /\ state # None /\ ready = state /\ alive = ready
             THEN "c_write" ELSE "i_receipt")
  /\ UNCHANGED <<late, files, locks, lost, sup, processes>>

WriteCancel(e) ==
  /\ At(e, "c_write")
  /\ cancel' = TRUE
  /\ Goto(e, "i_receipt")
  /\ UNCHANGED <<late, state, ready, go, terminal, result, locks, lost, sup, processes>>

-----------------------------------------------------------------------------
(* The supervisor *)

Sup(s, step)  == sup[s] = step
Then(s, step) == sup' = [sup EXCEPT ![s] = step]

(* Mutant: the liveness file is opened without O_EXCL. *)
ClaimShared(s) ==
  /\ Sup(s, "claim")
  /\ claimed' = TRUE
  /\ alive' = s
  /\ Then(s, "ready")
  /\ UNCHANGED <<late, files, decision, pc, lost, processes>>

(* O_CREAT | O_EXCL and flock: the second supervisor exits at once. *)
Claim(s) ==
  /\ Sup(s, "claim")
  /\ IF claimed
     THEN Then(s, "gone") /\ UNCHANGED <<claimed, alive>>
     ELSE claimed' = TRUE /\ alive' = s /\ Then(s, "ready")
  /\ UNCHANGED <<late, files, decision, pc, lost, processes>>

PublishReady(s) ==
  /\ Sup(s, "ready")
  /\ ready' = s
  /\ Then(s, "await")
  /\ UNCHANGED <<late, state, go, cancel, terminal, result, locks, pc, lost, processes>>

(* Nothing was spawned: the receipt says so. *)
PublishPrelaunch(s) ==
  /\ terminal' = IF late THEN "deadline" ELSE "prelaunch"
  /\ Then(s, "release")

(* _await_launch_permission: go, then cancel, then the deadline. *)
Await(s) ==
  /\ Sup(s, "await")
  /\ \/ go /\ Then(s, "verify") /\ UNCHANGED terminal
     \/ ~go /\ (cancel \/ late) /\ PublishPrelaunch(s)
  /\ UNCHANGED <<late, state, ready, go, cancel, result, locks, pc, lost, processes>>

(* _spawn_inner_process: the bound files may have changed, then the        *)
(* deadline and the cancel file are checked once more.                     *)
Verify(s) ==
  /\ Sup(s, "verify")
  /\ \/ terminal' = "prelaunch" /\ Then(s, "release")
     \/ IF late \/ cancel THEN PublishPrelaunch(s) ELSE Then(s, "spawn") /\ UNCHANGED terminal
  /\ UNCHANGED <<late, state, ready, go, cancel, result, locks, pc, lost, processes>>

(* The prompt may be more than a pipe holds.  started.json is written next *)
(* and may fail.                                                           *)
Spawn(s) ==
  /\ Sup(s, "spawn")
  /\ worker' = "running" /\ group' = TRUE
  /\ spawns' = spawns + 1
  /\ \/ Then(s, "feed") /\ unread' \in BOOLEAN
     \/ Then(s, "contain") /\ UNCHANGED unread
  /\ UNCHANGED <<late, files, locks, pc, lost, timed, outside>>

(* _start_capture writes the whole prompt before it starts the readers of  *)
(* the output, and before anything looks at the deadline: the write blocks *)
(* as long as somebody could read the rest and does not, and fails when    *)
(* nobody is left.                                                         *)
Feed(s) ==
  /\ Sup(s, "feed")
  /\ unread => ~group /\ ~outside
  /\ unread' = FALSE
  /\ (~unread /\ Then(s, "monitor")) \/ Then(s, "contain")
  /\ UNCHANGED <<late, files, locks, pc, lost, timed, worker, group, outside, spawns>>

KillGroup == /\ worker' = IF worker = "running" THEN "killed" ELSE worker
             /\ group' = FALSE

(* process.poll(), then the reasons to kill.  Anything between the spawn   *)
(* and the receipt may fail.                                               *)
Monitor(s) ==
  /\ Sup(s, "monitor")
  /\ \/ worker # "running" /\ Then(s, "reap")
     \/ worker = "running" /\ (cancel \/ late) /\ Then(s, "signal")
     \/ Then(s, "contain")
  /\ UNCHANGED <<late, files, locks, pc, lost, processes>>

Signal(s) ==
  /\ Sup(s, "signal")
  /\ timed' = ~cancel
  /\ KillGroup
  /\ Then(s, "reap")
  /\ UNCHANGED <<late, files, locks, pc, lost, outside, unread, spawns>>

(* What is left of the group is killed and waited for. *)
Reap(s) ==
  /\ Sup(s, "reap")
  /\ KillGroup
  /\ Then(s, "join")
  /\ UNCHANGED <<late, files, locks, pc, lost, timed, outside, unread, spawns>>

(* The readers are joined without a timeout.  They come to the end of the  *)
(* output when nobody holds it open, also nobody outside the group.        *)
Join(s) ==
  /\ Sup(s, "join") /\ ~outside
  /\ Then(s, "publish")
  /\ UNCHANGED <<late, files, locks, pc, lost, processes>>

ReasonOf(w) == IF timed THEN "deadline" ELSE IF w = "done" THEN "exited" ELSE "failed"

(* The receipt.  A write that fails is handled like every other failure. *)
Publish(s) ==
  /\ Sup(s, "publish")
  /\ \/ terminal' = ReasonOf(worker) /\ Then(s, "release")
     \/ Then(s, "contain") /\ UNCHANGED terminal
  /\ UNCHANGED <<late, state, ready, go, cancel, result, locks, pc, lost, processes>>

FailureReceipt == terminal' \in {"failed", None}

(* Mutant: containment waits for the group it did not kill. *)
ContainWaits(s) ==
  /\ Sup(s, "contain") /\ ~group
  /\ Then(s, "contained")
  /\ UNCHANGED <<late, files, locks, pc, lost, processes>>

(* _contain_spawned_process: the group dies whatever went wrong.  The      *)
(* receipt, when it can be written, carries no return code of zero; it     *)
(* comes after the readers of the output, or, where none could be started, *)
(* after the pipes were closed.                                            *)
Contain(s) ==
  /\ Sup(s, "contain")
  /\ KillGroup
  /\ \/ Then(s, "contained") /\ UNCHANGED <<terminal, outside>>
     \/ FailureReceipt /\ outside' = FALSE /\ Then(s, "release")
  /\ UNCHANGED <<late, state, ready, go, cancel, result, locks, pc, lost, timed, unread, spawns>>

JoinContained(s) ==
  /\ Sup(s, "contained") /\ ~outside
  /\ FailureReceipt
  /\ Then(s, "release")
  /\ UNCHANGED <<late, state, ready, go, cancel, result, locks, pc, lost, processes>>

ReleaseAlive(s) ==
  /\ Sup(s, "release")
  /\ alive' = None
  /\ Then(s, "gone")
  /\ UNCHANGED <<late, files, claimed, decision, pc, lost, processes>>

-----------------------------------------------------------------------------
(* The leader ends; processes it started in its group may go on. *)
WorkerEnds ==
  /\ worker = "running"
  /\ worker' \in {"done", "failed"}
  /\ group' \in BOOLEAN
  /\ UNCHANGED <<late, files, locks, pc, lost, sup, timed, outside, unread, spawns>>

DescendantsEnd ==
  /\ worker \in {"done", "failed"} /\ group
  /\ group' = FALSE
  /\ UNCHANGED <<late, files, locks, pc, lost, sup, timed, worker, outside, unread, spawns>>

(* Nothing confines the processes of the worker: one may begin a session   *)
(* of its own, where no signal to the group reaches it, and keep the pipes *)
(* it inherited until it ends.                                             *)
Leave ==
  /\ group /\ ~outside /\ \E s \in Supervisors : sup[s] \in Spawned
  /\ outside' = TRUE
  /\ UNCHANGED <<late, files, locks, pc, lost, sup, timed, worker, group, unread, spawns>>

OutsiderEnds ==
  /\ outside
  /\ outside' = FALSE
  /\ UNCHANGED <<late, files, locks, pc, lost, sup, timed, worker, group, unread, spawns>>

ReadPrompt ==
  /\ unread /\ (group \/ outside)
  /\ unread' = FALSE
  /\ UNCHANGED <<late, files, locks, pc, lost, sup, timed, worker, group, outside, spawns>>

Deadline ==
  /\ ~late /\ late' = TRUE
  /\ UNCHANGED <<files, locks, pc, lost, sup, processes>>

Deaths == Cardinality({e \in Engines : At(e, "dead")})
          + Cardinality({s \in Supervisors : Sup(s, "dead")})

EngineDies(e) ==
  /\ ~At(e, "idle") /\ ~At(e, "dead") /\ Deaths < MaxDeaths
  /\ Goto(e, "dead")
  /\ UNCHANGED <<late, files, locks, lost, sup, processes>>

(* The worker is in a session of its own and survives; the pipes do not.   *)
SupervisorDies(s) ==
  /\ sup[s] \notin {"unborn", "gone", "dead"} /\ Deaths < MaxDeaths
  /\ Then(s, "dead")
  /\ alive' = IF alive = s THEN None ELSE alive
  /\ outside' = (outside /\ sup[s] \notin Spawned)
  /\ unread' = (unread /\ sup[s] \notin Spawned)
  /\ UNCHANGED <<late, files, claimed, decision, pc, lost, timed, worker, group, spawns>>

(* file_lock breaks the lock of a dead holder when it is stale. *)
BreakDecision ==
  /\ decision # None /\ At(decision, "dead")
  /\ decision' = None
  /\ UNCHANGED <<late, files, alive, claimed, pc, lost, sup, processes>>

EngineStep(e) ==
  \/ Launch(e) \/ CheckState(e) \/ Gate(e) \/ Popen(e) \/ AwaitReady(e)
  \/ WriteGo(e) \/ WriteState(e)
  \/ Inspect(e) \/ ReadReceipt(e) \/ ReadState(e) \/ Probe(e) \/ ReadReceiptAgain(e)
  \/ Finalize(e) \/ AskCancel(e) \/ CheckCancel(e) \/ WriteCancel(e)

SupStep(s) ==
  \/ Claim(s) \/ PublishReady(s) \/ Await(s) \/ Verify(s) \/ Spawn(s) \/ Feed(s)
  \/ Monitor(s) \/ Signal(s) \/ Reap(s) \/ Join(s) \/ Publish(s)
  \/ Contain(s) \/ JoinContained(s) \/ ReleaseAlive(s)

Next ==
  \/ \E e \in Engines : EngineStep(e) \/ EngineDies(e)
  \/ \E s \in Supervisors : SupStep(s) \/ SupervisorDies(s)
  \/ WorkerEnds \/ DescendantsEnd \/ Leave \/ OutsiderEnds \/ ReadPrompt
  \/ Deadline \/ BreakDecision

(* A supervisor that lives and is not blocked runs, and the deadline comes. *)
(* Engines and the worker owe nothing.                                     *)
Fairness == (\A s \in Supervisors : WF_vars(SupStep(s))) /\ WF_vars(Deadline)

Spec == Init /\ [][Next]_vars /\ Fairness

-----------------------------------------------------------------------------
TypeOK ==
  /\ late \in BOOLEAN /\ go \in BOOLEAN /\ cancel \in BOOLEAN
  /\ claimed \in BOOLEAN /\ timed \in BOOLEAN /\ lost \in BOOLEAN /\ group \in BOOLEAN
  /\ outside \in BOOLEAN /\ unread \in BOOLEAN
  /\ {state, ready, alive} \subseteq Supervisors \cup {None}
  /\ decision \in Engines \cup {None}
  /\ terminal \in Reasons \cup {None} /\ result \in Results \cup {None}
  /\ pc \in [Engines -> EngineSteps]
  /\ sup \in [Supervisors -> SupSteps \cup {"dead"}]
  /\ worker \in {None, "running", "done", "failed", "killed"}
  /\ spawns \in Nat

(***************************************************************************)
(* However many engines launch, die and launch again, the worker of an     *)
(* attempt is spawned at most once.                                        *)
(***************************************************************************)
SingleWorker == spawns <= 1

(* A receipt is only there when nothing of the worker runs any more, so    *)
(* quiesce may prove terminal safety from it.                              *)
ReceiptMeansQuiescent == terminal # None => ~group

(***************************************************************************)
(* Once an engine was told that the attempt is indeterminate, no receipt   *)
(* ever appears and no supervisor is left to write one: the engine does    *)
(* not give up an attempt whose outcome is still to come.                  *)
(***************************************************************************)
IndeterminateIsFinal == lost => terminal = None /\ alive = None

(* Only a worker that ended by itself, successfully and before its         *)
(* supervisor gave the deadline as the reason, passes.                     *)
PassIsEarned == result = "PASS" => worker = "done" /\ ~timed

(***************************************************************************)
(* A supervisor may be blocked for ever: by a prompt that nobody reads,    *)
(* also past the deadline, or by a process outside the group that never    *)
(* closes the output, after the group was killed.                          *)
(***************************************************************************)
PromptIsStuck == unread /\ \E s \in Supervisors : Sup(s, "feed")
OutputIsHeld  == outside /\ \E s \in Supervisors : sup[s] \in {"join", "contained"}

(***************************************************************************)
(* With go given, the attempt ends: a receipt appears, unless the          *)
(* supervisor dies, cannot write, or is blocked for ever.  The deadline    *)
(* bounds every worker that reads its prompt.                              *)
(***************************************************************************)
GoEnds ==
  go ~> \/ terminal # None
        \/ \A s \in Supervisors : sup[s] \in {"unborn", "gone", "dead"}
        \/ []PromptIsStuck \/ []OutputIsHeld

(***************************************************************************)
(* Nothing of the worker's group outlives the supervision: it is killed at *)
(* the deadline at the latest, unless the supervisor itself dies or its    *)
(* prompt is never read.  A process outside the group does not save it.    *)
(***************************************************************************)
NoOrphanUnderSupervisor ==
  group ~> (~group \/ (\E s \in Supervisors : Sup(s, "dead")) \/ []PromptIsStuck)

(***************************************************************************)
(* An attempt has one worker, and what the engine is told of it is so:     *)
(* a receipt, a pass or an indeterminate end never speaks too early.       *)
(***************************************************************************)
AttemptIsSound ==
  TypeOK /\ SingleWorker /\ ReceiptMeansQuiescent /\ IndeterminateIsFinal /\ PassIsEarned

(* Attempt and worker group end, unless the supervisor dies or is blocked   *)
(* for ever by a prompt nobody reads or, the group being dead, by a process *)
(* outside it that holds the output.                                        *)
AttemptEnds == GoEnds /\ NoOrphanUnderSupervisor
=============================================================================
