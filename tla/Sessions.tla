------------------------------ MODULE Sessions ------------------------------
(***************************************************************************)
(* Who answers for a run: the session binding that the hooks keep          *)
(* (sessions.py, hooks.py), the gate in front of every write of a session  *)
(* (_hook_pretool_decision.py), the submission of a worker's answer        *)
(* (_service_worker.py, worker_submission_service.py) and the status that  *)
(* all of them go by (status.py).  Every hook and every call is a process  *)
(* of its own; a session may have one of each at a time.                   *)
(***************************************************************************)
EXTENDS Naturals, FiniteSets, Sequences

CONSTANTS
  Sessions, Runs,
  Steps,         \* the recipe: a sequence of sets of what waits together
  Kind,          \* item -> "plain", "manual" or "managed"
  None,
  MaxLapses,     \* BOUND: bindings that go stale
  MaxStarts,     \* BOUND: starts, repeated ones included
  MaxKills       \* BOUND: processes that die

Items == UNION {Steps[k] : k \in DOMAIN Steps}
LockHolders == {"hook", "call"} \X Sessions

SessionsAssumption ==
  /\ Steps \in Seq(SUBSET Items) /\ None \notin Items \cup LockHolders
  /\ None \notin [session : Sessions, live : BOOLEAN]
  /\ \A i \in Items : Kind[i] \in {"plain", "manual", "managed"}
  /\ MaxLapses \in Nat /\ MaxStarts \in Nat /\ MaxKills \in Nat

VARIABLES
  position,      \* run -> the step it is at, 0 before the start
  phase,         \* run -> what each item of the step has come to
  binding,       \* run -> the binding file
  bindingLock,   \* run -> who holds the sidecar lock
  hook, call,    \* session -> where its hook and its call are
  acted,         \* run -> who was let write or answered since the owner took over
  lapses, starts, kills

graphVars == <<position, phase>>
sessionsVars == <<graphVars, binding, bindingLock, hook, call, acted, lapses, starts, kills>>

Idle == [at |-> "idle", run |-> None, left |-> {}, read |-> None, step |-> None]
Fresh == [i \in Items |-> "unregistered"]

-----------------------------------------------------------------------------
(* Status *)

Pending(r) == IF position[r] \in DOMAIN Steps
              THEN {i \in Steps[position[r]] : phase[r][i] # "answered"} ELSE {}

(* An item the worker may answer: a plain interrupt, or a manual effect     *)
(* whose handoff is prepared.                                               *)
IsWorkers(r, i) ==
  \/ Kind[i] = "plain"
  \/ Kind[i] = "manual" /\ phase[r][i] = "prepared"

(* project_status. *)
Status(r) ==
  IF position[r] = 0 THEN "unknown"
  ELSE IF Pending(r) = {} THEN "completed"
  ELSE IF \A i \in Pending(r) : IsWorkers(r, i) THEN "awaiting" ELSE "running"

IsOwner(s, b) == b # None /\ b.session = s
IsLive(b) == b # None /\ b.live

-----------------------------------------------------------------------------

SessionsInit ==
  /\ position = [r \in Runs |-> 0] /\ phase = [r \in Runs |-> Fresh]
  /\ binding = [r \in Runs |-> None] /\ bindingLock = [r \in Runs |-> None]
  /\ hook = [s \in Sessions |-> Idle] /\ call = [s \in Sessions |-> Idle]
  /\ acted = [r \in Runs |-> {}]
  /\ lapses = 0 /\ starts = 0 /\ kills = 0

HookGoes(s, at, r, left, read) ==
  hook' = [hook EXCEPT ![s] = [at |-> at, run |-> r, left |-> left, read |-> read,
                               step |-> None]]

HookEnds(s) == hook' = [hook EXCEPT ![s] = Idle]

CallGoes(s, at, step) ==
  call' = [call EXCEPT ![s].at = at, ![s].step = step]

CallEnds(s) == call' = [call EXCEPT ![s] = Idle]

Lock(r, who) == bindingLock' = [bindingLock EXCEPT ![r] = who]

-----------------------------------------------------------------------------
(* PostToolUse *)

(* scenario_start returns: a new run, or the run of an equal request that   *)
(* another session has made before.  Its response may never reach the hook. *)
Start(s, r) ==
  /\ starts < MaxStarts /\ starts' = starts + 1 /\ hook[s] = Idle
  /\ position' = [position EXCEPT ![r] = IF @ = 0 THEN 1 ELSE @]
  /\ HookGoes(s, "posttool", r, {}, None) \/ UNCHANGED hook
  /\ UNCHANGED <<phase, binding, bindingLock, call, acted, lapses, kills>>

(* hook_posttool: _bindable_start by a status read without the lock.        *)
PostTool(s) ==
  /\ hook[s].at = "posttool"
  /\ IF Status(hook[s].run) \in {"running", "awaiting"}
     THEN HookGoes(s, "touch", hook[s].run, {}, None)
     ELSE HookEnds(s)
  /\ UNCHANGED <<graphVars, binding, bindingLock, call, acted, lapses, starts, kills>>

(* Mutant: the binding is read before the lock is held.                     *)
ReadEarly(s) ==
  /\ hook[s].at = "touch"
  /\ HookGoes(s, "write", hook[s].run, {}, binding[hook[s].run])
  /\ UNCHANGED <<graphVars, binding, bindingLock, call, acted, lapses, starts, kills>>

(* touch: under the lock, for which it waits, the binding is read ...       *)
ReadBinding(s) ==
  /\ hook[s].at = "touch" /\ bindingLock[hook[s].run] = None
  /\ Lock(hook[s].run, <<"hook", s>>)
  /\ HookGoes(s, "write", hook[s].run, {}, binding[hook[s].run])
  /\ UNCHANGED <<graphVars, binding, call, acted, lapses, starts, kills>>

(* ... and refreshed, made or taken over, unless it is another's and live.  *)
WriteBinding(s) ==
  /\ hook[s].at = "write"
  /\ LET r == hook[s].run
         read == hook[s].read
     IN  /\ Lock(r, None)
         /\ IF ~IsOwner(s, read) /\ IsLive(read)
            THEN UNCHANGED <<binding, acted>>
            ELSE /\ binding' = [binding EXCEPT ![r] = [session |-> s, live |-> TRUE]]
                 /\ acted' = [acted EXCEPT ![r] = IF IsOwner(s, read) THEN @ ELSE {}]
  /\ HookEnds(s)
  /\ UNCHANGED <<graphVars, call, lapses, starts, kills>>

-----------------------------------------------------------------------------
(* PreToolUse, in a project whose policy names the recipe *)

(* decide_pretool: the runs that await are read once.                       *)
PreTool(s) ==
  /\ hook[s] = Idle
  /\ LET candidates == {r \in Runs : Status(r) = "awaiting"}
     IN  candidates # {} /\ HookGoes(s, "gate", None, candidates, None)
  /\ UNCHANGED <<graphVars, binding, bindingLock, call, acted, lapses, starts, kills>>

(* refresh_if_owner, the look without the lock. *)
Check(s, r) ==
  /\ hook[s].at = "gate" /\ r \in hook[s].left
  /\ HookGoes(s, IF IsOwner(s, binding[r]) THEN "refresh" ELSE "gate", r,
              hook[s].left \ {r}, None)
  /\ UNCHANGED <<graphVars, binding, bindingLock, call, acted, lapses, starts, kills>>

(* ... and the same under it; a live owner's write is let through.  Nobody  *)
(* can come between reading and writing the file.                           *)
Refresh(s) ==
  /\ hook[s].at = "refresh" /\ bindingLock[hook[s].run] = None
  /\ LET r == hook[s].run
     IN  IF IsOwner(s, binding[r]) /\ IsLive(binding[r])
         THEN acted' = [acted EXCEPT ![r] = @ \cup {s}] /\ HookEnds(s)
         ELSE HookGoes(s, "gate", None, hook[s].left, None) /\ UNCHANGED acted
  /\ UNCHANGED <<graphVars, binding, bindingLock, call, lapses, starts, kills>>

(* No candidate is the session's, or the lock took longer than 2 seconds.   *)
Deny(s) ==
  /\ \/ hook[s].at = "gate" /\ hook[s].left = {}
     \/ hook[s].at = "refresh" /\ bindingLock[hook[s].run] # None
  /\ HookEnds(s)
  /\ UNCHANGED <<graphVars, binding, bindingLock, call, acted, lapses, starts, kills>>

-----------------------------------------------------------------------------
(* scenario_done, scenario_escalate, scenario_abort *)

(* The step is one the session has seen, or none is given. *)
Call(s, r, step) ==
  /\ call[s] = Idle /\ position[r] > 0
  /\ call' = [call EXCEPT ![s] = [Idle EXCEPT !.at = "own", !.run = r, !.step = step]]
  /\ UNCHANGED <<graphVars, binding, bindingLock, hook, acted, lapses, starts, kills>>

(* Mutant: the lock is given back once the owner is verified.               *)
OwnBriefly(s) ==
  /\ call[s].at = "own" /\ bindingLock[call[s].run] = None
  /\ IF IsOwner(s, binding[call[s].run]) /\ IsLive(binding[call[s].run])
     THEN CallGoes(s, "select", call[s].step) ELSE CallEnds(s)
  /\ UNCHANGED <<graphVars, binding, bindingLock, hook, acted, lapses, starts, kills>>

(* locked_owner: a live owner keeps the lock to the end of the call.        *)
Own(s) ==
  /\ call[s].at = "own" /\ bindingLock[call[s].run] = None
  /\ IF IsOwner(s, binding[call[s].run]) /\ IsLive(binding[call[s].run])
     THEN CallGoes(s, "select", call[s].step) /\ Lock(call[s].run, <<"call", s>>)
     ELSE CallEnds(s) /\ UNCHANGED bindingLock
  /\ UNCHANGED <<graphVars, binding, hook, acted, lapses, starts, kills>>

Release(s) ==
  CallEnds(s) /\ bindingLock' = [bindingLock EXCEPT ![call[s].run] = None]

(* _worker_interrupt: the run must await, by one snapshot ...               *)
Select(s) ==
  /\ call[s].at = "select"
  /\ IF Status(call[s].run) = "awaiting"
     THEN CallGoes(s, "match", call[s].step) /\ UNCHANGED bindingLock
     ELSE Release(s)
  /\ UNCHANGED <<graphVars, binding, hook, acted, lapses, starts, kills>>

Matches(r, step) == {i \in Pending(r) : step \in {None, i}}

(* ... and by another exactly one interrupt must be of the step.            *)
Match(s) ==
  /\ call[s].at = "match"
  /\ LET matches == Matches(call[s].run, call[s].step)
     IN  IF Cardinality(matches) = 1
         THEN (\E i \in matches : CallGoes(s, "commit", i)) /\ UNCHANGED bindingLock
         ELSE Release(s)
  /\ UNCHANGED <<graphVars, binding, hook, acted, lapses, starts, kills>>

(* The run after the answer of an item has reached the graph. *)
Answer(r, i) ==
  LET answered == [phase[r] EXCEPT ![i] = "answered"]
  IN  IF \A j \in Steps[position[r]] : answered[j] = "answered"
      THEN position' = [position EXCEPT ![r] = @ + 1] /\ phase' = [phase EXCEPT ![r] = Fresh]
      ELSE phase' = [phase EXCEPT ![r] = answered] /\ UNCHANGED position

(* submit_manual seals the effect that waits at the coordinate; resume      *)
(* answers a plain interrupt at it; both refuse another coordinate.  The    *)
(* evidence may be refused, too.                                            *)
Commit(s) ==
  /\ call[s].at = "commit"
  /\ LET r == call[s].run
         i == call[s].step
     IN  \/ /\ i \in Pending(r) /\ IsWorkers(r, i)
            /\ IF Kind[i] = "manual"
               THEN phase' = [phase EXCEPT ![r][i] = "sealed"] /\ UNCHANGED position
               ELSE Answer(r, i)
            /\ acted' = [acted EXCEPT ![r] = @ \cup {s}]
            /\ CallGoes(s, "drive", i) /\ UNCHANGED bindingLock
         \/ UNCHANGED <<graphVars, acted>> /\ Release(s)
  /\ UNCHANGED <<binding, hook, lapses, starts, kills>>

(* The run is driven on under the lock, as far as the drive gets.           *)
Return(s) ==
  /\ call[s].at = "drive" /\ Release(s)
  /\ UNCHANGED <<graphVars, binding, hook, acted, lapses, starts, kills>>

-----------------------------------------------------------------------------

(* The engine (see EffectCoordinator): it prepares handoffs, sees managed   *)
(* work through, and delivers what is sealed.                               *)
Engine(r, i) ==
  /\ i \in Pending(r) /\ Kind[i] # "plain"
  /\ \/ /\ phase[r][i] = "unregistered" /\ UNCHANGED position
        /\ phase' = [phase EXCEPT ![r][i] = IF Kind[i] = "manual" THEN "prepared"
                                            ELSE "sealed"]
     \/ phase[r][i] = "sealed" /\ Answer(r, i)
  /\ UNCHANGED <<binding, bindingLock, hook, call, acted, lapses, starts, kills>>

(* The owner is silent past the window. *)
Lapse(r) ==
  /\ lapses < MaxLapses /\ lapses' = lapses + 1 /\ IsLive(binding[r])
  /\ binding' = [binding EXCEPT ![r].live = FALSE]
  /\ UNCHANGED <<graphVars, bindingLock, hook, call, acted, starts, kills>>

(* A process dies and the kernel gives its lock back. *)
Kill(s) ==
  /\ kills < MaxKills /\ kills' = kills + 1
  /\ \E p \in {"hook", "call"} :
       /\ IF p = "hook" THEN hook[s] # Idle /\ HookEnds(s) /\ UNCHANGED call
          ELSE call[s] # Idle /\ CallEnds(s) /\ UNCHANGED hook
       /\ bindingLock' = [r \in Runs |-> IF bindingLock[r] = <<p, s>> THEN None
                                         ELSE bindingLock[r]]
  /\ UNCHANGED <<graphVars, binding, acted, lapses, starts>>

-----------------------------------------------------------------------------

HookStep(s) ==
  \/ PostTool(s) \/ ReadBinding(s) \/ WriteBinding(s) \/ PreTool(s) \/ Refresh(s) \/ Deny(s)
  \/ \E r \in Runs : Check(s, r)

CallStep(s) == Own(s) \/ Select(s) \/ Match(s) \/ Commit(s) \/ Return(s)

SessionsNext ==
  \/ \E s \in Sessions :
       \/ HookStep(s) \/ CallStep(s) \/ Kill(s)
       \/ \E r \in Runs : Start(s, r) \/ \E i \in Pending(r) \cup {None} : Call(s, r, i)
  \/ \E r \in Runs : Lapse(r) \/ \E i \in Items : Engine(r, i)

SessionsSpec == SessionsInit /\ [][SessionsNext]_sessionsVars

-----------------------------------------------------------------------------
(* Properties *)

SessionsTypeOK ==
  /\ \A r \in Runs :
       /\ position[r] \in 0 .. Len(Steps) + 1
       /\ binding[r] # None => binding[r].session \in Sessions
       /\ bindingLock[r] # None => bindingLock[r] \in LockHolders
  /\ \A s \in Sessions : hook[s].at # "write" \/ hook[s].run \in Runs

(* A session keeps a run as long as it is not silent past the window:       *)
(* however the hooks of several sessions come together, the binding of a    *)
(* live owner never goes to another.                                        *)
OwnerIsNotRobbed ==
  [][\A r \in Runs :
       IsLive(binding[r]) => IsOwner(binding[r].session, binding'[r])]_binding

(* From the moment a session has taken a run over, it alone answers the run *)
(* and is let write for it: no answer is committed for a session that was   *)
(* verified before, and no write of it is let through.                      *)
OnlyOwnerActs ==
  \A r \in Runs : acted[r] # {} => binding[r] # None /\ acted[r] = {binding[r].session}

(* A run that says it awaits can be answered at once: each of its items is  *)
(* the only one of its step, none is the engine's any more, and while the   *)
(* call that was let in by that status is under way the run keeps awaiting. *)
AwaitingIsHonest ==
  /\ \A r \in Runs : Status(r) = "awaiting" =>
       \A i \in Pending(r) : IsWorkers(r, i) /\ Matches(r, i) = {i}
  /\ \A s \in Sessions : call[s].at \in {"match", "commit"} =>
       /\ Status(call[s].run) = "awaiting"
       /\ call[s].at = "commit" => call[s].step \in Pending(call[s].run)

(* The run of one session is not another's to answer, and who is told that  *)
(* it awaits can answer it.                                                 *)
OwnerAnswers == SessionsTypeOK /\ OnlyOwnerActs /\ AwaitingIsHonest
=============================================================================
