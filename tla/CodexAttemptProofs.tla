---------------------------- MODULE CodexAttemptProofs ----------------------------
(***************************************************************************)
(* Proofs about one attempt of the Codex provider: about its processes     *)
(* (CodexAttempt), for any sets of engine processes and supervisors, and   *)
(* about its checkout and files (Workspace), for any processes and paths.  *)
(* Any number of them may die.                                             *)
(***************************************************************************)
EXTENDS CodexAttempt, Workspace, TLAPS

(* A supervisor that made the liveness file, before and after its spawn.   *)
Unspawned == {"ready", "await", "verify", "spawn"}
Tending   == {"feed", "monitor", "signal", "reap", "join", "publish", "contain", "contained"}
Claimant  == Unspawned \cup Tending \cup {"release"}

(***************************************************************************)
(* One supervisor passes the claim of supervisor-alive.lock, which is      *)
(* never undone.  It holds the kernel lock while it lives, and the ready   *)
(* receipt, if there is one, is its own.                                   *)
(***************************************************************************)
ClaimInv ==
  /\ \A s \in Supervisors : sup[s] \in Claimant => alive = s
  /\ alive # None => alive \in Supervisors /\ sup[alive] \in Claimant
  /\ ~claimed => alive = None /\ ready = None /\ terminal = None /\ spawns = 0
  /\ alive # None => claimed
  /\ ready # None /\ alive # None => ready = alive
  /\ \A s \in Supervisors : Sup(s, "ready") => ready = None

(***************************************************************************)
(* The worker and its receipt: nothing is spawned or reported before the   *)
(* claimant comes to it, and a reported end is the end: a worker that is   *)
(* not running and leads no group any more, with the reason as it was.     *)
(***************************************************************************)
WorkerInv ==
  /\ spawns \in {0, 1}
  /\ \A s \in Supervisors : sup[s] \in Unspawned => spawns = 0
  /\ \A s \in Supervisors : sup[s] \in Tending => spawns = 1
  /\ spawns = 0 => worker = None /\ ~group /\ ~timed
  /\ \A s \in Supervisors : sup[s] \in Unspawned \cup Tending => terminal = None
  /\ \A s \in Supervisors : sup[s] \in {"join", "publish", "contained", "release"} => worker # "running" /\ ~group
  /\ terminal # None => worker # "running" /\ ~group
  /\ terminal = "exited" => worker = "done" /\ ~timed

(***************************************************************************)
(* What engines know: state.json names the supervisor of the ready         *)
(* receipt, a launcher on its way to write it has seen that receipt, and   *)
(* who looks for the terminal receipt once more has seen a dead supervisor.*)
(***************************************************************************)
KnowledgeInv ==
  /\ \A e \in Engines : pc[e] \in {"go", "state"} => ready # None
  /\ state # None => state = ready
  /\ \A e \in Engines : pc[e] = "i_alive" => state # None
  /\ \A e \in Engines : pc[e] = "i_again" => claimed /\ alive = None
  /\ \A e \in Engines : pc[e] = "finalize" => terminal # None
  /\ lost => claimed /\ alive = None /\ terminal = None
  /\ result = "PASS" => terminal = "exited"

IInv == TypeOK /\ ClaimInv /\ WorkerInv /\ KnowledgeInv

-----------------------------------------------------------------------------
(* Engines and supervisors meet in the files only. *)

LEMMA EngineFrame ==
  ASSUME NEW e \in Engines, EngineStep(e) \/ EngineDies(e)
  PROVE  UNCHANGED <<ready, terminal, alive, claimed, processes>> /\ (Popen(e) \/ UNCHANGED sup)
BY DEF EngineStep, EngineDies, Raise, Answer, files, locks, processes, Launch, CheckState, Gate, Popen, AwaitReady, WriteGo, WriteState, Inspect,
   ReadReceipt, ReadState, Probe, ReadReceiptAgain, Finalize, AskCancel, CheckCancel, WriteCancel

LEMMA SupervisorFrame ==
  ASSUME NEW s \in Supervisors, SupStep(s) \/ SupervisorDies(s)
  PROVE  UNCHANGED <<state, go, cancel, result, decision, pc, lost>>
BY DEF SupStep, SupervisorDies, files, locks, processes, Claim, PublishReady, Await, Verify, Spawn, Feed, Monitor, Signal, Reap, Join,
       Publish, Contain, JoinContained, ReleaseAlive

(* What the environment does touches the worker and the clock only.        *)
Outside == \/ WorkerEnds \/ DescendantsEnd \/ Leave \/ OutsiderEnds \/ ReadPrompt
           \/ Deadline \/ BreakDecision

LEMMA OutsideFrame ==
  Outside => UNCHANGED <<files, alive, claimed, pc, lost, sup, timed, spawns>>
BY DEF Outside, WorkerEnds, DescendantsEnd, Leave, OutsiderEnds, ReadPrompt, Deadline, BreakDecision, processes, locks

LEMMA NextCases ==
  ASSUME [Next]_vars
  PROVE  \/ \E e \in Engines : EngineStep(e) \/ EngineDies(e)
         \/ \E s \in Supervisors : SupStep(s) \/ SupervisorDies(s)
         \/ Outside
         \/ UNCHANGED vars
BY DEF Next, Outside

-----------------------------------------------------------------------------
(* Types *)

LEMMA StepTypes == TypeOK /\ [Next]_vars => TypeOK'
<1> SUFFICES ASSUME TypeOK, [Next]_vars PROVE TypeOK'
  OBVIOUS
<1> USE DEF TypeOK, EngineSteps, LaunchSteps, InspectSteps, SupSteps, Reasons, Results,
            None, At, Goto, Sup, Then, files, locks, processes
<1>1. ASSUME NEW e \in Engines, EngineStep(e) PROVE TypeOK'
  <2>1. CASE Launch(e)
    BY <2>1 DEF Launch
  <2>2. CASE CheckState(e)
    BY <2>2 DEF CheckState
  <2>3. CASE Gate(e)
    BY <2>3 DEF Gate, Raise
  <2>4. CASE Popen(e)
    BY <2>4 DEF Popen, Raise
  <2>5. CASE AwaitReady(e)
    BY <2>5 DEF AwaitReady, Raise
  <2>6. CASE WriteGo(e)
    BY <2>6 DEF WriteGo
  <2>7. CASE WriteState(e)
    BY <2>7 DEF WriteState
  <2>8. CASE Inspect(e)
    BY <2>8 DEF Inspect
  <2>9. CASE ReadReceipt(e)
    BY <2>9 DEF ReadReceipt
  <2>10. CASE ReadState(e)
    BY <2>10 DEF ReadState, Answer
  <2>11. CASE Probe(e)
    BY <2>11 DEF Probe, Answer
  <2>12. CASE ReadReceiptAgain(e)
    <3>1. lost' \in BOOLEAN /\ decision' \in Engines \cup {None} /\ pc' \in [Engines -> EngineSteps]
      BY <2>12 DEF ReadReceiptAgain, Answer
    <3> QED
      BY <2>12, <3>1 DEF ReadReceiptAgain
  <2>13. CASE Finalize(e)
    BY <2>13 DEF Finalize, Answer, ResultOf
  <2>14. CASE AskCancel(e)
    BY <2>14 DEF AskCancel
  <2>15. CASE CheckCancel(e)
    BY <2>15 DEF CheckCancel
  <2>16. CASE WriteCancel(e)
    BY <2>16 DEF WriteCancel
  <2> QED
    BY <1>1, <2>1, <2>2, <2>3, <2>4, <2>5, <2>6, <2>7, <2>8, <2>9, <2>10, <2>11, <2>12, <2>13, <2>14, <2>15, <2>16 DEF EngineStep
<1>2. ASSUME NEW s \in Supervisors, SupStep(s) PROVE TypeOK'
  <2>1. CASE Claim(s)
    <3>1. claimed' \in BOOLEAN /\ alive' \in Supervisors \cup {None}
      BY <2>1 DEF Claim
    <3> QED
      BY <2>1, <3>1 DEF Claim
  <2>2. CASE PublishReady(s)
    BY <2>2 DEF PublishReady
  <2>3. CASE Await(s)
    BY <2>3 DEF Await, PublishPrelaunch
  <2>4. CASE Verify(s)
    BY <2>4 DEF Verify, PublishPrelaunch
  <2>5. CASE Spawn(s)
    BY <2>5 DEF Spawn
  <2>6. CASE Monitor(s)
    BY <2>6 DEF Monitor
  <2>7. CASE Signal(s)
    <3>1. worker' \in {None, "running", "done", "failed", "killed"} /\ group' \in BOOLEAN /\ timed' \in BOOLEAN
      BY <2>7 DEF Signal, KillGroup
    <3> QED
      BY <2>7, <3>1 DEF Signal
  <2>8. CASE Reap(s)
    <3>1. worker' \in {None, "running", "done", "failed", "killed"} /\ group' \in BOOLEAN
      BY <2>8 DEF Reap, KillGroup
    <3> QED
      BY <2>8, <3>1 DEF Reap
  <2>9. CASE Publish(s)
    BY <2>9 DEF Publish, ReasonOf
  <2>10. CASE Contain(s)
    <3>1. worker' \in {None, "running", "done", "failed", "killed"} /\ group' \in BOOLEAN /\ outside' \in BOOLEAN
      BY <2>10 DEF Contain, KillGroup
    <3> QED
      BY <2>10, <3>1 DEF Contain, FailureReceipt
  <2>11. CASE ReleaseAlive(s)
    BY <2>11 DEF ReleaseAlive
  <2>12. CASE Feed(s)
    <3>1. unread' \in BOOLEAN
      BY <2>12 DEF Feed
    <3> QED
      BY <2>12, <3>1 DEF Feed
  <2>13. CASE Join(s)
    BY <2>13 DEF Join
  <2>14. CASE JoinContained(s)
    BY <2>14 DEF JoinContained, FailureReceipt
  <2> QED
    BY <1>2, <2>1, <2>2, <2>3, <2>4, <2>5, <2>6, <2>7, <2>8, <2>9, <2>10, <2>11, <2>12, <2>13, <2>14 DEF SupStep
<1>3. ASSUME NEW e \in Engines, EngineDies(e) PROVE TypeOK'
  BY <1>3 DEF EngineDies
<1>4. ASSUME NEW s \in Supervisors, SupervisorDies(s) PROVE TypeOK'
  BY <1>4 DEF SupervisorDies
<1>5. CASE Outside
  <2>1. CASE WorkerEnds
    BY <2>1 DEF WorkerEnds
  <2>2. CASE DescendantsEnd
    <3>1. group' \in BOOLEAN
      BY <2>2 DEF DescendantsEnd
    <3> QED
      BY <2>2, <3>1 DEF DescendantsEnd
  <2>3. CASE Deadline
    BY <2>3 DEF Deadline
  <2>4. CASE BreakDecision
    BY <2>4 DEF BreakDecision
  <2>5. CASE Leave
    BY <2>5 DEF Leave
  <2>6. CASE OutsiderEnds
    <3>1. outside' \in BOOLEAN
      BY <2>6 DEF OutsiderEnds
    <3> QED
      BY <2>6, <3>1 DEF OutsiderEnds
  <2>7. CASE ReadPrompt
    <3>1. unread' \in BOOLEAN
      BY <2>7 DEF ReadPrompt
    <3> QED
      BY <2>7, <3>1 DEF ReadPrompt
  <2> QED
    BY <1>5, <2>1, <2>2, <2>3, <2>4, <2>5, <2>6, <2>7 DEF Outside
<1>6. CASE UNCHANGED vars
  BY <1>6 DEF vars
<1> QED
  BY <1>1, <1>2, <1>3, <1>4, <1>5, <1>6, NextCases

-----------------------------------------------------------------------------
(* The invariants *)

LEMMA StepClaim ==
  ASSUME IInv, [Next]_vars
  PROVE  ClaimInv'
<1>0. /\ sup \in [Supervisors -> SupSteps \cup {"dead"}] /\ pc \in [Engines -> EngineSteps]
      /\ ClaimInv /\ WorkerInv /\ KnowledgeInv
  BY DEF IInv, TypeOK
<1> USE <1>0, ProcessesAssumption DEF ClaimInv, Claimant, Unspawned, Tending, None, At, Goto, Sup, Then, files, locks, processes
<1>1. ASSUME NEW e \in Engines, EngineStep(e) \/ EngineDies(e) PROVE ClaimInv'
  <2>1. UNCHANGED <<ready, terminal, alive, claimed, processes>>
    BY <1>1, EngineFrame
  <2>2. CASE UNCHANGED sup
    BY <2>1, <2>2
  <2>3. CASE Popen(e)
    BY <2>1, <2>3 DEF Popen
  <2> QED
    BY <1>1, <2>2, <2>3, EngineFrame
<1>2. ASSUME NEW s \in Supervisors, SupStep(s) PROVE ClaimInv'
  <2>1. CASE Claim(s)
    BY <2>1 DEF Claim
  <2>2. CASE PublishReady(s)
    BY <2>2 DEF PublishReady
  <2>3. CASE Await(s)
    BY <2>3 DEF Await, PublishPrelaunch
  <2>4. CASE Verify(s)
    BY <2>4 DEF Verify, PublishPrelaunch
  <2>5. CASE Spawn(s)
    BY <2>5 DEF Spawn
  <2>6. CASE Monitor(s)
    BY <2>6 DEF Monitor
  <2>7. CASE Signal(s)
    BY <2>7 DEF Signal, KillGroup
  <2>8. CASE Reap(s)
    BY <2>8 DEF Reap, KillGroup
  <2>9. CASE Publish(s)
    BY <2>9 DEF Publish, ReasonOf
  <2>10. CASE Contain(s)
    BY <2>10 DEF Contain, KillGroup, FailureReceipt
  <2>11. CASE ReleaseAlive(s)
    BY <2>11 DEF ReleaseAlive
  <2>12. CASE Feed(s)
    BY <2>12 DEF Feed
  <2>13. CASE Join(s)
    BY <2>13 DEF Join
  <2>14. CASE JoinContained(s)
    BY <2>14 DEF JoinContained, FailureReceipt
  <2> QED
    BY <1>2, <2>1, <2>2, <2>3, <2>4, <2>5, <2>6, <2>7, <2>8, <2>9, <2>10, <2>11, <2>12, <2>13, <2>14 DEF SupStep
<1>3. ASSUME NEW s \in Supervisors, SupervisorDies(s) PROVE ClaimInv'
  BY <1>3 DEF SupervisorDies
<1>4. CASE Outside
  BY <1>4, OutsideFrame
<1>5. CASE UNCHANGED vars
  BY <1>5 DEF vars
<1> QED
  BY <1>1, <1>2, <1>3, <1>4, <1>5, NextCases

LEMMA ReasonFacts == ASSUME NEW w, ReasonOf(w) = "exited" PROVE w = "done" /\ ~timed
BY DEF ReasonOf

LEMMA StepWorker ==
  ASSUME IInv, [Next]_vars
  PROVE  WorkerInv'
<1>0. /\ sup \in [Supervisors -> SupSteps \cup {"dead"}] /\ pc \in [Engines -> EngineSteps]
      /\ ClaimInv /\ WorkerInv /\ KnowledgeInv
  BY DEF IInv, TypeOK
<1> USE <1>0, ProcessesAssumption DEF ClaimInv, Claimant, Unspawned, Tending, WorkerInv, None, At, Goto, Sup, Then, files, locks, processes
<1>1. ASSUME NEW e \in Engines, EngineStep(e) \/ EngineDies(e) PROVE WorkerInv'
  <2>1. UNCHANGED <<ready, terminal, alive, claimed, processes>>
    BY <1>1, EngineFrame
  <2>2. CASE UNCHANGED sup
    BY <2>1, <2>2
  <2>3. CASE Popen(e)
    BY <2>1, <2>3 DEF Popen
  <2> QED
    BY <1>1, <2>2, <2>3, EngineFrame
<1>2. ASSUME NEW s \in Supervisors, SupStep(s) PROVE WorkerInv'
  <2>1. CASE Claim(s)
    BY <2>1 DEF Claim
  <2>2. CASE PublishReady(s)
    BY <2>2 DEF PublishReady
  <2>3. CASE Await(s)
    BY <2>3 DEF Await, PublishPrelaunch
  <2>4. CASE Verify(s)
    BY <2>4 DEF Verify, PublishPrelaunch
  <2>5. CASE Spawn(s)
    BY <2>5 DEF Spawn
  <2>6. CASE Monitor(s)
    BY <2>6 DEF Monitor
  <2>7. CASE Signal(s)
    BY <2>7 DEF Signal, KillGroup
  <2>8. CASE Reap(s)
    BY <2>8 DEF Reap, KillGroup
  <2>9. CASE Publish(s)
    BY <2>9, ReasonFacts DEF Publish
  <2>10. CASE Contain(s)
    BY <2>10 DEF Contain, KillGroup, FailureReceipt
  <2>11. CASE ReleaseAlive(s)
    BY <2>11 DEF ReleaseAlive
  <2>12. CASE Feed(s)
    BY <2>12 DEF Feed
  <2>13. CASE Join(s)
    BY <2>13 DEF Join
  <2>14. CASE JoinContained(s)
    BY <2>14 DEF JoinContained, FailureReceipt
  <2> QED
    BY <1>2, <2>1, <2>2, <2>3, <2>4, <2>5, <2>6, <2>7, <2>8, <2>9, <2>10, <2>11, <2>12, <2>13, <2>14 DEF SupStep
<1>3. ASSUME NEW s \in Supervisors, SupervisorDies(s) PROVE WorkerInv'
  BY <1>3 DEF SupervisorDies
<1>4. CASE Outside
  BY <1>4, OutsideFrame DEF Outside, WorkerEnds, DescendantsEnd, Leave, OutsiderEnds, ReadPrompt, Deadline, BreakDecision
<1>5. CASE UNCHANGED vars
  BY <1>5 DEF vars
<1> QED
  BY <1>1, <1>2, <1>3, <1>4, <1>5, NextCases

LEMMA StepKnowledge ==
  ASSUME IInv, [Next]_vars
  PROVE  KnowledgeInv'
<1>0. /\ sup \in [Supervisors -> SupSteps \cup {"dead"}] /\ pc \in [Engines -> EngineSteps]
      /\ ClaimInv /\ WorkerInv /\ KnowledgeInv
  BY DEF IInv, TypeOK
<1> USE <1>0, ProcessesAssumption DEF ClaimInv, Claimant, Unspawned, Tending, WorkerInv, KnowledgeInv, None, At, Goto, Sup, Then, files, locks, processes
<1>1. ASSUME NEW e \in Engines, EngineStep(e) \/ EngineDies(e) PROVE KnowledgeInv'
  <2>1. CASE Launch(e)
    BY <2>1 DEF Launch
  <2>2. CASE CheckState(e)
    BY <2>2 DEF CheckState
  <2>3. CASE Gate(e)
    BY <2>3 DEF Gate, Raise
  <2>4. CASE Popen(e)
    BY <2>4 DEF Popen, Raise
  <2>5. CASE AwaitReady(e)
    BY <2>5 DEF AwaitReady, Raise
  <2>6. CASE WriteGo(e)
    BY <2>6 DEF WriteGo
  <2>7. CASE WriteState(e)
    BY <2>7 DEF WriteState
  <2>8. CASE Inspect(e)
    BY <2>8 DEF Inspect
  <2>9. CASE ReadReceipt(e)
    BY <2>9 DEF ReadReceipt
  <2>10. CASE ReadState(e)
    BY <2>10 DEF ReadState, Answer
  <2>11. CASE Probe(e)
    BY <2>11 DEF Probe, Answer
  <2>12. CASE ReadReceiptAgain(e)
    BY <2>12 DEF ReadReceiptAgain, Answer
  <2>13. CASE Finalize(e)
    BY <2>13 DEF Finalize, Answer, ResultOf
  <2>14. CASE AskCancel(e)
    BY <2>14 DEF AskCancel
  <2>15. CASE CheckCancel(e)
    BY <2>15 DEF CheckCancel
  <2>16. CASE WriteCancel(e)
    BY <2>16 DEF WriteCancel
  <2>17. CASE EngineDies(e)
    BY <2>17 DEF EngineDies
  <2> QED
    BY <1>1, <2>1, <2>2, <2>3, <2>4, <2>5, <2>6, <2>7, <2>8, <2>9, <2>10, <2>11, <2>12, <2>13, <2>14, <2>15, <2>16, <2>17 DEF EngineStep
<1>2. ASSUME NEW s \in Supervisors, SupStep(s) PROVE KnowledgeInv'
  <2>1. CASE Claim(s)
    BY <2>1 DEF Claim
  <2>2. CASE PublishReady(s)
    BY <2>2 DEF PublishReady
  <2>3. CASE Await(s)
    BY <2>3 DEF Await, PublishPrelaunch
  <2>4. CASE Verify(s)
    BY <2>4 DEF Verify, PublishPrelaunch
  <2>5. CASE Spawn(s)
    BY <2>5 DEF Spawn
  <2>6. CASE Monitor(s)
    BY <2>6 DEF Monitor
  <2>7. CASE Signal(s)
    BY <2>7 DEF Signal, KillGroup
  <2>8. CASE Reap(s)
    BY <2>8 DEF Reap, KillGroup
  <2>9. CASE Publish(s)
    BY <2>9 DEF Publish, ReasonOf
  <2>10. CASE Contain(s)
    BY <2>10 DEF Contain, KillGroup, FailureReceipt
  <2>11. CASE ReleaseAlive(s)
    BY <2>11 DEF ReleaseAlive
  <2>12. CASE Feed(s)
    BY <2>12 DEF Feed
  <2>13. CASE Join(s)
    BY <2>13 DEF Join
  <2>14. CASE JoinContained(s)
    BY <2>14 DEF JoinContained, FailureReceipt
  <2> QED
    BY <1>2, <2>1, <2>2, <2>3, <2>4, <2>5, <2>6, <2>7, <2>8, <2>9, <2>10, <2>11, <2>12, <2>13, <2>14 DEF SupStep
<1>3. ASSUME NEW s \in Supervisors, SupervisorDies(s) PROVE KnowledgeInv'
  BY <1>3 DEF SupervisorDies
<1>4. CASE Outside
  BY <1>4, OutsideFrame
<1>5. CASE UNCHANGED vars
  BY <1>5 DEF vars
<1> QED
  BY <1>1, <1>2, <1>3, <1>4, <1>5, NextCases

-----------------------------------------------------------------------------
(* The theorems *)

LEMMA InitIInv == Init => IInv
<1> SUFFICES ASSUME Init PROVE IInv
  OBVIOUS
<1>1. TypeOK
  BY DEF Init, TypeOK, EngineSteps, SupSteps
<1>2. \A s \in Supervisors : sup[s] = "unborn"
  BY DEF Init
<1>3. ClaimInv /\ WorkerInv
  BY <1>2 DEF Init, None, ClaimInv, WorkerInv, Claimant, Unspawned, Tending, Sup
<1>4. KnowledgeInv
  BY DEF Init, None, KnowledgeInv
<1> QED
  BY <1>1, <1>3, <1>4 DEF IInv

LEMMA StepIInv == IInv /\ [Next]_vars => IInv'
BY StepTypes, StepClaim, StepWorker, StepKnowledge DEF IInv

(***************************************************************************)
(* The inductive invariant of an attempt: who has claimed it, what became  *)
(* of its worker, and what engines may conclude from the files.            *)
(***************************************************************************)
THEOREM AttemptInvariant == Spec => []IInv
BY InitIInv, StepIInv, PTL DEF Spec

(***************************************************************************)
(* For any number of engines, supervisors and deaths, an attempt of the    *)
(* Codex provider has one worker, its receipt says that nothing of it runs *)
(* any more, an indeterminate answer is never followed by a receipt, and a *)
(* pass was earned by a worker that ended by itself.                       *)
(***************************************************************************)
THEOREM AttemptTellsTruth == Spec => []AttemptIsSound
<1>1. IInv => AttemptIsSound
  BY DEF IInv, ClaimInv, WorkerInv, KnowledgeInv, AttemptIsSound, TypeOK, SingleWorker,
     ReceiptMeansQuiescent, IndeterminateIsFinal, PassIsEarned
<1> QED
  BY <1>1, AttemptInvariant, PTL

(* The terminal receipt is written once, whoever else could still write it. *)
ReceiptIsFinal == [][terminal # None => terminal' = terminal]_vars

(***************************************************************************)
(* terminal.json never changes once it is there: no supervisor that may    *)
(* still publish, contain or give up before the spawn is left beside it.   *)
(***************************************************************************)
THEOREM ReceiptStays == Spec => ReceiptIsFinal
<1>1. ASSUME IInv, [Next]_vars, terminal # None PROVE terminal' = terminal
  <2>1. \A s \in Supervisors : sup[s] \notin Unspawned \cup Tending
    BY <1>1 DEF IInv, WorkerInv
  <2>2. ASSUME NEW s \in Supervisors, SupStep(s) \/ SupervisorDies(s)
        PROVE  terminal' = terminal
    BY <2>1, <2>2 DEF Unspawned, Tending, Sup, files, SupStep, SupervisorDies, Claim, PublishReady, Await,
       Verify, Spawn, Feed, Monitor, Signal, Reap, Join,
       Publish, Contain, JoinContained, ReleaseAlive
  <2> QED
    BY <1>1, <2>2, NextCases, EngineFrame, OutsideFrame DEF files, vars
<1> QED
  BY <1>1, AttemptInvariant, PTL DEF Spec, ReceiptIsFinal

-----------------------------------------------------------------------------
(***************************************************************************)
(* The checkout of an attempt (Workspace).  Where a process holds the lock *)
(* of the record, what is done before the result is there, and after.      *)
(***************************************************************************)
Rolling == {"rename", "record quarantine", "rebind", "capture", "copy", "commit"}
UnderRecord == {"publish checkout", "write lease", "remove tree", "record release"} \cup Rolling
Early == {"idle", "materialize", "publish checkout", "write lease"}
Unanswered == {"roll over", "fence", "open result"} \cup Rolling
Stored == {"release", "remove tree", "record release", "settle"}

(* What the attempt may hand on. *)
Good(s) ==
  /\ s \in [Paths -> Entry] /\ purpose = "managed_output"
  /\ \A p \in Paths : s[p] \notin {"link", "program"}
  /\ {p \in Paths : s[p] # input[p]} \subseteq Declared

Kept(s) == s = Nothing \/ (Good(s) /\ s \in snapshots)

Passed ==
  /\ attempt.result \in StoredResults /\ attempt.result.code = "PASS"
  /\ attempt.result.snapshot # Nothing /\ purpose = "managed_output"

WorkspaceLocks ==
  /\ wsPc = [p \in Procs |-> wsPc[p]] /\ code = [p \in Procs |-> code[p]]
  /\ before = [p \in Procs |-> before[p]]
  /\ recordLock \in Procs \cup {Nothing} /\ finalizeLock \in Procs \cup {Nothing}
  /\ \A p \in Procs : recordLock = p <=> wsPc[p] \in UnderRecord

(* The record, and where the tree is. *)
WorkspaceFiles ==
  /\ input \in [Paths -> Entry]
  /\ checkout \in Tree \cup {Nothing} /\ quarantine \in Tree \cup {Nothing}
  /\ staging \in {"gone", "partial"} /\ record \in Records \cup {Nothing}
  /\ record # Nothing =>
       /\ Kept(record.snapshot)
       /\ record.phase = "materialized" => record.snapshot = Nothing
       /\ record.phase = "released" => record.snapshot # Nothing
       /\ checkout # Nothing \/ quarantine # Nothing \/ record.snapshot # Nothing
  /\ attempt = [launch |-> attempt.launch, stdin |-> attempt.stdin,
                state |-> attempt.state, result |-> attempt.result]
  /\ (attempt.launch # "absent" \/ attempt.state # "absent" \/ workerAt # "none") =>
       record # Nothing

(* The stored result, the artifacts, and the answer. *)
WorkspaceResult ==
  /\ attempt.result \in StoredResults \cup {Nothing, Torn}
  /\ attempt.result \notin {Nothing, Torn} =>
       /\ Kept(attempt.result.snapshot)
       /\ (attempt.result.code = "PASS" /\ purpose = "managed_output") =>
            attempt.result.snapshot # Nothing
  /\ (keys # {} \/ marker # Nothing) => Passed
  /\ \A k \in keys : k.path \in Artifacts /\ k.blob = attempt.result.snapshot[k.path]
  /\ marker # Nothing => /\ marker = Artifacts \cap Present(attempt.result.snapshot)
                         /\ \A a \in marker : \E k \in keys : k.path = a

Registers == answer.code = "PASS" /\ purpose = "managed_output" /\ Artifacts # {}

WorkspaceAnswer ==
  answer # Nothing =>
    /\ answer \in Answers /\ (answer.snapshot # Nothing => Good(answer.snapshot))
    /\ answer.artifacts = IF Registers THEN marker ELSE {}
    /\ Registers => marker # Nothing

(* What a process knows of the record and the tree at a step ...            *)
KnowsRecord(p) ==
  /\ wsPc[p] \notin Early => record # Nothing
  /\ wsPc[p] \in {"publish checkout", "write lease"} => record = Nothing
  /\ wsPc[p] = "write lease" => checkout # Nothing
  /\ wsPc[p] \in {"rename", "record quarantine"} =>
       /\ record.phase = "materialized"
       /\ code[p] = "prelaunch_failed" => purpose = "managed_output"
  /\ wsPc[p] \in {"rebind", "capture", "copy", "commit"} =>
       /\ purpose = "managed_output" /\ record.phase = "quarantined"
       /\ record.snapshot = Nothing
  /\ wsPc[p] = "capture" => quarantine # Nothing
  /\ wsPc[p] \in {"copy", "commit"} => Good(before[p])
  /\ wsPc[p] = "commit" => before[p] \in snapshots
  /\ wsPc[p] \in {"remove tree", "record release"} =>
       record.phase = "quarantined" /\ record.snapshot # Nothing
  /\ wsPc[p] = "fence" => purpose # "managed_output"

(* ... and of the result.  What is not a rejection before the launch is     *)
(* done under the lock `finalize'.                                          *)
KnowsResult(p) ==
  /\ code[p] \in {Nothing, "writes_invalid", "prelaunch_failed"}
  /\ wsPc[p] \in {"fence", "open result", "write result"} => code[p] # "prelaunch_failed"
  /\ wsPc[p] \in Unanswered \ {"open result"} => code[p] # "writes_invalid"
  /\ (wsPc[p] \in {"open result", "write result"} /\ code[p] = Nothing
       /\ purpose = "managed_output") => record.snapshot # Nothing
  /\ (wsPc[p] \in Unanswered \cup {"write result"} \cup Stored
       /\ code[p] # "prelaunch_failed") =>
       /\ finalizeLock = p
       /\ wsPc[p] \in Unanswered => attempt.result = Nothing
       /\ wsPc[p] = "write result" => attempt.result = Torn
       /\ wsPc[p] \in Stored => attempt.result \notin {Nothing, Torn}
  /\ wsPc[p] \in {"register", "seal"} => Passed
  /\ wsPc[p] = "seal" => marker # Nothing

Knows(p) == KnowsRecord(p) /\ KnowsResult(p)

WorkspaceInv ==
  /\ WorkspaceLocks /\ WorkspaceFiles /\ WorkspaceResult /\ WorkspaceAnswer
  /\ \A p \in Procs : Knows(p)

-----------------------------------------------------------------------------
(* What a process does to its own variables and to the locks when it goes   *)
(* to a step, and what it leaves of what the others know.                   *)
Moves(p, at) ==
  /\ wsPc' = [wsPc EXCEPT ![p] = at]
  /\ code' = [q \in Procs |-> code'[q]] /\ before' = [q \in Procs |-> before'[q]]
  /\ \A q \in Procs \ {p} : code'[q] = code[q] /\ before'[q] = before[q]
  /\ \/ UNCHANGED recordLock /\ (at \in UnderRecord <=> wsPc[p] \in UnderRecord)
     \/ recordLock = Nothing /\ recordLock' = p /\ at \in UnderRecord
     \/ /\ recordLock' = (IF recordLock = p THEN Nothing ELSE recordLock)
        /\ at \notin UnderRecord
  /\ \/ UNCHANGED finalizeLock
     \/ finalizeLock = Nothing /\ finalizeLock' = p
     \/ finalizeLock' = (IF finalizeLock = p THEN Nothing ELSE finalizeLock)

Spares(p) ==
  /\ UNCHANGED <<purpose, input>> /\ snapshots \subseteq snapshots'
  /\ record # Nothing => record' # Nothing
  /\ (record # Nothing /\ record.snapshot # Nothing) => record'.snapshot # Nothing
  /\ record' = record \/ recordLock = p
  /\ (checkout # Nothing => checkout' # Nothing) \/ recordLock \in {p, Nothing}
  /\ (quarantine # Nothing => quarantine' # Nothing) \/ recordLock = p
  /\ \/ attempt'.result = attempt.result
     \/ finalizeLock = p /\ attempt.result \in {Nothing, Torn}
  /\ marker # Nothing => marker' # Nothing

LEMMA Distinct ==
  ASSUME WorkspaceAssumption
  PROVE  /\ Nothing # Torn
         /\ \A x \in {Nothing, Torn} :
              /\ x \notin Procs /\ x \notin Codes /\ x \notin [Paths -> Entry]
              /\ \A set \in SUBSET Artifacts : x # set
              /\ x \notin Tree /\ x \notin StoredResults /\ x \notin Records /\ x \notin Answers
         /\ Artifacts \subseteq Paths
BY DEF WorkspaceAssumption

LEMMA LocksMove ==
  ASSUME WorkspaceAssumption, WorkspaceLocks, NEW p \in Procs, NEW at, Moves(p, at)
  PROVE  /\ WorkspaceLocks' /\ wsPc'[p] = at
         /\ \A q \in Procs \ {p} : wsPc'[q] = wsPc[q] /\ (finalizeLock = q => finalizeLock' = q)
<1>1. /\ wsPc' = [q \in Procs |-> wsPc'[q]] /\ wsPc'[p] = at
      /\ \A q \in Procs \ {p} : wsPc'[q] = wsPc[q]
  BY DEF WorkspaceLocks, Moves
<1>2. /\ recordLock' \in Procs \cup {Nothing} /\ finalizeLock' \in Procs \cup {Nothing}
      /\ \A q \in Procs \ {p} : finalizeLock = q => finalizeLock' = q
  BY Distinct DEF WorkspaceLocks, Moves
<1>3. ASSUME NEW q \in Procs
      PROVE  recordLock' = q <=> wsPc'[q] \in UnderRecord
  <2>0. recordLock = q <=> wsPc[q] \in UnderRecord
    BY DEF WorkspaceLocks
  <2>1. CASE q = p
    BY <1>1, <2>0, <2>1, Distinct DEF Moves
  <2>2. CASE q # p
    <3>1. wsPc'[q] = wsPc[q]
      BY <1>1, <2>2
    <3>2. recordLock' = q <=> recordLock = q
      BY <2>2, Distinct DEF Moves
    <3> QED
      BY <2>0, <3>1, <3>2
  <2> QED
    BY <2>1, <2>2
<1> QED
  BY <1>1, <1>2, <1>3 DEF WorkspaceLocks, Moves

LEMMA Bystanders ==
  ASSUME WorkspaceAssumption, WorkspaceLocks, NEW p \in Procs, NEW at, Moves(p, at), Spares(p),
         NEW q \in Procs \ {p}, Knows(q)
  PROVE  Knows(q)'
<1>1. /\ wsPc'[q] = wsPc[q] /\ code'[q] = code[q] /\ before'[q] = before[q]
      /\ finalizeLock = q => finalizeLock' = q
  BY LocksMove DEF Moves
<1>2. wsPc[q] \in UnderRecord =>
        /\ record' = record /\ (checkout # Nothing => checkout' # Nothing)
        /\ (quarantine # Nothing => quarantine' # Nothing)
  BY Distinct DEF WorkspaceLocks, Spares
<1>3. finalizeLock = q => attempt'.result = attempt.result
  BY DEF Spares
<1>4. Passed => Passed'
  BY Distinct DEF Passed, Spares
<1>5. \A s : Good(s) => Good(s)'
  BY DEF Good, Spares
<1>6. UNCHANGED purpose /\ snapshots \subseteq snapshots'
      /\ (record # Nothing => record' # Nothing)
      /\ ((record # Nothing /\ record.snapshot # Nothing) => record'.snapshot # Nothing)
      /\ (marker # Nothing => marker' # Nothing)
  BY DEF Spares
<1> QED
  <2>1. Good(before[q]) => Good(before[q])'
    BY <1>1, <1>5
  <2>2. KnowsRecord(q)'
    <3>1. KnowsRecord(q)
      BY DEF Knows
    <3> QED
      BY <1>1, <1>2, <1>6, <2>1, <3>1 DEF KnowsRecord, UnderRecord, Rolling
  <2>3. KnowsResult(q)'
    <3>1. KnowsResult(q) /\ (wsPc[q] \in {"open result", "write result"} => record # Nothing)
      BY DEF Knows, KnowsRecord, Early
    <3> QED
      BY <1>1, <1>3, <1>4, <1>6, <3>1 DEF KnowsResult
  <2> QED
    BY <2>2, <2>3 DEF Knows

LEMMA Composed ==
  ASSUME WorkspaceAssumption, WorkspaceInv, NEW p \in Procs, NEW at, Moves(p, at), Spares(p),
         WorkspaceFiles', WorkspaceResult', WorkspaceAnswer', Knows(p)'
  PROVE  WorkspaceInv'
BY LocksMove, Bystanders DEF WorkspaceInv

LEMMA FilesRest ==
  ASSUME WorkspaceFiles, UNCHANGED <<purpose, input, record, trees, workerAt>>,
         attempt' = attempt, snapshots \subseteq snapshots'
  PROVE  WorkspaceFiles'
BY DEF WorkspaceFiles, trees, Kept, Good

LEMMA ResultRest ==
  ASSUME WorkspaceResult, UNCHANGED <<purpose, input, keys, marker>>,
         attempt'.result = attempt.result, snapshots \subseteq snapshots'
  PROVE  WorkspaceResult'
BY DEF WorkspaceResult, Kept, Good, Passed, Present

LEMMA AnswerRest ==
  ASSUME WorkspaceAnswer, UNCHANGED <<purpose, input, answer>>,
         marker # Nothing => marker' = marker
  PROVE  WorkspaceAnswer'
BY DEF WorkspaceAnswer, Registers, Good

(* A step that leaves the files alone. *)
LEMMA Quiet ==
  ASSUME WorkspaceAssumption, WorkspaceInv, NEW p \in Procs, NEW at, Moves(p, at),
         UNCHANGED <<durable, world>>, Knows(p)'
  PROVE  WorkspaceInv'
<1>1. UNCHANGED <<purpose, input, record, trees, workerAt, attempt, snapshots, keys, marker, answer>>
      /\ UNCHANGED <<checkout, quarantine>>
  BY DEF durable, world, trees
<1>2. Spares(p)
  BY <1>1 DEF Spares
<1>3. WorkspaceFiles' /\ WorkspaceResult' /\ WorkspaceAnswer'
  BY <1>1, FilesRest, ResultRest, AnswerRest DEF WorkspaceInv
<1> QED
  BY <1>2, <1>3, Composed

LEMMA Raising ==
  ASSUME WorkspaceAssumption, WorkspaceInv, NEW p \in Procs, Raises(p),
         UNCHANGED <<durable, world>>,
         code' = [q \in Procs |-> code'[q]] /\ before' = [q \in Procs |-> before'[q]],
         \A q \in Procs \ {p} : code'[q] = code[q] /\ before'[q] = before[q],
         code'[p] \in {Nothing, "writes_invalid", "prelaunch_failed"}
  PROVE  WorkspaceInv'
<1>1. WorkspaceLocks /\ Moves(p, "idle")
  BY DEF WorkspaceInv, Raises, Goes, Moves, UnderRecord, Rolling
<1>2. wsPc'[p] = "idle"
  BY <1>1, LocksMove
<1>3. Knows(p)'
  BY <1>2 DEF Knows, KnowsRecord, KnowsResult, Early, Unanswered, Stored, Rolling
<1> QED
  BY <1>1, <1>3, Quiet

LEMMA Failing ==
  ASSUME WorkspaceAssumption, WorkspaceInv, NEW p \in Procs, WorkspaceFails(p),
         wsPc[p] \in Unanswered, UNCHANGED <<durable, world, before>>
  PROVE  WorkspaceInv'
<1>0. WorkspaceLocks /\ KnowsRecord(p) /\ KnowsResult(p)
  BY DEF WorkspaceInv, Knows
<1>1. CASE Raises(p) /\ UNCHANGED code
  BY <1>0, <1>1, Raising DEF WorkspaceLocks, KnowsResult
<1>2. CASE /\ code[p] # "prelaunch_failed" /\ Goes(p, "open result")
           /\ code' = [code EXCEPT ![p] = "writes_invalid"]
           /\ recordLock' = (IF recordLock = p THEN Nothing ELSE recordLock)
           /\ UNCHANGED finalizeLock
  <2>1. Moves(p, "open result") /\ code'[p] = "writes_invalid"
    BY <1>0, <1>2 DEF WorkspaceLocks, Goes, Moves, UnderRecord, Rolling
  <2>2. wsPc'[p] = "open result"
    BY <1>0, <2>1, LocksMove
  <2>3. UNCHANGED <<record, finalizeLock, attempt>>
    BY <1>2 DEF durable
  <2>4. record # Nothing /\ finalizeLock = p /\ attempt.result = Nothing
    BY <1>0, <1>2 DEF KnowsRecord, KnowsResult, Early, Unanswered, Rolling
  <2>5. KnowsRecord(p)'
    BY <2>2, <2>3, <2>4 DEF KnowsRecord
  <2>6. "writes_invalid" # Nothing
    BY Distinct DEF Codes
  <2>7. KnowsResult(p)'
    BY <2>1, <2>2, <2>3, <2>4, <2>6 DEF KnowsResult, Stored
  <2> QED
    BY <2>1, <2>5, <2>7, Quiet DEF Knows
<1> QED
  BY <1>1, <1>2 DEF WorkspaceFails

(* The beginning of a launch. *)
LEMMA Preparing ==
  ASSUME WorkspaceAssumption, WorkspaceInv, NEW p \in Procs, Prepare(p) \/ Recover(p)
  PROVE  WorkspaceInv'
<1>0. WorkspaceLocks /\ WorkspaceFiles /\ KnowsRecord(p) /\ KnowsResult(p)
  BY DEF WorkspaceInv, Knows
<1>1. UNCHANGED <<durable, world, fileLocks, local>> /\ wsPc[p] \in {"idle", "recover"}
  BY DEF Prepare, Recover
<1>2. PICK at \in {"materialize", "recover", "idle", "open stdin"} :
        Goes(p, at) /\ (at \in {"recover", "open stdin"} => record # Nothing)
  BY <1>0 DEF Prepare, Recover, WorkspaceFiles, KnowsRecord, Early
<1>3. Moves(p, at)
  BY <1>0, <1>1, <1>2 DEF Moves, Goes, UnderRecord, Rolling, fileLocks, local, WorkspaceLocks
<1>4. wsPc'[p] = at /\ UNCHANGED <<record, code>>
  BY <1>0, <1>1, <1>3, LocksMove DEF durable, local
<1>5. Knows(p)'
  BY <1>0, <1>2, <1>4 DEF Knows, KnowsRecord, KnowsResult, Early, Unanswered, Stored, Rolling
<1> QED
  BY <1>1, <1>3, <1>5, Quiet

LEMMA Materializing ==
  ASSUME WorkspaceAssumption, WorkspaceInv, NEW p \in Procs, Materialize(p)
  PROVE  WorkspaceInv'
<1>0. WorkspaceLocks /\ WorkspaceFiles /\ WorkspaceResult /\ WorkspaceAnswer
      /\ KnowsRecord(p) /\ KnowsResult(p)
  BY DEF WorkspaceInv, Knows
<1>1. UNCHANGED <<record, attempt, snapshots, keys, marker, world, before, code>>
      /\ wsPc[p] = "materialize"
  BY DEF Materialize
<1>2. CASE record # Nothing
  <2>1. UNCHANGED <<durable, fileLocks>>
    BY <1>1, <1>2 DEF Materialize, durable
  <2>2. PICK at \in {"inspect surfaces", "idle"} : Goes(p, at)
    BY <1>2 DEF Materialize
  <2>3. Moves(p, at)
    BY <1>0, <1>1, <2>1, <2>2 DEF Moves, Goes, UnderRecord, Rolling, fileLocks, WorkspaceLocks
  <2>4. wsPc'[p] = at
    BY <1>0, <2>3, LocksMove
  <2>5. Knows(p)'
    BY <1>0, <1>1, <1>2, <2>4 DEF Knows, KnowsRecord, KnowsResult, Early, Unanswered, Stored, Rolling
  <2> QED
    BY <1>1, <2>1, <2>3, <2>5, Quiet
<1>3. CASE record = Nothing
  <2>1. /\ recordLock = Nothing /\ recordLock' = p /\ UNCHANGED <<quarantine, finalizeLock>>
        /\ checkout' = Nothing /\ staging' = "partial" /\ Goes(p, "publish checkout")
    BY <1>3 DEF Materialize, TakeRecord
  <2>2. Moves(p, "publish checkout")
    BY <1>0, <1>1, <2>1 DEF Moves, Goes, UnderRecord, WorkspaceLocks
  <2>3. wsPc'[p] = "publish checkout"
    BY <1>0, <2>2, LocksMove
  <2>4. UNCHANGED <<purpose, input, workerAt, answer>>
    BY <1>1 DEF world
  <2>5. Knows(p)'
    BY <1>0, <1>1, <1>3, <2>3 DEF Knows, KnowsRecord, KnowsResult, Early, Unanswered, Stored, Rolling
  <2>6. Spares(p)
    BY <1>1, <2>1, <2>4 DEF Spares
  <2>7. WorkspaceFiles'
    BY <1>0, <1>1, <1>3, <2>1, <2>4 DEF WorkspaceFiles
  <2> QED
    BY <1>0, <1>1, <2>2, <2>4, <2>5, <2>6, <2>7, Composed, ResultRest, AnswerRest
<1> QED
  BY <1>2, <1>3

LEMMA Publishing ==
  ASSUME WorkspaceAssumption, WorkspaceInv, NEW p \in Procs, PublishCheckout(p)
  PROVE  WorkspaceInv'
<1>0. WorkspaceLocks /\ WorkspaceFiles /\ WorkspaceResult /\ WorkspaceAnswer
      /\ KnowsRecord(p) /\ KnowsResult(p)
  BY DEF WorkspaceInv, Knows
<1>1. /\ UNCHANGED <<record, quarantine, attempt, snapshots, keys, marker, world, fileLocks, local>>
      /\ wsPc[p] = "publish checkout" /\ Goes(p, "write lease")
      /\ checkout' = InputTree /\ staging' = "gone"
  BY DEF PublishCheckout
<1>2. Moves(p, "write lease")
  BY <1>0, <1>1 DEF Moves, Goes, UnderRecord, fileLocks, local, WorkspaceLocks
<1>3. wsPc'[p] = "write lease"
  BY <1>0, <1>2, LocksMove
<1>4. UNCHANGED <<purpose, input, workerAt, answer, code>> /\ record = Nothing
  BY <1>0, <1>1 DEF world, local, KnowsRecord
<1>5. InputTree \in Tree /\ InputTree # Nothing
  <2>1. InputTree \in Tree
    BY <1>0 DEF WorkspaceFiles, InputTree, Tree
  <2> QED
    BY <2>1, Distinct
<1>6. Knows(p)'
  BY <1>0, <1>1, <1>3, <1>4, <1>5 DEF Knows, KnowsRecord, KnowsResult, Early, Unanswered, Stored, Rolling
<1>7. Spares(p)
  BY <1>1, <1>4, <1>5 DEF Spares
<1>8. WorkspaceFiles'
  BY <1>0, <1>1, <1>4, <1>5 DEF WorkspaceFiles
<1> QED
  BY <1>0, <1>1, <1>2, <1>4, <1>6, <1>7, <1>8, Composed, ResultRest, AnswerRest

LEMMA Leasing ==
  ASSUME WorkspaceAssumption, WorkspaceInv, NEW p \in Procs, WriteLease(p)
  PROVE  WorkspaceInv'
<1>0. WorkspaceLocks /\ WorkspaceFiles /\ WorkspaceResult /\ WorkspaceAnswer
      /\ KnowsRecord(p) /\ KnowsResult(p)
  BY DEF WorkspaceInv, Knows
<1> DEFINE new == [phase |-> "materialized", revision |-> 1, rebound |-> FALSE,
                   snapshot |-> Nothing]
<1>1. /\ UNCHANGED <<trees, attempt, snapshots, keys, marker, world, finalizeLock, before, code>>
      /\ wsPc[p] = "write lease" /\ Goes(p, "inspect surfaces") /\ record' = new
      /\ recordLock' = Nothing
  BY DEF WriteLease
<1>2. recordLock = p /\ record = Nothing /\ checkout # Nothing
  BY <1>0, <1>1 DEF WorkspaceLocks, UnderRecord, KnowsRecord
<1>3. Moves(p, "inspect surfaces")
  BY <1>0, <1>1, <1>2 DEF Moves, Goes, UnderRecord, Rolling, WorkspaceLocks
<1>4. wsPc'[p] = "inspect surfaces"
  BY <1>0, <1>3, LocksMove
<1>5. UNCHANGED <<purpose, input, workerAt, answer, checkout, quarantine, staging>>
  BY <1>1 DEF world, trees
<1>6. /\ record' \in Records /\ record' # Nothing
      /\ record'.phase = "materialized" /\ record'.snapshot = Nothing
  <2>1. new \in Records
    BY DEF Records, Snapshot
  <2> QED
    BY <1>1, <2>1, Distinct
<1> HIDE DEF new
<1>7. Knows(p)'
  BY <1>0, <1>1, <1>4, <1>6 DEF Knows, KnowsRecord, KnowsResult, Unanswered, Stored, Rolling
<1>8. Spares(p)
  BY <1>1, <1>2, <1>5, <1>6 DEF Spares
<1>9. WorkspaceFiles'
  BY <1>0, <1>1, <1>2, <1>5, <1>6 DEF WorkspaceFiles, Kept
<1> QED
  BY <1>0, <1>1, <1>3, <1>5, <1>7, <1>8, <1>9, Composed, ResultRest, AnswerRest

LEMMA Inspecting ==
  ASSUME WorkspaceAssumption, WorkspaceInv, NEW p \in Procs, InspectSurfaces(p)
  PROVE  WorkspaceInv'
<1>0. WorkspaceLocks /\ KnowsRecord(p) /\ KnowsResult(p)
  BY DEF WorkspaceInv, Knows
<1>1. UNCHANGED <<durable, world, fileLocks, lease, before>> /\ wsPc[p] = "inspect surfaces"
  BY DEF InspectSurfaces
<1>2. PICK at, new : /\ Goes(p, at) /\ code' = [code EXCEPT ![p] = new]
                     /\ \/ at = "roll over" /\ new = "prelaunch_failed"
                        \/ at = "open launch" /\ new = Nothing
  BY DEF InspectSurfaces
<1>3. Moves(p, at) /\ code'[p] = new
  BY <1>0, <1>1, <1>2 DEF Moves, Goes, UnderRecord, Rolling, fileLocks, WorkspaceLocks
<1>4. wsPc'[p] = at /\ UNCHANGED record /\ record # Nothing
  BY <1>0, <1>1, <1>3, LocksMove DEF durable, KnowsRecord, Early
<1>5. Knows(p)'
  BY <1>2, <1>3, <1>4 DEF Knows, KnowsRecord, KnowsResult, Unanswered, Stored, Rolling
<1> QED
  BY <1>1, <1>3, <1>5, Quiet

(* The files of the launch. *)
LEMMA WritingOnce ==
  ASSUME WorkspaceAssumption, WorkspaceInv, NEW p \in Procs,
         WritePrepared(p) \/ \E f \in {"launch", "stdin"} : OpenOnce(p, f) \/ WriteOnce(p, f)
  PROVE  WorkspaceInv'
<1>0. WorkspaceLocks /\ WorkspaceFiles /\ WorkspaceResult /\ WorkspaceAnswer
      /\ KnowsRecord(p) /\ KnowsResult(p)
  BY DEF WorkspaceInv, Knows
<1> DEFINE here == {"open launch", "open stdin", "write launch", "write stdin", "write state"}
           there == {"write launch", "write stdin", "open stdin", "write state", "idle"}
<1>a. \A f \in {"launch", "stdin"} :
        /\ OpenStep[f] \in here /\ WriteStep[f] \in here
        /\ WriteStep[f] \in there /\ AfterFile[f] \in there
  <2>1. /\ OpenStep["launch"] = "open launch" /\ OpenStep["stdin"] = "open stdin"
        /\ WriteStep["launch"] = "write launch" /\ WriteStep["stdin"] = "write stdin"
        /\ AfterFile["launch"] = "open stdin" /\ AfterFile["stdin"] = "write state"
    BY DEF OpenStep, WriteStep, AfterFile
  <2>2. ASSUME NEW f \in {"launch", "stdin"}
        PROVE  /\ OpenStep[f] \in here /\ WriteStep[f] \in here
               /\ WriteStep[f] \in there /\ AfterFile[f] \in there
    <3>1. CASE f = "launch"
      BY <2>1, <3>1
    <3>2. CASE f = "stdin"
      BY <2>1, <3>2
    <3> QED
      BY <3>1, <3>2
  <2> QED
    BY <2>2
<1>b. \/ WritePrepared(p)
      \/ \E f \in {"launch", "stdin"} : OpenOnce(p, f) \/ WriteOnce(p, f)
  OBVIOUS
<1>1. UNCHANGED <<record, trees, snapshots, keys, marker, world, fileLocks, local>>
      /\ wsPc[p] \in here
  <2>1. CASE WritePrepared(p)
    BY <2>1 DEF WritePrepared
  <2>2. ASSUME NEW f \in {"launch", "stdin"}, OpenOnce(p, f) \/ WriteOnce(p, f)
        PROVE  UNCHANGED <<record, trees, snapshots, keys, marker, world, fileLocks, local>>
               /\ wsPc[p] \in here
    <3> HIDE DEF here
    <3> QED
      BY <1>a, <2>2 DEF OpenOnce, WriteOnce
  <2> QED
    BY <1>b, <2>1, <2>2
<1>2. PICK at \in there : Goes(p, at)
  <2>1. CASE WritePrepared(p)
    BY <2>1 DEF WritePrepared
  <2>2. ASSUME NEW f \in {"launch", "stdin"}, OpenOnce(p, f) \/ WriteOnce(p, f)
        PROVE  \E at \in there : Goes(p, at)
    <3>1. "idle" \in there
      OBVIOUS
    <3> HIDE DEF there
    <3> QED
      BY <1>a, <2>2, <3>1 DEF OpenOnce, WriteOnce
  <2> QED
    BY <1>b, <2>1, <2>2
<1> DEFINE Rest == /\ attempt'.result = attempt.result
                   /\ attempt' = [launch |-> attempt'.launch, stdin |-> attempt'.stdin,
                                  state |-> attempt'.state, result |-> attempt'.result]
<1>3. Rest
  <2>0. attempt = [launch |-> attempt.launch, stdin |-> attempt.stdin,
                   state |-> attempt.state, result |-> attempt.result]
    BY <1>0 DEF WorkspaceFiles
  <2>1. CASE attempt' = [attempt EXCEPT !.state = "prepared"]
    BY <2>0, <2>1
  <2>2. ASSUME NEW v, attempt' = [attempt EXCEPT !.launch = v]
        PROVE  Rest
    BY <2>0, <2>2
  <2>3. ASSUME NEW v, attempt' = [attempt EXCEPT !.stdin = v]
        PROVE  Rest
    BY <2>0, <2>3
  <2>4. CASE attempt' = attempt
    BY <2>0, <2>4
  <2>5. \/ attempt' = [attempt EXCEPT !.state = "prepared"] \/ attempt' = attempt
        \/ \E v : \/ attempt' = [attempt EXCEPT !.launch = v]
                  \/ attempt' = [attempt EXCEPT !.stdin = v]
    <3>1. CASE WritePrepared(p)
      BY <3>1 DEF WritePrepared
    <3>2. ASSUME NEW f \in {"launch", "stdin"}, OpenOnce(p, f) \/ WriteOnce(p, f)
          PROVE  attempt' = attempt \/ \E v : attempt' = [attempt EXCEPT ![f] = v]
      BY <3>2 DEF OpenOnce, WriteOnce
    <3>3. ASSUME NEW f \in {"launch", "stdin"}, NEW v, attempt' = [attempt EXCEPT ![f] = v]
          PROVE  \/ attempt' = [attempt EXCEPT !.launch = v]
                 \/ attempt' = [attempt EXCEPT !.stdin = v]
      BY <3>3
    <3> QED
      BY <1>b, <3>1, <3>2, <3>3
  <2> QED
    BY <2>1, <2>2, <2>3, <2>4, <2>5
<1>4. Moves(p, at)
  BY <1>0, <1>1, <1>2 DEF Moves, Goes, UnderRecord, Rolling, fileLocks, local, WorkspaceLocks
<1>5. wsPc'[p] = at
  BY <1>0, <1>4, LocksMove
<1>6. UNCHANGED <<purpose, input, workerAt, answer, checkout, quarantine, staging, code>>
      /\ record # Nothing /\ attempt'.result = attempt.result
  <2>1. attempt'.result = attempt.result
    BY <1>3
  <2> QED
    BY <1>0, <1>1, <2>1 DEF world, trees, local, KnowsRecord, Early
<1>7. Knows(p)'
  BY <1>0, <1>1, <1>2, <1>5, <1>6 DEF Knows, KnowsRecord, KnowsResult, Unanswered, Stored, Rolling
<1>8. Spares(p)
  BY <1>1, <1>6 DEF Spares
<1>9. WorkspaceFiles'
  BY <1>0, <1>1, <1>3, <1>6 DEF WorkspaceFiles, Kept, Good
<1> QED
  BY <1>0, <1>1, <1>4, <1>6, <1>7, <1>8, <1>9, Composed, ResultRest, AnswerRest

(* quarantine_and_rollover. *)
LEMMA Rolls ==
  ASSUME WorkspaceAssumption, WorkspaceInv, NEW p \in Procs, RollOver(p)
  PROVE  WorkspaceInv'
<1>0. WorkspaceLocks /\ WorkspaceFiles /\ KnowsRecord(p) /\ KnowsResult(p)
  BY DEF WorkspaceInv, Knows
<1>1. UNCHANGED <<durable, world, lease, before>> /\ wsPc[p] = "roll over" /\ recordLock = Nothing
  BY DEF RollOver
<1>2. CASE WorkspaceFails(p)
  BY <1>1, <1>2, Failing DEF Unanswered
<1>3. CASE ~WorkspaceFails(p)
  <2>0. /\ record # Nothing /\ code[p] \in {Nothing, "prelaunch_failed"}
        /\ UNCHANGED <<record, attempt, purpose>>
    BY <1>0, <1>1 DEF KnowsRecord, KnowsResult, Early, Unanswered, durable, world
  <2>1. purpose = "managed_output" /\ record.phase \in {"materialized", "quarantined"}
    BY <1>0, <1>3, <2>0 DEF RollOver, WorkspaceFiles, Records
  <2>2. PICK at : /\ Goes(p, at) /\ UNCHANGED <<finalizeLock, code>>
                  /\ \/ /\ UNCHANGED recordLock /\ record.snapshot # Nothing
                        /\ at = IF code[p] = Nothing THEN "open result" ELSE "release"
                     \/ /\ recordLock' = p /\ at = "rename" /\ record.phase = "materialized"
                     \/ /\ recordLock' = p /\ at = "rebind" /\ record.phase = "quarantined"
                        /\ record.snapshot = Nothing
    BY <1>3, <2>1 DEF RollOver, TakeRecord, fileLocks
  <2>3. Moves(p, at)
    BY <1>0, <1>1, <2>2 DEF Moves, Goes, UnderRecord, Rolling, WorkspaceLocks
  <2>4. wsPc'[p] = at
    BY <1>0, <2>3, LocksMove
  <2>5. Nothing # "prelaunch_failed" /\ Nothing # "writes_invalid"
    BY Distinct DEF Codes
  <2>6. KnowsRecord(p)'
    BY <2>0, <2>1, <2>2, <2>4 DEF KnowsRecord
  <2>7. code[p] # "prelaunch_failed" => finalizeLock = p /\ attempt.result = Nothing
    BY <1>0, <1>1 DEF KnowsResult, Unanswered
  <2>8. UNCHANGED <<record, attempt, purpose, code, finalizeLock>>
    BY <2>0, <2>2
  <2>9. at \in {"open result", "release", "rename", "rebind"}
        /\ (at = "open result" => record.snapshot # Nothing /\ code[p] = Nothing)
        /\ (at = "release" => code[p] = "prelaunch_failed")
    BY <2>0, <2>2
  <2>10. KnowsResult(p)'
    <3>1. CASE at \in {"open result", "release"}
      BY <2>0, <2>4, <2>5, <2>7, <2>8, <2>9, <3>1 DEF KnowsResult, Unanswered, Stored, Rolling
    <3>2. CASE at \in {"rename", "rebind"}
      BY <2>0, <2>4, <2>5, <2>7, <2>8, <2>9, <3>2 DEF KnowsResult, Unanswered, Stored, Rolling
    <3> QED
      BY <2>9, <3>1, <3>2
  <2> QED
    BY <1>1, <2>3, <2>6, <2>10, Quiet DEF Knows
<1> QED
  BY <1>2, <1>3

LEMMA Renaming ==
  ASSUME WorkspaceAssumption, WorkspaceInv, NEW p \in Procs, Rename(p)
  PROVE  WorkspaceInv'
<1>0. WorkspaceLocks /\ WorkspaceFiles /\ WorkspaceResult /\ WorkspaceAnswer
      /\ KnowsRecord(p) /\ KnowsResult(p)
  BY DEF WorkspaceInv, Knows
<1>1. /\ UNCHANGED <<record, attempt, snapshots, keys, marker, world, lease, before>>
      /\ wsPc[p] = "rename"
  BY DEF Rename
<1>2. CASE WorkspaceFails(p) /\ UNCHANGED trees
  BY <1>1, <1>2, Failing DEF Unanswered, Rolling, durable
<1>3. CASE /\ Goes(p, "record quarantine") /\ UNCHANGED <<fileLocks, code>>
           /\ \/ UNCHANGED trees
              \/ /\ quarantine = Nothing /\ quarantine' = checkout /\ checkout' = Nothing
                 /\ UNCHANGED staging
  <2>0. UNCHANGED <<purpose, input, workerAt, answer>> /\ recordLock = p /\ record # Nothing
    BY <1>0, <1>1 DEF world, WorkspaceLocks, UnderRecord, Rolling, KnowsRecord, Early
  <2>1. Moves(p, "record quarantine")
    BY <1>0, <1>1, <1>3 DEF Moves, Goes, UnderRecord, Rolling, WorkspaceLocks, fileLocks
  <2>2. wsPc'[p] = "record quarantine"
    BY <1>0, <2>1, LocksMove
  <2>3. Knows(p)'
    BY <1>0, <1>1, <1>3, <2>0, <2>2
    DEF Knows, KnowsRecord, KnowsResult, Unanswered, Stored, Rolling, fileLocks
  <2>4. Spares(p)
    BY <1>1, <1>3, <2>0 DEF Spares
  <2>5. record.phase = "materialized" /\ record.snapshot = Nothing
        /\ (checkout # Nothing \/ quarantine # Nothing)
    BY <1>0, <1>1, <2>0 DEF KnowsRecord, WorkspaceFiles
  <2>6. WorkspaceFiles'
    BY <1>0, <1>1, <1>3, <2>0, <2>5 DEF WorkspaceFiles, trees, Kept, Good
  <2> QED
    BY <1>0, <1>1, <2>0, <2>1, <2>3, <2>4, <2>6, Composed, ResultRest, AnswerRest
<1> QED
  BY <1>2, <1>3 DEF Rename

(* What an edit of the record leaves.                                       *)
LEMMA RecordEdits ==
  ASSUME NEW x \in Records
  PROVE  /\ x.revision \in Nat /\ x.snapshot \in Snapshot
         /\ \A ph \in {"materialized", "quarantined", "released"} :
              LET y == [x EXCEPT !.phase = ph, !.revision = x.revision + 1]
              IN  y \in Records /\ y.phase = ph /\ y.snapshot = x.snapshot
         /\ LET y == [x EXCEPT !.rebound = TRUE, !.revision = x.revision + 1]
            IN  y \in Records /\ y.phase = x.phase /\ y.snapshot = x.snapshot
         /\ \A s \in Snapshot :
              LET y == [x EXCEPT !.snapshot = s, !.revision = x.revision + 1]
              IN  y \in Records /\ y.phase = x.phase /\ y.snapshot = s
<1>1. x.revision \in Nat /\ x.snapshot \in Snapshot /\ x.revision + 1 \in Nat
  BY DEF Records
<1>2. ASSUME NEW n \in Nat, NEW ph \in {"materialized", "quarantined", "released"}
      PROVE  LET y == [x EXCEPT !.phase = ph, !.revision = n]
             IN  y \in Records /\ y.phase = ph /\ y.snapshot = x.snapshot
  BY DEF Records
<1>3. ASSUME NEW n \in Nat
      PROVE  LET y == [x EXCEPT !.rebound = TRUE, !.revision = n]
             IN  y \in Records /\ y.phase = x.phase /\ y.snapshot = x.snapshot
  BY DEF Records
<1>4. ASSUME NEW n \in Nat, NEW s \in Snapshot
      PROVE  LET y == [x EXCEPT !.snapshot = s, !.revision = n]
             IN  y \in Records /\ y.phase = x.phase /\ y.snapshot = s
  BY DEF Records
<1> QED
  BY <1>1, <1>2, <1>3, <1>4

(* What is written to the record, under its lock.                           *)
LEMMA RecordWritten ==
  ASSUME WorkspaceAssumption, WorkspaceInv, NEW p \in Procs, NEW at, Moves(p, at), recordLock = p,
         UNCHANGED <<trees, attempt, snapshots, keys, marker, world>>,
         record # Nothing, record' \in Records, Kept(record'.snapshot),
         record'.phase # "materialized", record'.phase = "released" => record'.snapshot # Nothing,
         record.snapshot # Nothing => record'.snapshot # Nothing,
         Knows(p)'
  PROVE  WorkspaceInv'
<1>0. WorkspaceFiles /\ WorkspaceResult /\ WorkspaceAnswer
  BY DEF WorkspaceInv
<1>1. UNCHANGED <<purpose, input, workerAt, answer, checkout, quarantine, staging>>
  BY DEF world, trees
<1>2. record' # Nothing
  BY Distinct
<1>3. Spares(p)
  BY <1>1, <1>2 DEF Spares
<1>4. WorkspaceFiles'
  BY <1>0, <1>1, <1>2 DEF WorkspaceFiles, Kept, Good
<1> QED
  BY <1>0, <1>1, <1>3, <1>4, Composed, ResultRest, AnswerRest

LEMMA Quarantining ==
  ASSUME WorkspaceAssumption, WorkspaceInv, NEW p \in Procs, RecordQuarantine(p)
  PROVE  WorkspaceInv'
<1>0. WorkspaceLocks /\ WorkspaceFiles /\ KnowsRecord(p) /\ KnowsResult(p)
  BY DEF WorkspaceInv, Knows
<1>1. /\ UNCHANGED <<trees, attempt, snapshots, keys, marker, world, finalizeLock, before, code>>
      /\ wsPc[p] = "record quarantine"
      /\ record' = [record EXCEPT !.phase = "quarantined", !.revision = record.revision + 1]
  BY DEF RecordQuarantine
<1>2. record \in Records /\ record # Nothing /\ recordLock = p /\ Kept(record.snapshot)
      /\ record.snapshot = Nothing
  BY <1>0, <1>1 DEF WorkspaceFiles, KnowsRecord, Early, WorkspaceLocks, UnderRecord, Rolling
<1>3. /\ record' \in Records /\ record'.phase = "quarantined"
      /\ record'.snapshot = record.snapshot
  BY <1>1, <1>2, RecordEdits
<1>4. PICK at \in {"rebind", "open result"} :
        /\ Goes(p, at) /\ (at = "rebind" <=> purpose = "managed_output")
        /\ recordLock' = IF at = "rebind" THEN recordLock ELSE Nothing
  BY DEF RecordQuarantine
<1>5. Moves(p, at)
  BY <1>0, <1>1, <1>2, <1>4 DEF Moves, Goes, UnderRecord, Rolling, WorkspaceLocks
<1>6. wsPc'[p] = at /\ UNCHANGED purpose
  BY <1>0, <1>1, <1>5, LocksMove DEF world
<1>7. record' # Nothing
  BY <1>3, Distinct
<1>8. KnowsRecord(p)'
  BY <1>0, <1>2, <1>3, <1>4, <1>6, <1>7 DEF KnowsRecord
<1>9. /\ purpose # "managed_output" => code[p] # "prelaunch_failed"
      /\ code[p] # "prelaunch_failed" => finalizeLock = p /\ attempt.result = Nothing
      /\ code[p] # "writes_invalid"
  BY <1>0, <1>1 DEF KnowsRecord, KnowsResult, Unanswered, Rolling
<1>10. KnowsResult(p)'
  BY <1>0, <1>1, <1>4, <1>6, <1>9 DEF KnowsResult, Unanswered, Stored, Rolling
<1>11. Kept(record'.snapshot)
  BY <1>2, <1>3 DEF Kept
<1> QED
  BY <1>1, <1>2, <1>3, <1>5, <1>8, <1>10, <1>11, RecordWritten DEF Knows

LEMMA Rebinding ==
  ASSUME WorkspaceAssumption, WorkspaceInv, NEW p \in Procs, Rebind(p)
  PROVE  WorkspaceInv'
<1>0. WorkspaceLocks /\ WorkspaceFiles /\ KnowsRecord(p) /\ KnowsResult(p)
  BY DEF WorkspaceInv, Knows
<1>1. /\ UNCHANGED <<trees, attempt, snapshots, keys, marker, world, lease, before>>
      /\ wsPc[p] = "rebind"
  BY DEF Rebind
<1>2. CASE WorkspaceFails(p) /\ UNCHANGED record
  BY <1>1, <1>2, Failing DEF Unanswered, Rolling, durable
<1>3. CASE /\ Relocates(quarantine) /\ Goes(p, "capture") /\ UNCHANGED <<fileLocks, code>>
           /\ record' = IF record.rebound THEN record
                        ELSE [record EXCEPT !.rebound = TRUE, !.revision = record.revision + 1]
  <2>1. record \in Records /\ record # Nothing /\ recordLock = p /\ Kept(record.snapshot)
        /\ record.phase = "quarantined" /\ record.snapshot = Nothing
        /\ purpose = "managed_output"
    BY <1>0, <1>1 DEF WorkspaceFiles, KnowsRecord, Early, WorkspaceLocks, UnderRecord, Rolling
  <2>2. record' \in Records /\ record'.phase = "quarantined" /\ record'.snapshot = Nothing
    <3>1. CASE record' = record
      BY <2>1, <3>1
    <3>2. CASE record' = [record EXCEPT !.rebound = TRUE, !.revision = record.revision + 1]
      BY <2>1, <3>2, RecordEdits
    <3> QED
      BY <1>3, <3>1, <3>2
  <2>3. Moves(p, "capture")
    BY <1>0, <1>1, <1>3 DEF Moves, Goes, UnderRecord, Rolling, WorkspaceLocks, fileLocks
  <2>4. wsPc'[p] = "capture" /\ UNCHANGED <<purpose, quarantine, finalizeLock, code>>
    BY <1>0, <1>1, <1>3, <2>3, LocksMove DEF world, trees, fileLocks
  <2>5. record' # Nothing /\ quarantine # Nothing
    BY <1>3, <2>2, Distinct DEF Relocates
  <2>6. Knows(p)'
    BY <1>0, <1>1, <2>1, <2>2, <2>4, <2>5
    DEF Knows, KnowsRecord, KnowsResult, Unanswered, Stored, Rolling
  <2>7. Kept(record'.snapshot)
    BY <2>2 DEF Kept
  <2> QED
    BY <1>1, <2>1, <2>2, <2>3, <2>6, <2>7, RecordWritten
<1> QED
  BY <1>2, <1>3 DEF Rebind

LEMMA Capturing ==
  ASSUME WorkspaceAssumption, WorkspaceInv, NEW p \in Procs, Capture(p)
  PROVE  WorkspaceInv'
<1>0. WorkspaceLocks /\ WorkspaceFiles /\ KnowsRecord(p) /\ KnowsResult(p)
  BY DEF WorkspaceInv, Knows
<1>1. UNCHANGED <<durable, world, lease>> /\ wsPc[p] = "capture"
  BY DEF Capture
<1>2. CASE WorkspaceFails(p) /\ UNCHANGED before
  BY <1>1, <1>2, Failing DEF Unanswered, Rolling
<1>3. CASE /\ ValidOutput(quarantine) /\ Faithful(quarantine.files) /\ Goes(p, "copy")
           /\ before' = [before EXCEPT ![p] = quarantine.files] /\ UNCHANGED <<fileLocks, code>>
  <2>1. Moves(p, "copy") /\ before'[p] = quarantine.files
    BY <1>0, <1>1, <1>3 DEF Moves, Goes, UnderRecord, Rolling, WorkspaceLocks, fileLocks
  <2>2. /\ wsPc'[p] = "copy"
        /\ UNCHANGED <<purpose, input, record, snapshots, attempt, finalizeLock, code>>
    BY <1>0, <1>1, <1>3, <2>1, LocksMove DEF world, durable, fileLocks
  <2>3. quarantine \in Tree /\ purpose = "managed_output"
    BY <1>0, <1>1 DEF WorkspaceFiles, KnowsRecord
  <2>4. quarantine.files \in [Paths -> Entry]
    BY <2>3 DEF Tree
  <2>5. Good(before[p])'
    BY <1>3, <2>1, <2>2, <2>3, <2>4 DEF Good, ValidOutput, Faithful, CompareEffect, Allowed
  <2>6. Knows(p)'
    BY <1>0, <1>1, <2>2, <2>5 DEF Knows, KnowsRecord, KnowsResult, Early, Unanswered, Stored, Rolling
  <2> QED
    BY <1>1, <2>1, <2>6, Quiet
<1> QED
  BY <1>2, <1>3 DEF Capture

LEMMA Copying ==
  ASSUME WorkspaceAssumption, WorkspaceInv, NEW p \in Procs, Copy(p)
  PROVE  WorkspaceInv'
<1>0. WorkspaceLocks /\ WorkspaceFiles /\ WorkspaceResult /\ WorkspaceAnswer
      /\ KnowsRecord(p) /\ KnowsResult(p)
  BY DEF WorkspaceInv, Knows
<1>1. /\ UNCHANGED <<record, trees, attempt, keys, marker, world, lease, before>>
      /\ wsPc[p] = "copy"
  BY DEF Copy
<1>2. CASE WorkspaceFails(p) /\ UNCHANGED snapshots
  BY <1>1, <1>2, Failing DEF Unanswered, Rolling, durable
<1>3. CASE /\ snapshots' = snapshots \cup {before[p]} /\ Goes(p, "commit")
           /\ UNCHANGED <<fileLocks, code>>
  <2>1. Moves(p, "commit")
    BY <1>0, <1>1, <1>3 DEF Moves, Goes, UnderRecord, Rolling, WorkspaceLocks, fileLocks
  <2>2. /\ wsPc'[p] = "commit" /\ snapshots \subseteq snapshots' /\ before[p] \in snapshots'
        /\ UNCHANGED <<purpose, input, workerAt, answer, finalizeLock, code,
                       checkout, quarantine, staging>>
    BY <1>0, <1>1, <1>3, <2>1, LocksMove DEF world, fileLocks, trees
  <2>3. Good(before[p])'
    BY <1>0, <1>1, <2>2 DEF Good, KnowsRecord
  <2>4. Knows(p)'
    BY <1>0, <1>1, <2>2, <2>3 DEF Knows, KnowsRecord, KnowsResult, Early, Unanswered, Stored, Rolling
  <2>5. Spares(p)
    BY <1>1, <2>2 DEF Spares
  <2>6. WorkspaceFiles' /\ WorkspaceResult' /\ WorkspaceAnswer'
    BY <1>0, <1>1, <2>2, FilesRest, ResultRest, AnswerRest
  <2> QED
    BY <2>1, <2>4, <2>5, <2>6, Composed
<1> QED
  BY <1>2, <1>3 DEF Copy

LEMMA Committing ==
  ASSUME WorkspaceAssumption, WorkspaceInv, NEW p \in Procs, CommitRollover(p)
  PROVE  WorkspaceInv'
<1>0. WorkspaceLocks /\ WorkspaceFiles /\ KnowsRecord(p) /\ KnowsResult(p)
  BY DEF WorkspaceInv, Knows
<1>1. /\ UNCHANGED <<trees, attempt, snapshots, keys, marker, world, finalizeLock, before, code>>
      /\ wsPc[p] = "commit" /\ recordLock' = Nothing
      /\ record' = [record EXCEPT !.snapshot = before[p], !.revision = record.revision + 1]
  BY DEF CommitRollover
<1>2. PICK at : /\ Goes(p, at)
                /\ at = IF code[p] = Nothing THEN "open result" ELSE "release"
  BY DEF CommitRollover
<1>3. /\ record \in Records /\ record # Nothing /\ recordLock = p
      /\ record.phase = "quarantined" /\ purpose = "managed_output"
      /\ Good(before[p]) /\ before[p] \in snapshots
  BY <1>0, <1>1 DEF WorkspaceFiles, KnowsRecord, Early, WorkspaceLocks, UnderRecord, Rolling
<1>4. before[p] \in Snapshot /\ before[p] # Nothing
  BY <1>3, Distinct DEF Good, Snapshot
<1>5. /\ record' \in Records /\ record'.phase = "quarantined"
      /\ record'.snapshot = before[p]
  BY <1>1, <1>3, <1>4, RecordEdits
<1>6. Moves(p, at)
  BY <1>0, <1>1, <1>2, <1>3 DEF Moves, Goes, UnderRecord, Rolling, WorkspaceLocks
<1>7. wsPc'[p] = at /\ UNCHANGED purpose
  BY <1>0, <1>6, <1>1, LocksMove DEF world
<1>8. /\ record' # Nothing /\ Nothing \notin {"prelaunch_failed", "writes_invalid"}
      /\ at \in {"open result", "release"}
  BY <1>2, <1>5, Distinct DEF Codes
<1>9. KnowsRecord(p)'
  BY <1>2, <1>7, <1>8 DEF KnowsRecord
<1>10. /\ code[p] # "prelaunch_failed" => finalizeLock = p /\ attempt.result = Nothing
       /\ code[p] \in {Nothing, "prelaunch_failed"}
  BY <1>0, <1>1 DEF KnowsResult, Unanswered, Rolling
<1>11. KnowsResult(p)'
  BY <1>1, <1>2, <1>4, <1>5, <1>7, <1>8, <1>10 DEF KnowsResult, Unanswered, Stored, Rolling
<1>12. Kept(record'.snapshot)
  BY <1>3, <1>5 DEF Kept
<1> QED
  BY <1>1, <1>3, <1>4, <1>5, <1>6, <1>9, <1>11, <1>12, RecordWritten DEF Knows

LEMMA Fencing ==
  ASSUME WorkspaceAssumption, WorkspaceInv, NEW p \in Procs, Fence(p)
  PROVE  WorkspaceInv'
<1>0. WorkspaceLocks /\ WorkspaceFiles /\ KnowsRecord(p) /\ KnowsResult(p)
  BY DEF WorkspaceInv, Knows
<1>1. UNCHANGED <<durable, world, lease, before>> /\ wsPc[p] = "fence"
  BY DEF Fence
<1>2. CASE WorkspaceFails(p)
  BY <1>1, <1>2, Failing DEF Unanswered
<1>3. CASE ~WorkspaceFails(p)
  <2>1. /\ record # Nothing /\ purpose # "managed_output"
        /\ code[p] # "prelaunch_failed" /\ code[p] # "writes_invalid"
        /\ finalizeLock = p /\ attempt.result = Nothing
        /\ UNCHANGED <<record, attempt, purpose>>
    BY <1>0, <1>1 DEF KnowsRecord, KnowsResult, Early, Unanswered, durable, world
  <2>2. record.phase \in {"materialized", "quarantined"}
    BY <1>0, <1>3, <2>1 DEF Fence, WorkspaceFiles, Records
  <2>3. PICK at : /\ Goes(p, at) /\ UNCHANGED <<finalizeLock, code>>
                  /\ \/ UNCHANGED recordLock /\ at = "open result"
                     \/ /\ recordLock = Nothing /\ recordLock' = p /\ at = "rename"
                        /\ record.phase = "materialized"
    BY <1>3, <2>2 DEF Fence, TakeRecord, fileLocks
  <2>4. Moves(p, at)
    BY <1>0, <1>1, <2>3 DEF Moves, Goes, UnderRecord, Rolling, WorkspaceLocks
  <2>5. wsPc'[p] = at
    BY <1>0, <2>4, LocksMove
  <2>6. Knows(p)'
    BY <1>0, <2>1, <2>3, <2>5 DEF Knows, KnowsRecord, KnowsResult, Unanswered, Stored, Rolling
  <2> QED
    BY <1>1, <2>4, <2>6, Quiet
<1> QED
  BY <1>2, <1>3

LEMMA Finalizing ==
  ASSUME WorkspaceAssumption, WorkspaceInv, NEW p \in Procs, FinalizeAttempt(p)
  PROVE  WorkspaceInv'
<1>0. WorkspaceLocks /\ WorkspaceFiles /\ KnowsRecord(p) /\ KnowsResult(p)
  BY DEF WorkspaceInv, Knows
<1>1. /\ UNCHANGED <<durable, world, recordLock, before>> /\ wsPc[p] = "idle"
      /\ finalizeLock = Nothing /\ finalizeLock' = p /\ code' = [code EXCEPT ![p] = Nothing]
      /\ workerAt = "ended" /\ attempt.result # Torn
  BY DEF FinalizeAttempt
<1>2. PICK at : /\ Goes(p, at)
                /\ \/ at = "release" /\ attempt.result # Nothing
                   \/ /\ at = "roll over" /\ attempt.result = Nothing
                      /\ purpose = "managed_output"
                   \/ /\ at = "fence" /\ attempt.result = Nothing
                      /\ purpose # "managed_output"
  BY DEF FinalizeAttempt
<1>3. Moves(p, at) /\ code'[p] = Nothing
  BY <1>0, <1>1, <1>2 DEF Moves, Goes, UnderRecord, Rolling, WorkspaceLocks
<1>4. wsPc'[p] = at /\ UNCHANGED <<purpose, record, attempt>> /\ record # Nothing
  BY <1>0, <1>1, <1>3, LocksMove DEF world, durable, WorkspaceFiles
<1>5. Nothing \notin {"prelaunch_failed", "writes_invalid"}
  BY Distinct DEF Codes
<1>6. Knows(p)'
  BY <1>1, <1>2, <1>3, <1>4, <1>5 DEF Knows, KnowsRecord, KnowsResult, Unanswered, Stored, Rolling
<1> QED
  BY <1>1, <1>3, <1>6, Quiet

(* result.json, under the lock of the finalization: nothing was registered  *)
(* of a result that is not there yet.                                       *)
LEMMA ResultWritten ==
  ASSUME WorkspaceAssumption, WorkspaceInv, NEW p \in Procs, NEW at, Moves(p, at), NEW stored,
         attempt' = [attempt EXCEPT !.result = stored],
         UNCHANGED <<record, trees, snapshots, keys, marker, world>>,
         finalizeLock = p, attempt.result \in {Nothing, Torn},
         \/ stored = Torn
         \/ /\ stored \in StoredResults /\ Kept(stored.snapshot)
            /\ (stored.code = "PASS" /\ purpose = "managed_output") => stored.snapshot # Nothing,
         record # Nothing, Knows(p)'
  PROVE  WorkspaceInv'
<1>0. WorkspaceFiles /\ WorkspaceResult /\ WorkspaceAnswer
  BY DEF WorkspaceInv
<1>1. UNCHANGED <<purpose, input, workerAt, answer, checkout, quarantine, staging>>
  BY DEF world, trees
<1>2. attempt = [launch |-> attempt.launch, stdin |-> attempt.stdin,
                 state |-> attempt.state, result |-> attempt.result]
  BY <1>0 DEF WorkspaceFiles
<1>3. /\ attempt'.result = stored
      /\ attempt' = [launch |-> attempt'.launch, stdin |-> attempt'.stdin,
                     state |-> attempt'.state, result |-> attempt'.result]
  BY <1>2
<1>4. keys = {} /\ marker = Nothing
  BY <1>0, Distinct DEF WorkspaceResult, Passed
<1>5. Spares(p)
  BY <1>1, <1>3 DEF Spares
<1>6. WorkspaceFiles'
  BY <1>0, <1>1, <1>3 DEF WorkspaceFiles, Kept, Good
<1>7. Kept(stored.snapshot) => Kept(stored.snapshot)'
  BY <1>1 DEF Kept, Good
<1>8. WorkspaceResult'
  BY <1>1, <1>3, <1>4, <1>7 DEF WorkspaceResult
<1> QED
  BY <1>0, <1>1, <1>5, <1>6, <1>8, Composed, AnswerRest

LEMMA OpeningResult ==
  ASSUME WorkspaceAssumption, WorkspaceInv, NEW p \in Procs, OpenResult(p)
  PROVE  WorkspaceInv'
<1>0. WorkspaceLocks /\ WorkspaceFiles /\ KnowsRecord(p) /\ KnowsResult(p)
  BY DEF WorkspaceInv, Knows
<1>1. /\ UNCHANGED <<record, trees, snapshots, keys, marker, world, fileLocks, local>>
      /\ wsPc[p] = "open result" /\ Goes(p, "write result")
      /\ attempt' = [attempt EXCEPT !.result = Torn]
  BY DEF OpenResult
<1>2. /\ record # Nothing /\ code[p] # "prelaunch_failed"
      /\ finalizeLock = p /\ attempt.result = Nothing
  BY <1>0, <1>1 DEF KnowsRecord, KnowsResult, Early, Unanswered
<1>3. Moves(p, "write result")
  BY <1>0, <1>1 DEF Moves, Goes, UnderRecord, Rolling, WorkspaceLocks, fileLocks, local
<1>4. wsPc'[p] = "write result" /\ UNCHANGED <<purpose, finalizeLock, code>>
  BY <1>0, <1>1, <1>3, LocksMove DEF world, fileLocks, local
<1>5. attempt'.result = Torn
  <2>1. attempt = [launch |-> attempt.launch, stdin |-> attempt.stdin,
                   state |-> attempt.state, result |-> attempt.result]
    BY <1>0 DEF WorkspaceFiles
  <2> QED
    BY <1>1, <2>1
<1>6. Knows(p)'
  BY <1>0, <1>1, <1>2, <1>4, <1>5 DEF Knows, KnowsRecord, KnowsResult, Unanswered, Stored, Rolling
<1> QED
  BY <1>1, <1>2, <1>3, <1>6, ResultWritten

LEMMA WritingResult ==
  ASSUME WorkspaceAssumption, WorkspaceInv, NEW p \in Procs, WriteResult(p)
  PROVE  WorkspaceInv'
<1>0. WorkspaceLocks /\ WorkspaceFiles /\ KnowsRecord(p) /\ KnowsResult(p)
  BY DEF WorkspaceInv, Knows
<1>1. /\ UNCHANGED <<record, trees, snapshots, keys, marker, world, fileLocks, before, code>>
      /\ wsPc[p] = "write result" /\ Goes(p, "release")
  BY DEF WriteResult
<1>2. /\ record # Nothing /\ code[p] \in {Nothing, "writes_invalid"}
      /\ finalizeLock = p /\ attempt.result = Torn
      /\ (code[p] = Nothing /\ purpose = "managed_output") => record.snapshot # Nothing
  BY <1>0, <1>1 DEF KnowsRecord, KnowsResult, Early, Unanswered, Stored, Rolling
<1>3. PICK outcome \in IF code[p] = Nothing THEN {"PASS", "runner_failed"} ELSE {code[p]} :
        attempt' = [attempt EXCEPT !.result =
                      [code |-> outcome,
                       snapshot |-> IF outcome = "PASS" THEN record.snapshot ELSE Nothing]]
  BY DEF WriteResult
<1> DEFINE stored == [code |-> outcome,
                      snapshot |-> IF outcome = "PASS" THEN record.snapshot ELSE Nothing]
<1>4. /\ outcome \in Codes
      /\ stored.snapshot \in {Nothing, record.snapshot}
      /\ (outcome = "PASS" /\ purpose = "managed_output") => stored.snapshot # Nothing
  BY <1>2, <1>3 DEF Codes
<1>5. Kept(record.snapshot) /\ record.snapshot \in Snapshot
  BY <1>0, <1>2 DEF WorkspaceFiles, Records
<1>6. Kept(stored.snapshot) /\ stored.snapshot \in Snapshot
  BY <1>4, <1>5 DEF Kept, Snapshot
<1>7. stored \in StoredResults /\ stored.code = outcome
  BY <1>4, <1>6 DEF StoredResults
<1>8. stored \notin {Nothing, Torn}
  BY <1>7, Distinct
<1>9. Moves(p, "release")
  BY <1>0, <1>1 DEF Moves, Goes, UnderRecord, Rolling, WorkspaceLocks, fileLocks
<1>10. wsPc'[p] = "release" /\ UNCHANGED <<purpose, finalizeLock, code>>
  BY <1>0, <1>1, <1>9, LocksMove DEF world, fileLocks
<1>11. attempt' = [attempt EXCEPT !.result = stored]
  BY <1>3
<1> HIDE DEF stored
<1>12. attempt'.result = stored
  <2>1. attempt = [launch |-> attempt.launch, stdin |-> attempt.stdin,
                   state |-> attempt.state, result |-> attempt.result]
    BY <1>0 DEF WorkspaceFiles
  <2> QED
    BY <1>11, <2>1
<1>13. Knows(p)'
  BY <1>0, <1>1, <1>2, <1>8, <1>10, <1>12
  DEF Knows, KnowsRecord, KnowsResult, Unanswered, Stored, Rolling
<1> QED
  BY <1>1, <1>2, <1>4, <1>6, <1>7, <1>9, <1>11, <1>13, ResultWritten

LEMMA Releasing ==
  ASSUME WorkspaceAssumption, WorkspaceInv, NEW p \in Procs, ReleaseRollover(p)
  PROVE  WorkspaceInv'
<1>0. WorkspaceLocks /\ KnowsRecord(p) /\ KnowsResult(p)
  BY DEF WorkspaceInv, Knows
<1>1. UNCHANGED <<durable, world, local>> /\ wsPc[p] = "release"
  BY DEF ReleaseRollover
<1>2. PICK at : /\ Goes(p, at) /\ UNCHANGED finalizeLock
                /\ \/ at = "settle" /\ UNCHANGED recordLock
                   \/ /\ at = "remove tree" /\ recordLock = Nothing /\ recordLock' = p
                      /\ record.phase = "quarantined" /\ record.snapshot # Nothing
  BY DEF ReleaseRollover, TakeRecord, fileLocks
<1>3. Moves(p, at)
  BY <1>0, <1>1, <1>2 DEF Moves, Goes, UnderRecord, Rolling, WorkspaceLocks, local
<1>4. wsPc'[p] = at /\ UNCHANGED <<record, purpose, attempt, code>> /\ record # Nothing
  BY <1>0, <1>1, <1>3, LocksMove DEF durable, world, local, KnowsRecord, Early
<1>5. Knows(p)'
  BY <1>0, <1>1, <1>2, <1>4 DEF Knows, KnowsRecord, KnowsResult, Unanswered, Stored, Rolling
<1> QED
  BY <1>1, <1>3, <1>5, Quiet DEF local

LEMMA Removing ==
  ASSUME WorkspaceAssumption, WorkspaceInv, NEW p \in Procs, RemoveTree(p)
  PROVE  WorkspaceInv'
<1>0. WorkspaceLocks /\ WorkspaceFiles /\ WorkspaceResult /\ WorkspaceAnswer
      /\ KnowsRecord(p) /\ KnowsResult(p)
  BY DEF WorkspaceInv, Knows
<1>1. /\ UNCHANGED <<record, checkout, staging, attempt, snapshots, keys, marker, world, local>>
      /\ wsPc[p] = "remove tree"
  BY DEF RemoveTree
<1>2. CASE Raises(p) /\ UNCHANGED quarantine
  BY <1>0, <1>1, <1>2, Raising DEF durable, trees, local, WorkspaceLocks, KnowsResult
<1>3. CASE quarantine' = Nothing /\ Goes(p, "record release") /\ UNCHANGED fileLocks
  <2>1. UNCHANGED <<purpose, input, workerAt, answer, finalizeLock, code>> /\ recordLock = p
        /\ record # Nothing /\ record.phase = "quarantined" /\ record.snapshot # Nothing
    BY <1>0, <1>1, <1>3
    DEF world, fileLocks, local, WorkspaceLocks, UnderRecord, KnowsRecord, Early
  <2>2. Moves(p, "record release")
    BY <1>0, <1>1, <1>3 DEF Moves, Goes, UnderRecord, WorkspaceLocks, fileLocks, local
  <2>3. wsPc'[p] = "record release"
    BY <1>0, <2>2, LocksMove
  <2>4. Knows(p)'
    BY <1>0, <1>1, <2>1, <2>3 DEF Knows, KnowsRecord, KnowsResult, Unanswered, Stored, Rolling
  <2>5. Spares(p)
    BY <1>1, <2>1 DEF Spares
  <2>6. WorkspaceFiles'
    BY <1>0, <1>1, <1>3, <2>1 DEF WorkspaceFiles, Kept, Good
  <2> QED
    BY <1>0, <1>1, <2>1, <2>2, <2>4, <2>5, <2>6, Composed, ResultRest, AnswerRest
<1> QED
  BY <1>2, <1>3 DEF RemoveTree

LEMMA RecordingRelease ==
  ASSUME WorkspaceAssumption, WorkspaceInv, NEW p \in Procs, RecordRelease(p)
  PROVE  WorkspaceInv'
<1>0. WorkspaceLocks /\ WorkspaceFiles /\ KnowsRecord(p) /\ KnowsResult(p)
  BY DEF WorkspaceInv, Knows
<1>1. /\ UNCHANGED <<trees, attempt, snapshots, keys, marker, world, finalizeLock, local>>
      /\ wsPc[p] = "record release" /\ Goes(p, "settle") /\ recordLock' = Nothing
      /\ record' = [record EXCEPT !.phase = "released", !.revision = record.revision + 1]
  BY DEF RecordRelease
<1>2. /\ record \in Records /\ record # Nothing /\ recordLock = p /\ Kept(record.snapshot)
      /\ record.snapshot # Nothing
  BY <1>0, <1>1 DEF WorkspaceFiles, KnowsRecord, Early, WorkspaceLocks, UnderRecord
<1>3. /\ record' \in Records /\ record'.phase = "released"
      /\ record'.snapshot = record.snapshot
  BY <1>1, <1>2, RecordEdits
<1>4. Moves(p, "settle")
  BY <1>0, <1>1, <1>2 DEF Moves, Goes, UnderRecord, Rolling, WorkspaceLocks, local
<1>5. wsPc'[p] = "settle" /\ UNCHANGED <<purpose, code>> /\ record' # Nothing
  BY <1>0, <1>1, <1>3, <1>4, LocksMove, Distinct DEF world, local
<1>6. Knows(p)'
  BY <1>0, <1>1, <1>5 DEF Knows, KnowsRecord, KnowsResult, Unanswered, Stored, Rolling
<1>7. Kept(record'.snapshot)
  BY <1>2, <1>3 DEF Kept
<1> QED
  BY <1>1, <1>2, <1>3, <1>4, <1>6, <1>7, RecordWritten

(* The answer: an error, or the output with its artifacts.                  *)
LEMMA AnswerGiven ==
  ASSUME WorkspaceAssumption, WorkspaceInv, NEW p \in Procs, NEW at, Moves(p, at),
         UNCHANGED <<durable, purpose, input, workerAt>>,
         \/ UNCHANGED answer
         \/ /\ answer' \in Answers /\ answer' # Nothing
            /\ answer'.snapshot # Nothing => Good(answer'.snapshot)
            /\ \/ /\ answer'.artifacts = {}
                  /\ ~(answer'.code = "PASS" /\ purpose = "managed_output" /\ Artifacts # {})
               \/ /\ answer'.artifacts = marker /\ marker # Nothing
                  /\ answer'.code = "PASS" /\ purpose = "managed_output",
         Knows(p)'
  PROVE  WorkspaceInv'
<1>0. WorkspaceFiles /\ WorkspaceResult /\ WorkspaceAnswer
  BY DEF WorkspaceInv
<1>1. UNCHANGED <<purpose, input, record, trees, checkout, quarantine, staging, workerAt,
                  attempt, snapshots, keys, marker>>
  BY DEF durable, trees
<1>2. Spares(p)
  BY <1>1 DEF Spares
<1>3. WorkspaceFiles' /\ WorkspaceResult'
  BY <1>0, <1>1, FilesRest, ResultRest
<1>4. WorkspaceAnswer'
  <2>1. CASE UNCHANGED answer
    BY <1>0, <1>1, <2>1, AnswerRest
  <2>2. CASE answer'.artifacts = {}
             /\ ~(answer'.code = "PASS" /\ purpose = "managed_output" /\ Artifacts # {})
             /\ answer' \in Answers /\ (answer'.snapshot # Nothing => Good(answer'.snapshot))
    BY <1>1, <2>2 DEF WorkspaceAnswer, Registers, Good
  <2>3. CASE answer'.artifacts = marker /\ marker # Nothing
             /\ answer'.code = "PASS" /\ purpose = "managed_output"
             /\ answer' \in Answers /\ (answer'.snapshot # Nothing => Good(answer'.snapshot))
    <3>1. Artifacts = {} => marker = {}
      BY <1>0, <2>3 DEF WorkspaceResult
    <3> QED
      BY <1>1, <2>3, <3>1 DEF WorkspaceAnswer, Registers, Good
  <2> QED
    BY <2>1, <2>2, <2>3
<1> QED
  BY <1>2, <1>3, <1>4, Composed

LEMMA Settling ==
  ASSUME WorkspaceAssumption, WorkspaceInv, NEW p \in Procs, Settle(p)
  PROVE  WorkspaceInv'
<1>0. WorkspaceLocks /\ WorkspaceFiles /\ WorkspaceResult /\ KnowsRecord(p) /\ KnowsResult(p)
  BY DEF WorkspaceInv, Knows
<1> DEFINE rejected == [code |-> "prelaunch_failed", snapshot |-> Nothing]
           sealed == IF code[p] = "prelaunch_failed" THEN rejected ELSE attempt.result
           publishes == /\ sealed.code = "PASS" /\ purpose = "managed_output"
                        /\ Artifacts # {}
           given == [code |-> sealed.code, snapshot |-> sealed.snapshot, artifacts |-> {}]
<1>1. /\ UNCHANGED <<durable, purpose, input, workerAt, recordLock, local>>
      /\ wsPc[p] = "settle"
      /\ answer' = IF publishes \/ answer # Nothing THEN answer ELSE given
      /\ Goes(p, IF publishes THEN "register" ELSE "idle")
      /\ finalizeLock' = IF finalizeLock = p THEN Nothing ELSE finalizeLock
  BY DEF Settle
<1>2. /\ sealed \in StoredResults /\ Kept(sealed.snapshot)
      /\ sealed = rejected \/ sealed = attempt.result
      /\ (sealed.code = "PASS" /\ purpose = "managed_output") =>
           sealed = attempt.result /\ attempt.result.snapshot # Nothing
  <2>1. CASE code[p] = "prelaunch_failed"
    <3>1. rejected \in StoredResults
      BY DEF StoredResults, Codes, Snapshot
    <3> QED
      BY <2>1, <3>1 DEF Kept
  <2>2. CASE code[p] # "prelaunch_failed"
    <3>1. attempt.result \in StoredResults /\ Kept(attempt.result.snapshot)
          /\ ((attempt.result.code = "PASS" /\ purpose = "managed_output") =>
                attempt.result.snapshot # Nothing)
      BY <1>0, <1>1, <2>2 DEF KnowsResult, Stored, WorkspaceResult
    <3> QED
      BY <2>2, <3>1
  <2> QED
    BY <2>1, <2>2
<1> HIDE DEF sealed
<1>3. PICK at : /\ Goes(p, at)
                /\ \/ at = "register" /\ publishes
                   \/ at = "idle"
  BY <1>1
<1>4. Moves(p, at)
  BY <1>0, <1>1, <1>3 DEF Moves, Goes, UnderRecord, Rolling, WorkspaceLocks, local
<1>5. wsPc'[p] = at /\ UNCHANGED <<record, attempt, code>> /\ record # Nothing
  BY <1>0, <1>1, <1>4, LocksMove DEF durable, local, KnowsRecord, Early
<1>6. at = "register" => Passed'
  BY <1>1, <1>2, <1>3, <1>5 DEF Passed
<1>7. Knows(p)'
  BY <1>0, <1>1, <1>3, <1>5, <1>6 DEF Knows, KnowsRecord, KnowsResult, Early, Unanswered, Stored, Rolling
<1>8. CASE UNCHANGED answer
  BY <1>1, <1>4, <1>7, <1>8, AnswerGiven
<1>9. CASE answer' = given /\ ~publishes
  <2>1. given \in Answers
    BY <1>2 DEF Answers, StoredResults
  <2>2. answer' # Nothing
    BY <1>9, <2>1, Distinct
  <2>3. answer'.snapshot # Nothing => Good(answer'.snapshot)
    BY <1>2, <1>9 DEF Kept
  <2>4. answer'.artifacts = {} /\ answer'.code = sealed.code
    BY <1>9
  <2>5. ~(answer'.code = "PASS" /\ purpose = "managed_output" /\ Artifacts # {})
    BY <1>9, <2>4
  <2>6. answer' \in Answers
    BY <1>9, <2>1
  <2> HIDE DEF given, publishes
  <2> QED
    BY <1>1, <1>4, <1>7, <2>2, <2>3, <2>4, <2>5, <2>6, AnswerGiven
<1> QED
  BY <1>1, <1>8, <1>9

(* The artifacts are registered of a result that stays.                     *)
LEMMA Registered ==
  ASSUME WorkspaceAssumption, WorkspaceInv, NEW p \in Procs, NEW at, Moves(p, at), Passed,
         UNCHANGED <<record, trees, attempt, snapshots, world>>,
         marker # Nothing => marker' = marker,
         \A k \in keys' : k.path \in Artifacts /\ k.blob = attempt.result.snapshot[k.path],
         marker' # Nothing =>
           /\ marker' = Artifacts \cap Present(attempt.result.snapshot)
           /\ \A a \in marker' : \E k \in keys' : k.path = a,
         Knows(p)'
  PROVE  WorkspaceInv'
<1>0. WorkspaceFiles /\ WorkspaceResult /\ WorkspaceAnswer
  BY DEF WorkspaceInv
<1>1. UNCHANGED <<purpose, input, workerAt, answer, checkout, quarantine, staging>>
  BY DEF world, trees
<1>2. Spares(p)
  BY <1>1 DEF Spares
<1>3. Kept(attempt.result.snapshot) => Kept(attempt.result.snapshot)'
  BY <1>1 DEF Kept, Good
<1>4. WorkspaceResult'
  BY <1>0, <1>1, <1>3 DEF WorkspaceResult, Passed, Present
<1> QED
  BY <1>0, <1>1, <1>2, <1>4, Composed, FilesRest, AnswerRest

LEMMA PublishingKey ==
  ASSUME WorkspaceAssumption, WorkspaceInv, NEW p \in Procs, PublishKey(p)
  PROVE  WorkspaceInv'
<1>0. WorkspaceLocks /\ WorkspaceResult /\ KnowsRecord(p) /\ KnowsResult(p)
  BY DEF WorkspaceInv, Knows
<1>1. /\ UNCHANGED <<record, trees, attempt, snapshots, marker, world, fileLocks, wsPc, local>>
      /\ wsPc[p] = "register"
  BY DEF PublishKey
<1>2. PICK a \in Artifacts :
        keys' = keys \cup {[path |-> a, blob |-> attempt.result.snapshot[a]]}
  BY DEF PublishKey
<1>3. Moves(p, "register")
  BY <1>0, <1>1 DEF Moves, UnderRecord, Rolling, WorkspaceLocks, fileLocks, local
<1>4. Passed /\ Passed'
  BY <1>0, <1>1 DEF KnowsResult, Passed, world
<1>5. Knows(p)'
  BY <1>0, <1>1, <1>4 DEF Knows, KnowsRecord, KnowsResult, Unanswered, Stored, Rolling, local
<1>6. \A k \in keys' : k.path \in Artifacts /\ k.blob = attempt.result.snapshot[k.path]
  BY <1>0, <1>2 DEF WorkspaceResult
<1>7. marker # Nothing =>
        /\ marker = Artifacts \cap Present(attempt.result.snapshot)
        /\ \A b \in marker : \E k \in keys' : k.path = b
  BY <1>0, <1>2 DEF WorkspaceResult
<1> QED
  BY <1>1, <1>3, <1>4, <1>5, <1>6, <1>7, Registered

LEMMA CommittingSet ==
  ASSUME WorkspaceAssumption, WorkspaceInv, NEW p \in Procs, CommitSet(p)
  PROVE  WorkspaceInv'
<1>0. WorkspaceLocks /\ WorkspaceResult /\ KnowsRecord(p) /\ KnowsResult(p)
  BY DEF WorkspaceInv, Knows
<1> DEFINE there == Artifacts \cap Present(attempt.result.snapshot)
<1>1. /\ UNCHANGED <<record, trees, attempt, snapshots, keys, world, fileLocks, local>>
      /\ wsPc[p] = "register"
  BY DEF CommitSet
<1>2. PICK at : /\ Goes(p, at)
                /\ \/ /\ at = "seal" /\ marker' = there
                      /\ \A a \in there : \E k \in keys : k.path = a
                   \/ at = "idle" /\ UNCHANGED marker
  BY DEF CommitSet
<1>3. Moves(p, at)
  BY <1>0, <1>1, <1>2 DEF Moves, Goes, UnderRecord, Rolling, WorkspaceLocks, fileLocks, local
<1>4. wsPc'[p] = at /\ UNCHANGED code
  BY <1>0, <1>1, <1>3, LocksMove DEF local
<1>5. Passed /\ Passed'
  BY <1>0, <1>1 DEF KnowsResult, Passed, world
<1>6. there # Nothing
  BY Distinct
<1>7. Knows(p)'
  BY <1>0, <1>1, <1>2, <1>4, <1>5, <1>6 DEF Knows, KnowsRecord, KnowsResult, Early, Unanswered, Stored, Rolling
<1>8. marker # Nothing => marker' = marker
  BY <1>0, <1>2 DEF WorkspaceResult
<1>9. \A k \in keys' : k.path \in Artifacts /\ k.blob = attempt.result.snapshot[k.path]
  BY <1>0, <1>1 DEF WorkspaceResult
<1>10. marker' # Nothing =>
         /\ marker' = Artifacts \cap Present(attempt.result.snapshot)
         /\ \A a \in marker' : \E k \in keys' : k.path = a
  BY <1>0, <1>1, <1>2 DEF WorkspaceResult
<1> QED
  BY <1>1, <1>3, <1>5, <1>7, <1>8, <1>9, <1>10, Registered

LEMMA Sealing ==
  ASSUME WorkspaceAssumption, WorkspaceInv, NEW p \in Procs, Seal(p)
  PROVE  WorkspaceInv'
<1>0. WorkspaceLocks /\ WorkspaceResult /\ KnowsRecord(p) /\ KnowsResult(p)
  BY DEF WorkspaceInv, Knows
<1> DEFINE given == [code |-> "PASS", snapshot |-> attempt.result.snapshot, artifacts |-> marker]
<1>1. /\ UNCHANGED <<durable, purpose, input, workerAt, fileLocks, local>>
      /\ wsPc[p] = "seal" /\ Goes(p, "idle")
      /\ answer' = IF answer # Nothing THEN answer ELSE given
  BY DEF Seal
<1>2. Passed /\ marker # Nothing
  BY <1>0, <1>1 DEF KnowsResult
<1>3. Kept(attempt.result.snapshot) /\ marker \in SUBSET Artifacts
  BY <1>0, <1>2, Distinct DEF WorkspaceResult, Passed
<1>4. given \in Answers
  BY <1>2, <1>3 DEF Answers, Codes, Kept, Good, Snapshot
<1>5. Moves(p, "idle")
  BY <1>0, <1>1 DEF Moves, Goes, UnderRecord, Rolling, WorkspaceLocks, fileLocks, local
<1>6. wsPc'[p] = "idle" /\ UNCHANGED code
  BY <1>0, <1>1, <1>5, LocksMove DEF local
<1>7. Knows(p)'
  BY <1>0, <1>6 DEF Knows, KnowsRecord, KnowsResult, Early, Unanswered, Stored, Rolling
<1>8. given # Nothing
  BY <1>4, Distinct
<1>9. given.code = "PASS" /\ given.artifacts = marker
      /\ (given.snapshot # Nothing => Good(given.snapshot)) /\ purpose = "managed_output"
  BY <1>2, <1>3 DEF Kept, Passed
<1> HIDE DEF given
<1>10. CASE UNCHANGED answer
  BY <1>1, <1>5, <1>7, <1>10, AnswerGiven
<1>11. CASE answer' = given
  BY <1>1, <1>2, <1>4, <1>5, <1>7, <1>8, <1>9, <1>11, AnswerGiven
<1> QED
  BY <1>1, <1>10, <1>11

LEMMA TimingOut ==
  ASSUME WorkspaceAssumption, WorkspaceInv, NEW p \in Procs, SealTimeout(p)
  PROVE  WorkspaceInv'
<1>0. WorkspaceLocks /\ KnowsRecord(p) /\ KnowsResult(p)
  BY DEF WorkspaceInv, Knows
<1> DEFINE given == [code |-> "deadline_timeout", snapshot |-> Nothing, artifacts |-> {}]
<1>1. /\ UNCHANGED <<durable, purpose, input, workerAt, fileLocks, wsPc, local>>
      /\ wsPc[p] = "idle" /\ answer' = given
  BY DEF SealTimeout
<1>2. Moves(p, "idle")
  BY <1>0, <1>1 DEF Moves, UnderRecord, Rolling, WorkspaceLocks, fileLocks, local
<1>3. Knows(p)'
  BY <1>0, <1>1 DEF Knows, KnowsRecord, KnowsResult, Early, Unanswered, Stored, Rolling, local
<1>4. given \in Answers
  BY DEF Answers, Codes, Snapshot
<1>5. given # Nothing
  BY <1>4, Distinct
<1>6. given.snapshot = Nothing /\ given.artifacts = {} /\ given.code # "PASS"
  OBVIOUS
<1> HIDE DEF given
<1> QED
  BY <1>1, <1>2, <1>3, <1>4, <1>5, <1>6, AnswerGiven

LEMMA Dying ==
  ASSUME WorkspaceAssumption, WorkspaceInv, NEW p \in Procs, Die(p)
  PROVE  WorkspaceInv'
<1>0. WorkspaceLocks
  BY DEF WorkspaceInv
<1>1. /\ Raises(p) /\ UNCHANGED <<durable, world>>
      /\ before' = [before EXCEPT ![p] = Nothing] /\ code' = [code EXCEPT ![p] = Nothing]
  BY DEF Die
<1> QED
  BY <1>0, <1>1, Raising DEF WorkspaceLocks

-----------------------------------------------------------------------------
(* The worker, strays and time. *)

LEMMA WorldMoves ==
  ASSUME WorkspaceAssumption, WorkspaceInv,
         UNCHANGED <<record, attempt, snapshots, keys, marker, purpose, input, answer, fileLocks,
                     wsPc, local>>,
         checkout # Nothing => checkout' # Nothing, quarantine # Nothing => quarantine' # Nothing,
         WorkspaceFiles'
  PROVE  WorkspaceInv'
<1>0. WorkspaceLocks /\ WorkspaceResult /\ WorkspaceAnswer
  BY DEF WorkspaceInv
<1>1. UNCHANGED <<recordLock, finalizeLock, code, before>>
  BY DEF fileLocks, local
<1>2. WorkspaceLocks' /\ WorkspaceResult' /\ WorkspaceAnswer'
  BY <1>0, <1>1, ResultRest, AnswerRest DEF WorkspaceLocks
<1>3. ASSUME NEW q \in Procs
      PROVE  Knows(q)'
  <2>1. KnowsRecord(q) /\ KnowsResult(q)
    BY DEF WorkspaceInv, Knows
  <2>2. Good(before[q]) => Good(before[q])'
    BY <1>1 DEF Good
  <2>3. KnowsRecord(q)'
    BY <1>1, <2>1, <2>2 DEF KnowsRecord
  <2>4. KnowsResult(q)'
    BY <1>1, <2>1 DEF KnowsResult, Passed
  <2> QED
    BY <2>3, <2>4 DEF Knows
<1> QED
  BY <1>2, <1>3 DEF WorkspaceInv

LEMMA EditsStay ==
  ASSUME WorkspaceAssumption, NEW tree \in Tree, NEW new \in Edited(tree)
  PROVE  new \in Tree /\ new # Nothing
<1>1. [tree EXCEPT !.git = "touched"] \in Tree
  BY ONLY tree \in Tree DEF Tree
<1>2. ASSUME NEW q \in Paths, NEW e \in Entry, new = [tree EXCEPT !.files[q] = e]
      PROVE  new \in Tree
  BY <1>2 DEF Tree
<1>3. new \in Tree
  BY <1>1, <1>2 DEF Edited
<1> QED
  BY <1>3, Distinct

LEMMA WorldStep ==
  ASSUME WorkspaceAssumption, WorkspaceInv,
         EnsureStarted \/ Work \/ End \/ Stray \/ Expire
  PROVE  WorkspaceInv'
<1>0. WorkspaceFiles
  BY DEF WorkspaceInv
<1>1. UNCHANGED <<record, attempt, snapshots, keys, marker, purpose, input, answer, fileLocks,
                  wsPc, local, staging>>
  BY DEF EnsureStarted, Work, End, Stray, Expire, durable, trees
<1>2. ASSUME UNCHANGED <<checkout, quarantine>>,
             workerAt' # "none" => record # Nothing
      PROVE  WorkspaceInv'
  <2>1. WorkspaceFiles'
    BY <1>0, <1>1, <1>2 DEF WorkspaceFiles, Kept, Good
  <2> QED
    BY <1>1, <1>2, <2>1, WorldMoves
<1>3. CASE EnsureStarted \/ End \/ Expire
  <2>1. UNCHANGED <<checkout, quarantine>>
    BY <1>3 DEF EnsureStarted, End, Expire, durable, trees
  <2>2. workerAt' # "none" => record # Nothing
    BY <1>0, <1>3 DEF EnsureStarted, End, Expire, WorkspaceFiles
  <2> QED
    BY <1>2, <2>1, <2>2
<1>4. CASE Work
  <2>1. /\ checkout # Nothing /\ checkout' \in Edited(checkout) /\ UNCHANGED quarantine
        /\ workerAt # "none"
    BY <1>4 DEF Work
  <2>2. checkout' \in Tree /\ checkout' # Nothing
    BY <1>0, <2>1, EditsStay DEF WorkspaceFiles
  <2>3. WorkspaceFiles'
    BY <1>0, <1>1, <2>1, <2>2 DEF WorkspaceFiles, Kept, Good
  <2> QED
    BY <1>1, <2>1, <2>2, <2>3, WorldMoves
<1>5. CASE Stray
  <2>1. /\ quarantine # Nothing /\ quarantine' \in Edited(quarantine)
        /\ UNCHANGED <<checkout, workerAt>>
    BY <1>5 DEF Stray
  <2>2. quarantine' \in Tree /\ quarantine' # Nothing
    BY <1>0, <2>1, EditsStay DEF WorkspaceFiles
  <2>3. WorkspaceFiles'
    BY <1>0, <1>1, <2>1, <2>2 DEF WorkspaceFiles, Kept, Good
  <2> QED
    BY <1>1, <2>1, <2>2, <2>3, WorldMoves
<1> QED
  BY <1>3, <1>4, <1>5

-----------------------------------------------------------------------------

LEMMA WorkspaceInit ==
  ASSUME WorkspaceAssumption, WsInit
  PROVE  WorkspaceInv
<1>1. input \in [Paths -> Entry]
  BY DEF WsInit, Entry
<1>2. attempt = [launch |-> "absent", stdin |-> "absent", state |-> "absent", result |-> Nothing]
  BY DEF WsInit
<1>3. attempt.launch = "absent" /\ attempt.state = "absent" /\ attempt.result = Nothing
      /\ attempt = [launch |-> attempt.launch, stdin |-> attempt.stdin,
                    state |-> attempt.state, result |-> attempt.result]
  BY <1>2
<1>4. WorkspaceFiles
  BY <1>1, <1>3 DEF WsInit, WorkspaceFiles
<1>5. WorkspaceResult /\ WorkspaceAnswer
  BY <1>3 DEF WsInit, WorkspaceResult, WorkspaceAnswer
<1>6. WorkspaceLocks
  BY Distinct DEF WsInit, WorkspaceLocks, UnderRecord, Rolling
<1>7. \A p \in Procs : Knows(p)
  BY DEF WsInit, Knows, KnowsRecord, KnowsResult, Early, Unanswered, Stored, Rolling
<1> QED
  BY <1>4, <1>5, <1>6, <1>7 DEF WorkspaceInv

LEMMA WorkspaceStep ==
  ASSUME WorkspaceAssumption, WorkspaceInv, WsNext
  PROVE  WorkspaceInv'
<1>1. ASSUME NEW p \in Procs, Prepare(p) \/ PrepareStep(p)
      PROVE  WorkspaceInv'
  BY <1>1, Preparing, Materializing, Publishing, Leasing, Inspecting, WritingOnce DEF PrepareStep
<1>2. ASSUME NEW p \in Procs, RolloverStep(p)
      PROVE  WorkspaceInv'
  BY <1>2, Rolls, Renaming, Quarantining, Rebinding, Capturing, Copying, Committing, Fencing
  DEF RolloverStep
<1>3. ASSUME NEW p \in Procs, ResultStep(p)
      PROVE  WorkspaceInv'
  BY <1>3, OpeningResult, WritingResult, Releasing, Removing, RecordingRelease, Settling,
     PublishingKey, CommittingSet, Sealing DEF ResultStep
<1> QED
  BY <1>1, <1>2, <1>3, Finalizing, TimingOut, Dying, WorldStep DEF WsNext

(* What a process knows of the record, the result and the locks at each of  *)
(* its steps holds in every state: the record is written by the holder of   *)
(* its lock only, and the result by the holder of the lock `finalize'.      *)
THEOREM WorkspaceInvariant ==
  ASSUME WorkspaceAssumption
  PROVE  WsSpec => []WorkspaceInv
<1>1. WsInit => WorkspaceInv
  BY WorkspaceInit
<1>2. WorkspaceInv /\ [WsNext]_wsVars => WorkspaceInv'
  <2>1. ASSUME WorkspaceInv, UNCHANGED wsVars
        PROVE  WorkspaceInv'
    <3>1. /\ UNCHANGED <<record, attempt, snapshots, keys, marker, purpose, input, answer,
                         fileLocks, wsPc, local, trees, workerAt>>
          /\ UNCHANGED <<checkout, quarantine>>
      BY <2>1 DEF wsVars, durable, world, trees
    <3>2. WorkspaceFiles'
      BY <2>1, <3>1, FilesRest DEF WorkspaceInv
    <3> QED
      BY <2>1, <3>1, <3>2, WorldMoves
  <2> QED
    BY <2>1, WorkspaceStep
<1> QED
  BY <1>1, <1>2, PTL DEF WsSpec

(* Whatever the worker or a stray process wrote, and whenever it did: what  *)
(* the attempt hands on is the input with declared changes.                 *)
THEOREM DeclaredIsHandedOn ==
  ASSUME WorkspaceAssumption
  PROVE  WsSpec => []HandedOnAsDeclared
<1>1. WorkspaceInv => HandedOnAsDeclared
  <2> SUFFICES ASSUME WorkspaceInv
               PROVE  HandedOnAsDeclared
    OBVIOUS
  <2>0. WorkspaceLocks /\ WorkspaceFiles /\ WorkspaceResult /\ WorkspaceAnswer
    BY DEF WorkspaceInv
  <2>1. WsTypeOK
    BY <2>0 DEF WsTypeOK, WorkspaceLocks, WorkspaceFiles, WorkspaceResult, Records, Kept
  <2>2. ASSUME NEW s, s # Nothing,
               \/ record # Nothing /\ s = record.snapshot
               \/ answer # Nothing /\ s = answer.snapshot
        PROVE  Good(s)
    BY <2>0, <2>2 DEF WorkspaceFiles, WorkspaceAnswer, Kept
  <2>3. DeclaredOnly
    BY <2>2 DEF DeclaredOnly, Good
  <2> QED
    BY <2>1, <2>3 DEF HandedOnAsDeclared
<1> QED
  BY <1>1, WorkspaceInvariant, PTL

(* No death loses the output: it is in a tree until it is in a snapshot     *)
(* that was recorded, and a reader finds all its artifacts or none.         *)
THEOREM KeptIsOutput ==
  ASSUME WorkspaceAssumption
  PROVE  WsSpec => []OutputIsKept
<1>1. WorkspaceInv => OutputIsKept
  <2> SUFFICES ASSUME WorkspaceInv
               PROVE  OutputIsKept
    OBVIOUS
  <2>0. WorkspaceFiles /\ WorkspaceResult /\ WorkspaceAnswer
    BY DEF WorkspaceInv
  <2>1. TreeIsKept
    BY <2>0 DEF TreeIsKept, WorkspaceFiles
  <2>2. \A k \in keys : /\ k.path \in Artifacts /\ k.blob = attempt.result.snapshot[k.path]
                        /\ attempt.result.snapshot \in snapshots
    BY <2>0, Distinct DEF WorkspaceResult, Passed, Kept
  <2>3. Listed \subseteq keys
    BY DEF Listed
  <2>4. marker # Nothing => {k.path : k \in Listed} = marker
    <3> SUFFICES ASSUME marker # Nothing
                 PROVE  {k.path : k \in Listed} = marker
      OBVIOUS
    <3>1. \A k \in keys : k.path \in marker => k \in Listed
      BY <2>2 DEF Listed, Readable
    <3>2. \A k \in Listed : k.path \in marker
      BY DEF Listed, Readable
    <3>3. \A a \in marker : \E k \in keys : k.path = a
      BY <2>0 DEF WorkspaceResult
    <3> QED
      BY <2>3, <3>1, <3>2, <3>3
  <2>5. answer # Nothing =>
          answer.artifacts = (IF answer.code = "PASS" /\ purpose = "managed_output"
                              THEN {k.path : k \in Listed} ELSE {})
    <3>1. CASE Artifacts = {}
      <4>1. Listed = {}
        BY <2>2, <2>3, <3>1
      <4> QED
        BY <2>0, <3>1, <4>1 DEF WorkspaceAnswer, Registers
    <3>2. CASE Artifacts # {}
      BY <2>0, <2>4, <3>2 DEF WorkspaceAnswer, Registers
    <3> QED
      BY <3>1, <3>2
  <2>6. ArtifactsOfTheAnswer
    BY <2>2, <2>3, <2>4, <2>5 DEF ArtifactsOfTheAnswer
  <2> QED
    BY <2>1, <2>6 DEF OutputIsKept
<1> QED
  BY <1>1, WorkspaceInvariant, PTL
=============================================================================
