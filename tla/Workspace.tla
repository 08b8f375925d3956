------------------------------ MODULE Workspace ------------------------------
(***************************************************************************)
(* The disposable checkout of one attempt (providers/_workspace_*.py), the *)
(* files of the attempt around it (_codex_preparation.py, _terminal of     *)
(* _codex_attempt.py) and the artifacts of its output (artifacts.py).  A   *)
(* process materializes the input snapshot, prepares the launch, and, when *)
(* the worker has ended, quarantines the checkout, rolls it over into a    *)
(* snapshot and registers what the worker declared.  A process may die     *)
(* between any two steps; another one, or the same, starts again from the  *)
(* files.  The worker itself is the module CodexAttempt.                   *)
(***************************************************************************)
EXTENDS Integers, FiniteSets, Sequences

CONSTANTS
  Procs,         \* processes that reconcile the effect
  Paths,         \* portable paths of the project
  Aliases,       \* pairs of paths that collide on some file systems
  Declared,      \* descriptor.writes, the paths the worker may write
  Artifacts,     \* declared artifacts: their source paths
  Required,      \* the artifacts among them that must be there
  Control,       \* .codex, .agents or .mcp.json of a project
  MaxEntries,    \* ProjectTreeLimits.max_entries
  Nothing, Torn, \* nothing, and a file that was created but not written
  MaxWsDeaths,   \* BOUND: processes that die
  MaxStray         \* BOUND: writes of a process nobody waited for

Entry == {"none", "old", "new", "link", "program"}
Tree == [files : [Paths -> Entry], git : {"clean", "touched"}]

(* The workspace record, what is stored as result.json, and what is sealed.  *)
Snapshot == [Paths -> Entry] \cup {Nothing}
Records == [phase : {"materialized", "quarantined", "released"}, revision : Nat,
            rebound : BOOLEAN, snapshot : Snapshot]
Codes == {"PASS", "runner_failed", "writes_invalid", "prelaunch_failed", "deadline_timeout"}
StoredResults == [code : Codes, snapshot : Snapshot]
Answers == [code : Codes, snapshot : Snapshot, artifacts : SUBSET Artifacts]

WorkspaceAssumption ==
  /\ Declared \subseteq Paths /\ Artifacts \subseteq Paths
  /\ Required \subseteq Artifacts /\ Control \in Paths
  /\ Aliases \subseteq SUBSET Paths
  /\ Nothing # Torn
  /\ \A nothing \in {Nothing, Torn} :
       /\ nothing \notin Procs \cup Codes \cup [Paths -> Entry]
       /\ \A set \in SUBSET Artifacts : nothing # set
       /\ nothing \notin Tree \cup StoredResults \cup Records \cup Answers

VARIABLES
  purpose,       \* "managed_output" or "no_publish_operation"
  input,         \* the files of the input snapshot
  record,        \* the workspace record, replaced atomically
  checkout, staging, quarantine,   \* directories: a tree, or Nothing
  attempt,       \* the attempt's files: "absent", "partial" or "whole"
  workerAt,      \* "none", "running", "written", "ended"
  snapshots,     \* files of the snapshots that were captured
  keys, marker,  \* artifact registry: producer keys, committed producer set
  answer,        \* the sealed result of the effect
  expired,       \* its deadline has passed
  recordLock, finalizeLock,        \* holders of the two file locks
  wsPc,          \* process -> where it is
  lease,         \* process -> the record as it was when it took its lease
  before,        \* process -> the capture it copies
  code,          \* process -> the result it is going to store
  deaths, stray

trees == <<checkout, staging, quarantine>>
fileLocks == <<recordLock, finalizeLock>>
local == <<lease, before, code>>
durable == <<record, trees, attempt, snapshots, keys, marker>>
world == <<purpose, input, workerAt, answer, expired, stray>>
wsVars == <<durable, world, fileLocks, wsPc, local, deaths>>

-----------------------------------------------------------------------------
(* Trees *)

Present(files) == {p \in Paths : files[p] # "none"}

(* validate_portable_project_paths: two names for one file somewhere.       *)
Collides(files) == \E pair \in Aliases : pair \subseteq Present(files)

(* _preflight_tree_limits. *)
WithinLimits(tree) == Cardinality(Present(tree.files)) <= MaxEntries

(* capture_project: a collision, or one entry too many, fails the capture;  *)
(* links and programs are recorded as what they are.                        *)
Captures(tree) == WithinLimits(tree) /\ ~Collides(tree.files)

(* The digest of the Git directory is the one of the baseline.              *)
GitUnchanged(tree) == tree.git = "clean"

(* ProjectWritePath. *)
Allowed(p) == p \in Declared

(* Mutant: what was removed is not looked at.                               *)
CompareAdded(old, new) ==
  \A p \in Present(new) : old[p] # new[p] =>
    Allowed(p) /\ "link" \notin {old[p], new[p]}

(* compare_effect: every change is declared, and none involves a link.      *)
CompareEffect(old, new) ==
  \A p \in Paths : old[p] # new[p] =>
    Allowed(p) /\ "link" \notin {old[p], new[p]}

(* _validate_snapshot_fidelity: a snapshot cannot hold a program.           *)
Faithful(files) == \A p \in Paths : files[p] # "program"

(* _validate_output. *)
ValidOutput(tree) ==
  /\ GitUnchanged(tree) /\ Captures(tree)
  /\ \A p \in Paths : tree.files[p] # "link"
  /\ CompareEffect(input, tree.files)

(* _relocated_baseline: the marker of Git names the place of the directory, *)
(* so it may change with the move, and nothing else of Git.                 *)
Relocates(tree) == tree # Nothing /\ Captures(tree) /\ GitUnchanged(tree)

(* What is materialized from the input snapshot.                            *)
InputTree == [files |-> input, git |-> "clean"]

-----------------------------------------------------------------------------

WsInit ==
  /\ purpose \in {"managed_output", "no_publish_operation"}
  /\ input \in {f \in [Paths -> {"none", "old"}] :
                  Captures([files |-> f, git |-> "clean"])}
  /\ record = Nothing /\ checkout = Nothing /\ staging = "gone" /\ quarantine = Nothing
  /\ attempt = [launch |-> "absent", stdin |-> "absent", state |-> "absent",
                result |-> Nothing]
  /\ workerAt = "none" /\ snapshots = {input} /\ keys = {} /\ marker = Nothing
  /\ answer = Nothing /\ expired = FALSE
  /\ recordLock = Nothing /\ finalizeLock = Nothing
  /\ wsPc = [p \in Procs |-> "idle"] /\ lease = [p \in Procs |-> Nothing]
  /\ before = [p \in Procs |-> Nothing] /\ code = [p \in Procs |-> Nothing]
  /\ deaths = 0 /\ stray = 0

(* _commit_prepared_launch: the steps of a file of the attempt.             *)
OpenStep == [launch |-> "open launch", stdin |-> "open stdin"]
WriteStep == [launch |-> "write launch", stdin |-> "write stdin"]
AfterFile == [launch |-> "open stdin", stdin |-> "write state"]

Goes(p, step) == wsPc' = [wsPc EXCEPT ![p] = step]

(* An exception leaves every `with file_lock`; the drive tries again later. *)
Raises(p) ==
  /\ Goes(p, "idle")
  /\ recordLock' = IF recordLock = p THEN Nothing ELSE recordLock
  /\ finalizeLock' = IF finalizeLock = p THEN Nothing ELSE finalizeLock

TakeRecord(p) == recordLock = Nothing /\ recordLock' = p

-----------------------------------------------------------------------------
(* prepare *)

(* A launch that was recorded is recovered, anything else begins with the   *)
(* workspace.  An effect past its deadline is not prepared any more.        *)
Prepare(p) ==
  /\ wsPc[p] = "idle" /\ answer = Nothing /\ workerAt = "none" /\ ~expired
  /\ attempt.state = "absent"
  /\ Goes(p, IF attempt.launch = "absent" THEN "materialize" ELSE "recover")
  /\ UNCHANGED <<durable, world, fileLocks, local, deaths>>

(* _recover_prepared_launch: the launch of a dead process is completed if   *)
(* its record can be read.                                                  *)
Recover(p) ==
  /\ wsPc[p] = "recover"
  /\ Goes(p, IF attempt.launch = "partial" \/ attempt.state # "absent"
                THEN "idle" ELSE "open stdin")
  /\ UNCHANGED <<durable, world, fileLocks, local, deaths>>

(* _reusable_workspace: the record of an earlier materialization is only    *)
(* good while the tree is still the one that was launched.                  *)
Reusable == record.phase = "materialized" /\ checkout = InputTree

(* Under the lock of the record: reuse, or discard what a dead process left *)
(* and stage the input again.                                               *)
Materialize(p) ==
  /\ wsPc[p] = "materialize"
  /\ IF record # Nothing
     THEN /\ recordLock = Nothing
          /\ IF Reusable
             THEN Goes(p, "inspect surfaces") /\ lease' = [lease EXCEPT ![p] = record]
             ELSE Goes(p, "idle") /\ UNCHANGED lease
          /\ UNCHANGED <<trees, fileLocks>>
     ELSE /\ TakeRecord(p) /\ checkout' = Nothing /\ staging' = "partial"
          /\ Goes(p, "publish checkout") /\ UNCHANGED <<quarantine, finalizeLock, lease>>
  /\ UNCHANGED <<record, attempt, snapshots, keys, marker, world, before, code, deaths>>

(* The populated staging directory is renamed into place.                   *)
PublishCheckout(p) ==
  /\ wsPc[p] = "publish checkout" /\ Goes(p, "write lease")
  /\ checkout' = InputTree /\ staging' = "gone"
  /\ UNCHANGED <<record, quarantine, attempt, snapshots, keys, marker, world, fileLocks,
                 local, deaths>>

(* The checkout is captured as the baseline, and the record is written.     *)
WriteLease(p) ==
  /\ wsPc[p] = "write lease" /\ Goes(p, "inspect surfaces")
  /\ record' = [phase |-> "materialized", revision |-> 1, rebound |-> FALSE,
                snapshot |-> Nothing]
  /\ lease' = [lease EXCEPT ![p] = record'] /\ recordLock' = Nothing
  /\ UNCHANGED <<trees, attempt, snapshots, keys, marker, world, finalizeLock,
                 before, code, deaths>>

(* _assert_no_project_control_surfaces: a project with a control surface is *)
(* rejected, and its workspace is rolled over and released.                 *)
InspectSurfaces(p) ==
  /\ wsPc[p] = "inspect surfaces"
  /\ LET rejected == checkout # Nothing /\ checkout.files[Control] # "none"
     IN  /\ Goes(p, IF rejected THEN "roll over" ELSE "open launch")
         /\ code' = [code EXCEPT ![p] = IF rejected THEN "prelaunch_failed" ELSE Nothing]
  /\ UNCHANGED <<durable, world, fileLocks, lease, before, deaths>>

(* _write_once creates the file and then writes it; a process that dies in  *)
(* between leaves a torn file, which no retry takes for its own.            *)
OpenOnce(p, f) ==
  /\ wsPc[p] = OpenStep[f]
  /\ IF attempt[f] = "absent"
     THEN attempt' = [attempt EXCEPT ![f] = "partial"] /\ Goes(p, WriteStep[f])
     ELSE /\ UNCHANGED attempt
          /\ Goes(p, IF attempt[f] = "whole" THEN AfterFile[f] ELSE "idle")
  /\ UNCHANGED <<record, trees, snapshots, keys, marker, world, fileLocks, local, deaths>>

WriteOnce(p, f) ==
  /\ wsPc[p] = WriteStep[f] /\ Goes(p, AfterFile[f])
  /\ attempt' = [attempt EXCEPT ![f] = "whole"]
  /\ UNCHANGED <<record, trees, snapshots, keys, marker, world, fileLocks, local, deaths>>

(* launch.json, stdin.bin, then state.json: now the launch is prepared.     *)
WritePrepared(p) ==
  /\ wsPc[p] = "write state" /\ Goes(p, "idle")
  /\ attempt' = [attempt EXCEPT !.state = "prepared"]
  /\ UNCHANGED <<record, trees, snapshots, keys, marker, world, fileLocks, local, deaths>>

-----------------------------------------------------------------------------
(* The worker and the rest of the machine *)

(* ensure_started: only a prepared launch, once; CodexAttempt says how.     *)
EnsureStarted ==
  /\ attempt.state = "prepared" /\ workerAt = "none" /\ answer = Nothing
  /\ ~expired /\ workerAt' = "running"
  /\ UNCHANGED <<durable, purpose, input, answer, expired, stray, fileLocks, wsPc, local,
                 deaths>>

Edited(tree) ==
  {[tree EXCEPT !.files[q] = e] : q \in Paths, e \in Entry}
     \cup {[tree EXCEPT !.git = "touched"]}

(* BOUND: the worker writes once.                                           *)
Work ==
  /\ workerAt = "running" /\ checkout # Nothing /\ workerAt' = "written"
  /\ checkout' \in Edited(checkout)
  /\ UNCHANGED <<record, staging, quarantine, attempt, snapshots, keys, marker, purpose,
                 input, answer, expired, stray, fileLocks, wsPc, local, deaths>>

End ==
  /\ workerAt \in {"running", "written"} /\ workerAt' = "ended"
  /\ UNCHANGED <<durable, purpose, input, answer, expired, stray, fileLocks, wsPc, local,
                 deaths>>

(* A process that outlived the worker writes into the quarantined tree.     *)
Stray ==
  /\ workerAt = "ended" /\ stray < MaxStray /\ stray' = stray + 1
  /\ quarantine # Nothing /\ quarantine' \in Edited(quarantine)
  /\ UNCHANGED <<record, checkout, staging, attempt, snapshots, keys, marker, purpose,
                 input, workerAt, answer, expired, fileLocks, wsPc, local, deaths>>

Expire ==
  /\ ~expired /\ expired' = TRUE
  /\ UNCHANGED <<durable, purpose, input, workerAt, answer, stray, fileLocks, wsPc, local,
                 deaths>>

-----------------------------------------------------------------------------
(* _terminal *)

(* Under the lock `finalize`: a stored result is final.                     *)
FinalizeAttempt(p) ==
  /\ wsPc[p] = "idle" /\ workerAt = "ended" /\ answer = Nothing /\ finalizeLock = Nothing
  /\ attempt.result # Torn /\ finalizeLock' = p
  /\ Goes(p, IF attempt.result # Nothing THEN "release"
             ELSE IF purpose = "managed_output" THEN "roll over" ELSE "fence")
  /\ lease' = [lease EXCEPT ![p] = record] /\ code' = [code EXCEPT ![p] = Nothing]
  /\ UNCHANGED <<durable, world, recordLock, before, deaths>>

(* A WorkspaceError: _terminal stores writes_invalid for a workspace that   *)
(* is quarantined, and raises for one that is not; a rejected workspace     *)
(* "could not be safely retired".                                           *)
WorkspaceFails(p) ==
  IF code[p] # "prelaunch_failed" /\ record.phase = "quarantined"
  THEN /\ Goes(p, "open result") /\ code' = [code EXCEPT ![p] = "writes_invalid"]
       /\ recordLock' = IF recordLock = p THEN Nothing ELSE recordLock
       /\ UNCHANGED finalizeLock
  ELSE Raises(p) /\ UNCHANGED code

(* quarantine_and_rollover: the lease is the current one, the workspace is  *)
(* for managed output, and a snapshot that was recorded is the answer.      *)
RollOver(p) ==
  /\ wsPc[p] = "roll over" /\ recordLock = Nothing
  /\ IF lease[p] # record \/ purpose # "managed_output" \/ record.phase = "released"
     THEN WorkspaceFails(p)
     ELSE IF record.phase = "quarantined" /\ record.snapshot # Nothing
     THEN Goes(p, IF code[p] = Nothing THEN "open result" ELSE "release")
          /\ UNCHANGED <<fileLocks, code>>
     ELSE /\ TakeRecord(p) /\ UNCHANGED <<finalizeLock, code>>
          /\ Goes(p, IF record.phase = "materialized" THEN "rename" ELSE "rebind")
  /\ UNCHANGED <<durable, world, lease, before, deaths>>

(* Mutant: a rename that a dead process has done is a collision.            *)
RenameOnce(p) ==
  /\ wsPc[p] = "rename"
  /\ IF quarantine # Nothing
     THEN WorkspaceFails(p) /\ UNCHANGED trees
     ELSE /\ quarantine' = checkout /\ checkout' = Nothing /\ Goes(p, "record quarantine")
          /\ UNCHANGED <<staging, fileLocks, code>>
  /\ UNCHANGED <<record, attempt, snapshots, keys, marker, world, lease, before, deaths>>

(* _quarantine_for_rollover: a move that a dead process has done is done.   *)
Rename(p) ==
  /\ wsPc[p] = "rename"
  /\ LET moved == quarantine # Nothing /\ checkout = Nothing
     IN  IF quarantine # Nothing /\ ~moved
         THEN WorkspaceFails(p) /\ UNCHANGED trees
         ELSE /\ IF moved THEN UNCHANGED trees
                 ELSE quarantine' = checkout /\ checkout' = Nothing /\ UNCHANGED staging
              /\ Goes(p, "record quarantine") /\ UNCHANGED <<fileLocks, code>>
  /\ UNCHANGED <<record, attempt, snapshots, keys, marker, world, lease, before, deaths>>

RecordQuarantine(p) ==
  /\ wsPc[p] = "record quarantine"
  /\ record' = [record EXCEPT !.phase = "quarantined", !.revision = record.revision + 1]
  /\ IF purpose = "managed_output"
     THEN Goes(p, "rebind") /\ UNCHANGED <<recordLock, code>>
     ELSE Goes(p, "open result") /\ recordLock' = Nothing /\ UNCHANGED code
  /\ UNCHANGED <<trees, attempt, snapshots, keys, marker, world, finalizeLock, lease,
                 before, deaths>>

(* The baseline follows the move.                                           *)
Rebind(p) ==
  /\ wsPc[p] = "rebind"
  /\ IF ~Relocates(quarantine)
     THEN WorkspaceFails(p) /\ UNCHANGED record
     ELSE /\ record' = IF record.rebound THEN record
                       ELSE [record EXCEPT !.rebound = TRUE, !.revision = record.revision + 1]
          /\ Goes(p, "capture") /\ UNCHANGED <<fileLocks, code>>
  /\ UNCHANGED <<trees, attempt, snapshots, keys, marker, world, lease, before, deaths>>

(* _capture_rollover_snapshot: the tree is captured and validated ...       *)
Capture(p) ==
  /\ wsPc[p] = "capture"
  /\ IF ValidOutput(quarantine) /\ Faithful(quarantine.files)
     THEN /\ before' = [before EXCEPT ![p] = quarantine.files] /\ Goes(p, "copy")
          /\ UNCHANGED <<fileLocks, code>>
     ELSE WorkspaceFails(p) /\ UNCHANGED before
  /\ UNCHANGED <<durable, world, lease, deaths>>

(* ... every file is copied by its digest, and the tree is captured again.  *)
Copy(p) ==
  /\ wsPc[p] = "copy"
  /\ IF quarantine = [files |-> before[p], git |-> "clean"]
     THEN /\ snapshots' = snapshots \cup {before[p]} /\ Goes(p, "commit")
          /\ UNCHANGED <<fileLocks, code>>
     ELSE WorkspaceFails(p) /\ UNCHANGED snapshots
  /\ UNCHANGED <<record, trees, attempt, keys, marker, world, lease, before, deaths>>

(* _commit_rollover. *)
CommitRollover(p) ==
  /\ wsPc[p] = "commit" /\ recordLock' = Nothing
  /\ record' = [record EXCEPT !.snapshot = before[p], !.revision = record.revision + 1]
  /\ Goes(p, IF code[p] = Nothing THEN "open result" ELSE "release")
  /\ lease' = [lease EXCEPT ![p] = record']
  /\ UNCHANGED <<trees, attempt, snapshots, keys, marker, world, finalizeLock, before,
                 code, deaths>>

(* quarantine_no_publish: the output of an operation is never looked at.    *)
Fence(p) ==
  /\ wsPc[p] = "fence"
  /\ IF lease[p] # record \/ record.phase = "released"
     THEN WorkspaceFails(p)
     ELSE IF record.phase = "quarantined"
     THEN Goes(p, "open result") /\ UNCHANGED <<fileLocks, code>>
     ELSE TakeRecord(p) /\ Goes(p, "rename") /\ UNCHANGED <<finalizeLock, code>>
  /\ UNCHANGED <<durable, world, lease, before, deaths>>

OpenResult(p) ==
  /\ wsPc[p] = "open result" /\ Goes(p, "write result")
  /\ attempt' = [attempt EXCEPT !.result = Torn]
  /\ UNCHANGED <<record, trees, snapshots, keys, marker, world, fileLocks, local, deaths>>

(* _parse_result: PASS, or an error of the runner; an error has no output.  *)
WriteResult(p) ==
  /\ wsPc[p] = "write result" /\ Goes(p, "release")
  /\ \E outcome \in IF code[p] = Nothing THEN {"PASS", "runner_failed"} ELSE {code[p]} :
       attempt' = [attempt EXCEPT !.result =
                     [code |-> outcome,
                      snapshot |-> IF outcome = "PASS" THEN record.snapshot ELSE Nothing]]
  /\ lease' = [lease EXCEPT ![p] = record]
  /\ UNCHANGED <<record, trees, snapshots, keys, marker, world, fileLocks, before, code,
                 deaths>>

(* Mutant: a quarantined workspace is released whether rolled over or not.  *)
ReleaseAny(p) ==
  /\ wsPc[p] = "release"
  /\ IF record.phase = "quarantined"
     THEN TakeRecord(p) /\ Goes(p, "remove tree") /\ UNCHANGED finalizeLock
     ELSE UNCHANGED fileLocks /\ Goes(p, "settle")
  /\ UNCHANGED <<durable, world, local, deaths>>

(* Managed output that was rolled over is released: the tree is removed,    *)
(* then the record says so.  Everything else stays in quarantine.           *)
ReleaseRollover(p) ==
  /\ wsPc[p] = "release"
  /\ IF purpose = "managed_output" /\ record.phase = "quarantined"
        /\ record.snapshot # Nothing
     THEN TakeRecord(p) /\ Goes(p, "remove tree") /\ UNCHANGED finalizeLock
     ELSE UNCHANGED fileLocks /\ Goes(p, "settle")
  /\ UNCHANGED <<durable, world, local, deaths>>

RemoveTree(p) ==
  /\ wsPc[p] = "remove tree"
  /\ IF lease[p] # record
     THEN Raises(p) /\ UNCHANGED quarantine
     ELSE quarantine' = Nothing /\ Goes(p, "record release") /\ UNCHANGED fileLocks
  /\ UNCHANGED <<record, checkout, staging, attempt, snapshots, keys, marker, world,
                 local, deaths>>

RecordRelease(p) ==
  /\ wsPc[p] = "record release" /\ Goes(p, "settle") /\ recordLock' = Nothing
  /\ record' = [record EXCEPT !.phase = "released", !.revision = record.revision + 1]
  /\ UNCHANGED <<trees, attempt, snapshots, keys, marker, world, finalizeLock, local,
                 deaths>>

(* The attempt is terminal: a pass with artifacts has them registered, an   *)
(* error, or a rejection before the launch, is sealed.                      *)
Settle(p) ==
  /\ wsPc[p] = "settle"
  /\ LET sealed == IF code[p] = "prelaunch_failed"
                   THEN [code |-> "prelaunch_failed", snapshot |-> Nothing]
                   ELSE attempt.result
         publishes == sealed.code = "PASS" /\ purpose = "managed_output"
                        /\ Artifacts # {}
     IN  /\ answer' = IF publishes \/ answer # Nothing THEN answer
                      ELSE [code |-> sealed.code, snapshot |-> sealed.snapshot,
                            artifacts |-> {}]
         /\ Goes(p, IF publishes THEN "register" ELSE "idle")
  /\ finalizeLock' = IF finalizeLock = p THEN Nothing ELSE finalizeLock
  /\ UNCHANGED <<durable, purpose, input, workerAt, expired, stray, recordLock, local,
                 deaths>>

(* register_set: the sources are in the rollover snapshot; a required one   *)
(* that is absent raises.  Keys and manifests are immutable and published   *)
(* one by one; they mean nothing before the set is committed.               *)
PublishKey(p) ==
  /\ wsPc[p] = "register"
  /\ \E a \in Artifacts :
       /\ attempt.result.snapshot[a] # "none" /\ \A k \in keys : k.path # a
       /\ keys' = keys \cup {[path |-> a, blob |-> attempt.result.snapshot[a]]}
  /\ UNCHANGED <<record, trees, attempt, snapshots, marker, world, fileLocks, wsPc, local,
                 deaths>>

CommitSet(p) ==
  /\ wsPc[p] = "register"
  /\ LET there == Artifacts \cap Present(attempt.result.snapshot)
     IN  IF Required \subseteq there
         THEN /\ \A a \in there : \E k \in keys : k.path = a
              /\ marker' = there /\ Goes(p, "seal")
         ELSE Goes(p, "idle") /\ UNCHANGED marker
  /\ UNCHANGED <<record, trees, attempt, snapshots, keys, world, fileLocks, local, deaths>>

(* ArtifactRegistry.read: the blob is stored and the set names the artifact.*)
Readable(k) == k.path \in marker /\ \E s \in snapshots : s[k.path] = k.blob

(* list_for_producer: nothing before the set is committed.                  *)
Listed == IF marker = Nothing THEN {} ELSE {k \in keys : Readable(k)}

(* The coordinator seals the result with the artifacts.                     *)
Seal(p) ==
  /\ wsPc[p] = "seal" /\ Goes(p, "idle")
  /\ answer' = IF answer # Nothing THEN answer
               ELSE [code |-> "PASS", snapshot |-> attempt.result.snapshot,
                     artifacts |-> marker]
  /\ UNCHANGED <<durable, purpose, input, workerAt, expired, stray, fileLocks, local, deaths>>

(* Past the deadline an effect without a worker is sealed as timed out, and *)
(* one whose worker has ended when its terminal state has been established. *)
SealTimeout(p) ==
  /\ wsPc[p] = "idle" /\ expired /\ answer = Nothing
  /\ \/ workerAt = "none"
     \/ workerAt = "ended" /\ attempt.result \notin {Nothing, Torn}
  /\ answer' = [code |-> "deadline_timeout", snapshot |-> Nothing, artifacts |-> {}]
  /\ UNCHANGED <<durable, purpose, input, workerAt, expired, stray, fileLocks, wsPc, local,
                 deaths>>

Die(p) ==
  /\ wsPc[p] # "idle" /\ deaths < MaxWsDeaths /\ deaths' = deaths + 1 /\ Raises(p)
  /\ lease' = [lease EXCEPT ![p] = Nothing] /\ before' = [before EXCEPT ![p] = Nothing]
  /\ code' = [code EXCEPT ![p] = Nothing]
  /\ UNCHANGED <<durable, world>>

-----------------------------------------------------------------------------

PrepareStep(p) ==
  \/ Recover(p) \/ Materialize(p) \/ PublishCheckout(p) \/ WriteLease(p) \/ InspectSurfaces(p)
  \/ WritePrepared(p)
  \/ \E f \in {"launch", "stdin"} : OpenOnce(p, f) \/ WriteOnce(p, f)

RolloverStep(p) ==
  \/ RollOver(p) \/ Rename(p) \/ RecordQuarantine(p) \/ Rebind(p) \/ Capture(p)
  \/ Copy(p) \/ CommitRollover(p) \/ Fence(p)

ResultStep(p) ==
  \/ OpenResult(p) \/ WriteResult(p) \/ ReleaseRollover(p) \/ RemoveTree(p)
  \/ RecordRelease(p) \/ Settle(p) \/ PublishKey(p) \/ CommitSet(p) \/ Seal(p)

WsNext ==
  \/ \E p \in Procs : \/ Prepare(p) \/ PrepareStep(p) \/ FinalizeAttempt(p) \/ RolloverStep(p)
                      \/ ResultStep(p) \/ SealTimeout(p) \/ Die(p)
  \/ EnsureStarted \/ Work \/ End \/ Stray \/ Expire

(* A step that was begun goes on; an effect that is not sealed is driven    *)
(* again and again (RunDrive); the supervisor ends every worker             *)
(* (CodexAttempt); deadlines pass.                                          *)
WsFairness ==
  /\ WF_wsVars(End) /\ WF_wsVars(Expire)
  /\ \A p \in Procs :
       /\ WF_wsVars(PrepareStep(p) \/ RolloverStep(p) \/ ResultStep(p))
       /\ SF_wsVars(FinalizeAttempt(p)) /\ SF_wsVars(SealTimeout(p))
       /\ SF_wsVars(RolloverStep(p)) /\ SF_wsVars(ResultStep(p))

WsSpec == WsInit /\ [][WsNext]_wsVars /\ WsFairness

-----------------------------------------------------------------------------
(* Properties *)

WsTypeOK ==
  /\ record # Nothing =>
       /\ record.phase \in {"materialized", "quarantined", "released"}
       /\ record.snapshot \in snapshots \cup {Nothing}
  /\ \A t \in {checkout, quarantine} : t = Nothing \/ t \in Tree
  /\ staging \in {"gone", "partial"}
  /\ \A k \in keys : k.path \in Artifacts
  /\ recordLock \in Procs \cup {Nothing} /\ finalizeLock \in Procs \cup {Nothing}

(* What an attempt hands on, as a recorded snapshot or in its result, is    *)
(* the input with declared changes and nothing else, whatever the worker or *)
(* a stray process wrote and whenever it wrote it; the output of an         *)
(* operation is never handed on.                                            *)
DeclaredOnly ==
  LET out == {s \in {IF record = Nothing THEN Nothing ELSE record.snapshot,
                     IF answer = Nothing THEN Nothing ELSE answer.snapshot} : s # Nothing}
  IN  \A s \in out : /\ purpose = "managed_output"
                     /\ \A p \in Paths : s[p] \notin {"link", "program"}
                     /\ {p \in Paths : s[p] # input[p]} \subseteq Declared

HandedOnAsDeclared == WsTypeOK /\ DeclaredOnly

(* A reader of the artifacts finds none of them or all that the output has, *)
(* each as it is in the one snapshot of the attempt, although they are      *)
(* published one by one and a process may die between them.                 *)
ArtifactsOfTheAnswer ==
  /\ marker # Nothing => {k.path : k \in Listed} = marker
  /\ \A k \in Listed : k.blob = attempt.result.snapshot[k.path]
  /\ answer # Nothing =>
       answer.artifacts = (IF answer.code = "PASS" /\ purpose = "managed_output"
                           THEN {k.path : k \in Listed} ELSE {})

(* From the start of the worker until its output is a recorded snapshot the *)
(* tree it worked in exists: no retry of a dead process discards it, and    *)
(* output that could not be rolled over stays in quarantine.                *)
TreeIsKept ==
  workerAt # "none" =>
    \/ checkout # Nothing \/ quarantine # Nothing
    \/ record # Nothing /\ record.snapshot # Nothing

(* No output is lost: it is in a tree until it is a snapshot, and its       *)
(* artifacts are seen all or none.                                          *)
OutputIsKept == TreeIsKept /\ ArtifactsOfTheAnswer

(* An effect is answered after all the deaths, unless one of them tore      *)
(* result.json, which no process then completes or replaces.                *)
AttemptIsAnswered == <>(answer # Nothing \/ attempt.result = Torn)
=============================================================================
