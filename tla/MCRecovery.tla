----------------------------- MODULE MCRecovery -----------------------------
(***************************************************************************)
(* What processes that die leave to the next ones, in two systems: the     *)
(* runtime database with its backfill (Schema) and the checkout of an      *)
(* attempt (Workspace).  A behaviour is one of either; the other stands    *)
(* still.                                                                  *)
(***************************************************************************)
EXTENDS Schema

CONSTANTS
  Paths, Aliases, Declared, Artifacts, Required, Control, MaxEntries, None, Torn,
  Starters,      \* processes that reconcile the effect
  MaxStray       \* BOUND: see Workspace

VARIABLES
  which, purpose, input, record, checkout, staging, quarantine, attempt, workerAt,
  snapshots, keys, marker, answer, expired, recordLock, finalizeLock, wsPc, lease,
  before, code, wsDeaths, stray

wsVars == <<purpose, input, record, checkout, staging, quarantine, attempt, workerAt,
            snapshots, keys, marker, answer, expired, recordLock, finalizeLock, wsPc,
            lease, before, code, wsDeaths, stray>>

W == INSTANCE Workspace WITH Procs <- Starters, deaths <- wsDeaths,
                            Nothing <- None, MaxWsDeaths <- MaxDeaths

ASSUME InstanceAssumption == W!WorkspaceAssumption

(* The system that stands still is in one of its initial states.            *)
Init ==
  /\ SchemaInit /\ W!WsInit
  /\ \/ /\ which = "schema"
        /\ purpose = "managed_output" /\ input = [p \in Paths |-> "none"]
     \/ which = "workspace" /\ tables = {} /\ graph = [r \in RunIds |-> "absent"]

Next ==
  /\ UNCHANGED which
  /\ \/ which = "schema" /\ SchemaNext /\ UNCHANGED wsVars
     \/ which = "workspace" /\ W!WsNext /\ UNCHANGED schemaVars

vars == <<which, schemaVars, wsVars>>

(* SchemaFairness or WsFairness. *)
InSchema(A) == which = "schema" /\ A
InWorkspace(A) == which = "workspace" /\ A

Fairness ==
  /\ \A p \in Procs :
       /\ WF_schemaVars(InSchema(OpenStep(p))) /\ SF_schemaVars(InSchema(TakeFence(p)))
       /\ WF_schemaVars(InSchema(ClassifyPage(p))) /\ SF_schemaVars(InSchema(ApplyPage(p)))
       /\ WF_schemaVars(InSchema(\E r \in RunIds : Begin(p, r)))
       /\ WF_schemaVars(InSchema(pc[p] \in {"refused", "stopped"} /\ Restart(p)))
  /\ WF_wsVars(InWorkspace(W!End)) /\ WF_wsVars(InWorkspace(W!Expire))
  /\ \A p \in Starters :
       /\ WF_wsVars(InWorkspace(\/ W!PrepareStep(p) \/ W!RolloverStep(p)
                               \/ W!ResultStep(p)))
       /\ SF_wsVars(InWorkspace(W!FinalizeAttempt(p)))
       /\ SF_wsVars(InWorkspace(W!SealTimeout(p)))

Spec == Init /\ [][Next]_vars /\ Fairness

(* Workspace's AttemptIsAnswered, where there is an attempt: an effect is   *)
(* answered however often its processes die, unless one tore result.json.   *)
AttemptIsAnswered == which = "workspace" => W!AttemptIsAnswered
=============================================================================
