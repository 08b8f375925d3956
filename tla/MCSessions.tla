----------------------------- MODULE MCSessions -----------------------------
(***************************************************************************)
(* What several people, sessions and processes do to one project at a      *)
(* time: the snapshots of a parallel block (Lineage), the session that     *)
(* answers for a run (Sessions), and the checkout of one attempt           *)
(* (Workspace). A behaviour is one of one of them; the others stand still. *)
(***************************************************************************)
EXTENDS Lineage, Sessions, Workspace, TLC

VARIABLE which

Project == {"a", "b", "m", "z"}
Branch == [A |-> {"a"}, B |-> {"b"}, M |-> {"m"}]

Block == <<{"edit"}, {"draft", "call"}, {"report"}>>
KindOf == [edit |-> "manual", draft |-> "manual", call |-> "managed", report |-> "plain"]

ASSUME InstancesAssumption ==
  LineageAssumption /\ SessionsAssumption /\ WorkspaceAssumption

Init ==
  /\ LineageInit /\ SessionsInit /\ WsInit
  /\ which \in {"lineage", "sessions", "workspace"}
  /\ which # "workspace" =>
       purpose = "managed_output" /\ input = [p \in Paths |-> "none"]

LineageStep == LineageNext /\ UNCHANGED <<sessionsVars, wsVars>>
SessionsStep == SessionsNext /\ UNCHANGED <<lineageVars, wsVars>>
WorkspaceStep == WsNext /\ UNCHANGED <<lineageVars, sessionsVars>>

Next ==
  /\ UNCHANGED which
  /\ \/ which = "lineage" /\ LineageStep
     \/ which = "sessions" /\ SessionsStep
     \/ which = "workspace" /\ WorkspaceStep

Spec == Init /\ [][Next]_<<which, lineageVars, sessionsVars, wsVars>>

(* In each of the systems the two who act are the same two values. *)
Interchangeable == Permutations(Procs)
=============================================================================
