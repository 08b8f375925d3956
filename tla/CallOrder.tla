------------------------------ MODULE CallOrder ------------------------------
(***************************************************************************)
(* The orders in which a compilation goes through the roles a workflow     *)
(* calls (authoring_compilation.py, _ClosureCompiler.visit).               *)
(***************************************************************************)
EXTENDS SequencesExt

CONSTANT Calls     \* role -> the sequence of roles it calls; there is no cycle

(* The order in which the sources are read, a caller before its children ... *)
RECURSIVE ReadOrder(_, _)
ReadOrder(role, done) ==
  IF Contains(done, role) THEN done
  ELSE FoldLeft(LAMBDA d, child : ReadOrder(child, d), Append(done, role), Calls[role])

(* ... and in which the roles are completed, a child before its callers.    *)
RECURSIVE Complete(_, _)
Complete(role, done) ==
  IF Contains(done, role) THEN done
  ELSE Append(FoldLeft(LAMBDA d, child : Complete(child, d), done, Calls[role]), role)
=============================================================================
