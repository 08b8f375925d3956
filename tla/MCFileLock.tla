----------------------------- MODULE MCFileLock -----------------------------
(* Three processes, one of which may die at any step. *)
EXTENDS FileLock
=============================================================================
