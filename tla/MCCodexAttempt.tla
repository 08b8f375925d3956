--------------------------- MODULE MCCodexAttempt ---------------------------
(* Two engine processes, up to two supervisors, one death anywhere. *)
EXTENDS CodexAttempt
=============================================================================
